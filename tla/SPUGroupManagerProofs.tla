----------------------- MODULE SPUGroupManagerProofs -----------------------
(***************************************************************************)
(* The lists of the SPU group manager and the suspension flags of the      *)
(* threads agree, for any number of groups, threads and SPUs.  The         *)
(* invariant is Inv of SPUGroupManager: types, OneList, FlagsFollowLists   *)
(* and OwnerPlaced, which says where the owner's program counter puts the  *)
(* group and that groups share no thread.  The second part goes on from    *)
(* there to the life of the threads between two starts of their group: the *)
(* assertions of the code, and what join returns.  The third part is about *)
(* dispatch: a recursive function has the value its recursion gives it,    *)
(* and the groups it serves fit on the SPUs.  What would be an induction   *)
(* is an argument about the least number that does not fit it.             *)
(***************************************************************************)
EXTENDS SPUGroupManager, FiniteSetTheorems, WellFoundedInduction, TLAPS

\* No thread is in two groups, and no raw thread is in one: threads only ever
\* get into a group from its Members.
LEMMA GroupsShareNoThread ==
  ASSUME OwnerPlaced, NEW g \in Groups, NEW t \in Range(threads[g])
  PROVE  /\ t \in Threads
         /\ t \notin RawThreads
         /\ \A h \in Groups : t \in Range(threads[h]) => h = g
BY GroupsAssumption DEF OwnerPlaced, Threads, GroupThreads

\* What dispatch does to the flags of the groups it serves and of the others.
LEMMA DispatchFlags ==
  ASSUME TypeOK, OwnerPlaced, NEW S \in SUBSET Groups, NEW f \in [Threads -> BOOLEAN],
         Dispatch(S, f)
  PROVE  /\ running' \subseteq S /\ ready' = S \ running'
         /\ flag' \in [Threads -> BOOLEAN]
         /\ \A h \in S : \A t \in Range(threads[h]) : flag'[t] = (h \notin running')
         /\ \A h \in Groups \ S : \A t \in Range(threads[h]) : flag'[t] = f[t]
<1>1. running' \subseteq S /\ ready' = S \ running'
  BY DEF Dispatch, dispatched
<1>2. \A t \in Threads : flag'[t] = IF \E g \in S : t \in Range(threads[g])
                                    THEN \E g \in S \ running' : t \in Range(threads[g])
                                    ELSE f[t]
  BY DEF Dispatch
<1>3. flag' \in [Threads -> BOOLEAN]
  <2>1. flag' = [t \in Threads |-> flag'[t]]
    BY DEF Dispatch
  <2>2. \A t \in Threads : flag'[t] \in BOOLEAN
    BY <1>2
  <2>. QED BY <2>1, <2>2
<1>4. ASSUME NEW h \in S, NEW t \in Range(threads[h])
      PROVE  flag'[t] = (h \notin running')
  <2>1. t \in Threads /\ \A g \in Groups : t \in Range(threads[g]) => g = h
    BY GroupsShareNoThread
  <2>2. flag'[t] = \E g \in S \ running' : t \in Range(threads[g])
    BY <1>2, <2>1
  <2>3. (\E g \in S \ running' : t \in Range(threads[g])) <=> h \notin running'
    BY <2>1
  <2>. QED BY <2>2, <2>3
<1>5. ASSUME NEW h \in Groups \ S, NEW t \in Range(threads[h])
      PROVE  flag'[t] = f[t]
  <2>1. t \in Threads /\ ~\E g \in S : t \in Range(threads[g])
    BY GroupsShareNoThread
  <2>. QED BY <1>2, <2>1
<1>. QED BY <1>1, <1>3, <1>4, <1>5

\* A step that touches neither the lists nor the owners nor the flags.
LEMMA QuietStep ==
  ASSUME Inv, TypeOK', UNCHANGED <<lists, mutex, threads, flag, opc, at>>
  PROVE  Inv'
BY DEF Inv, lists, OneList, FlagsFollowLists, OwnerPlaced

LEMMA InvInit == Init => Inv
<1>. SUFFICES ASSUME Init PROVE Inv
  OBVIOUS
<1>1. TypeOK
  BY GroupsAssumption DEF Init, TypeOK, Causes
<1>2. OneList
  BY DEF Init, OneList
<1>3. FlagsFollowLists
  BY DEF Init, FlagsFollowLists
<1>4. OwnerPlaced
  BY DEF Init, OwnerPlaced, Range
<1>. QED BY <1>1, <1>2, <1>3, <1>4 DEF Inv

\* The thread a loop over ThreadGroup::threads is at is one of the group's.
LEMMA LoopThread ==
  ASSUME Inv, NEW g \in Groups, at[g] <= Len(threads[g])
  PROVE  /\ at[g] \in DOMAIN threads[g]
         /\ threads[g][at[g]] \in Range(threads[g])
         /\ threads[g][at[g]] \in Threads \ RawThreads
<1>1. threads[g] \in Seq(GroupThreads) /\ at[g] \in Nat /\ at[g] >= 1
  BY DEF Inv, TypeOK, OwnerPlaced
<1>2. at[g] \in DOMAIN threads[g]
  BY <1>1
<1>3. threads[g][at[g]] \in Range(threads[g])
  BY <1>2 DEF Range
<1>. QED BY <1>2, <1>3, GroupsShareNoThread DEF Inv

LEMMA QuietActions ==
  ASSUME Inv, NEW t \in Threads,
         \/ Signal(t) \/ WaitSuspended(t) \/ SuspensionPoint(t) \/ Resumed(t)
         \/ \E c \in {"Exit", "GroupExit"} : Stop(t, c)
         \/ NotifyStoppedRaw(t) \/ Fault(t) \/ Finish(t) \/ RawJoin(t)
  PROVE  Inv'
<1>1. UNCHANGED <<lists, mutex, threads, flag, opc, at>>
  BY DEF Signal, WaitSuspended, SuspensionPoint, Resumed, Stop, NotifyStoppedRaw, Fault, Finish,
         RawJoin, owner
<1>2. UNCHANGED <<causes, group, seen, result>>
  BY DEF Signal, WaitSuspended, SuspensionPoint, Resumed, Stop, NotifyStoppedRaw, Fault, Finish,
         RawJoin, owner
<1>3. \E x \in {"none", "signalled", "waiting", "running", "stopping", "finishing", "ended", "crashed"} :
        tpc' = [tpc EXCEPT ![t] = x]
  BY DEF Signal, WaitSuspended, SuspensionPoint, Resumed, Stop, NotifyStoppedRaw, Fault, Finish,
         RawJoin, ThreadAt
<1>4. needsJoin' = needsJoin \/ needsJoin' = [needsJoin EXCEPT ![t] = FALSE]
  BY DEF Signal, WaitSuspended, SuspensionPoint, Resumed, Stop, NotifyStoppedRaw, Fault, Finish,
         RawJoin
<1>5. cause' = cause \/ \E c \in Causes : cause' = [cause EXCEPT ![t] = c]
  BY DEF Signal, WaitSuspended, SuspensionPoint, Resumed, Stop, NotifyStoppedRaw, Fault, Finish,
         RawJoin, Causes
<1>6. TypeOK'
  <2>1. needsJoin' \in [Threads -> BOOLEAN]
    BY <1>4 DEF Inv, TypeOK
  <2>2. cause' \in [Threads -> Causes]
    BY <1>5 DEF Inv, TypeOK
  <2>3. tpc' \in [Threads -> {"none", "created", "signalled", "waiting", "running",
                              "stopping", "finishing", "ended", "crashed"}]
    BY <1>3 DEF Inv, TypeOK
  <2>. QED BY <1>1, <1>2, <2>1, <2>2, <2>3 DEF Inv, TypeOK, lists
<1>. QED BY <1>1, <1>6, QuietStep

LEMMA JoinSteps ==
  ASSUME Inv, NEW g \in Groups, Join(g) \/ JoinThread(g)
  PROVE  Inv'
<1>1. CASE Join(g)
  <2>1. TypeOK'
    BY <1>1 DEF Inv, TypeOK, lists, spu, Join, OwnerAt
  <2>2. OneList' /\ FlagsFollowLists'
    BY <1>1 DEF Inv, TypeOK, OneList, FlagsFollowLists, lists, spu, Join, OwnerAt
  <2>3. OwnerPlaced'
    BY <1>1 DEF Inv, TypeOK, OwnerPlaced, lists, spu, Join, OwnerAt
  <2>. QED BY <2>1, <2>2, <2>3 DEF Inv
<1>2. CASE JoinThread(g)
  <2>. DEFINE t == threads[g][at[g]]
  <2>0. t \in Threads
    BY <1>2, LoopThread DEF JoinThread
  <2>1. TypeOK'
    <3>1. cause[t] \in Causes
      BY <2>0 DEF Inv, TypeOK
    <3>2. seen' \in [Groups -> SUBSET Causes]
      BY <1>2, <3>1 DEF Inv, TypeOK, JoinThread
    <3>3. at' \in [Groups -> Nat]
      BY <1>2 DEF Inv, TypeOK, JoinThread
    <3>4. needsJoin' \in [Threads -> BOOLEAN]
      BY <1>2, <2>0 DEF Inv, TypeOK, JoinThread
    <3>5. tpc' \in [Threads -> {"none", "created", "signalled", "waiting", "running",
                                "stopping", "finishing", "ended", "crashed"}]
      BY <1>2, <2>0 DEF Inv, TypeOK, JoinThread
    <3>. QED BY <1>2, <3>2, <3>3, <3>4, <3>5 DEF Inv, TypeOK, lists, JoinThread
  <2>2. OneList' /\ FlagsFollowLists'
    BY <1>2 DEF Inv, OneList, FlagsFollowLists, lists, JoinThread
  <2>3. OwnerPlaced'
    BY <1>2 DEF Inv, TypeOK, OwnerPlaced, lists, JoinThread
  <2>. QED BY <2>1, <2>2, <2>3 DEF Inv
<1>. QED BY <1>1, <1>2

\* The owner's calls that move no group between started lists.
LEMMA OwnerCalls ==
  ASSUME Inv, NEW g \in Groups,
         Create(g) \/ Start(g) \/ JoinReturn(g) \/ Destroy(g)
  PROVE  Inv'
<1>1. CASE Create(g)
  <2>1. TypeOK'
    BY <1>1 DEF Inv, TypeOK, spu, Create, OwnerAt
  <2>2. OneList'
    BY <1>1 DEF Inv, TypeOK, OneList, Create, OwnerAt
  <2>3. FlagsFollowLists'
    BY <1>1 DEF Inv, TypeOK, FlagsFollowLists, spu, Create, Range
  <2>4. OwnerPlaced'
    <3>1. Range(threads'[g]) = {}
      BY <1>1 DEF Inv, TypeOK, Create, Range
    <3>. QED BY <1>1, <3>1 DEF Inv, TypeOK, OwnerPlaced, Create, OwnerAt
  <2>. QED BY <2>1, <2>2, <2>3, <2>4 DEF Inv
<1>2. CASE Start(g)
  <2>1. TypeOK'
    BY <1>2 DEF Inv, TypeOK, lists, spu, Start, OwnerAt
  <2>2. OneList' /\ FlagsFollowLists'
    BY <1>2 DEF Inv, TypeOK, OneList, FlagsFollowLists, lists, spu, Start, OwnerAt
  <2>3. OwnerPlaced'
    BY <1>2, GroupsAssumption DEF Inv, TypeOK, OwnerPlaced, lists, Start, OwnerAt
  <2>. QED BY <2>1, <2>2, <2>3 DEF Inv
<1>3. CASE JoinReturn(g)
  <2>1. TypeOK'
    BY <1>3 DEF Inv, TypeOK, lists, spu, JoinReturn, OwnerAt
  <2>2. OneList' /\ FlagsFollowLists'
    BY <1>3 DEF Inv, TypeOK, OneList, FlagsFollowLists, lists, spu, JoinReturn, OwnerAt
  <2>3. OwnerPlaced'
    BY <1>3 DEF Inv, TypeOK, OwnerPlaced, lists, JoinReturn, OwnerAt
  <2>. QED BY <2>1, <2>2, <2>3 DEF Inv
<1>4. CASE Destroy(g)
  <2>1. TypeOK'
    BY <1>4 DEF Inv, TypeOK, spu, Destroy, OwnerAt
  <2>2. g \in initialized
    BY <1>4 DEF Inv, OwnerPlaced, Destroy, OwnerAt
  <2>3. OneList'
    BY <1>4, <2>2 DEF Inv, TypeOK, OneList, Destroy, OwnerAt
  <2>4. FlagsFollowLists'
    BY <1>4 DEF Inv, FlagsFollowLists, spu, Destroy
  <2>5. OwnerPlaced'
    BY <1>4 DEF Inv, TypeOK, OwnerPlaced, Destroy, OwnerAt
  <2>. QED BY <2>1, <2>3, <2>4, <2>5 DEF Inv
<1>. QED BY <1>1, <1>2, <1>3, <1>4

\* sys_spu_thread_initialize adds a thread of the group's own.
LEMMA InitializeStep ==
  ASSUME Inv, NEW g \in Groups, NEW t \in Members[g], Initialize(g, t)
  PROVE  Inv'
<1>1. t \in GroupThreads /\ t \in Threads
  BY DEF GroupThreads, Threads
<1>2. TypeOK'
  <2>1. threads' \in [Groups -> Seq(GroupThreads)]
    BY <1>1 DEF Inv, TypeOK, Initialize
  <2>2. group' \in [Threads -> Groups \cup {Null, Garbage}]
    BY <1>1 DEF Inv, TypeOK, Initialize
  <2>. QED BY <2>1, <2>2 DEF Inv, TypeOK, lists, owner, Initialize
<1>3. /\ \A h \in Groups \ {g} : threads'[h] = threads[h]
      /\ Range(threads'[g]) = Range(threads[g]) \cup {t}
      /\ DOMAIN threads[g] \subseteq DOMAIN threads'[g]
  <2>1. threads'[g] = Append(threads[g], t) /\ threads[g] \in Seq(GroupThreads)
    BY DEF Inv, TypeOK, Initialize
  <2>2. \A h \in Groups \ {g} : threads'[h] = threads[h]
    BY DEF Inv, TypeOK, Initialize
  <2>3. DOMAIN threads'[g] = DOMAIN threads[g] \cup {Len(threads[g]) + 1}
    BY <2>1, <1>1
  <2>4. /\ threads'[g][Len(threads[g]) + 1] = t
        /\ \A i \in DOMAIN threads[g] : threads'[g][i] = threads[g][i]
    BY <2>1, <1>1
  <2>5. Range(threads'[g]) = Range(threads[g]) \cup {t}
    BY <2>3, <2>4 DEF Range
  <2>. QED BY <2>2, <2>3, <2>5
<1>4. g \in initialized /\ UNCHANGED <<lists, mutex, flag, opc, at>>
  BY DEF Inv, OwnerPlaced, Initialize, owner
<1>5. OneList'
  BY <1>4 DEF Inv, OneList, lists
<1>6. FlagsFollowLists'
  <2>. SUFFICES ASSUME NEW h \in Groups, NEW u \in Range(threads'[h])
                PROVE  /\ h \in running' => ~flag'[u]
                       /\ h \in ready' \cup suspended' => flag'[u]
    BY DEF FlagsFollowLists
  <2>1. CASE h = g
    BY <1>4, <2>1 DEF Inv, OneList, lists
  <2>2. CASE h # g
    <3>1. u \in Range(threads[h])
      BY <1>3, <2>2
    <3>. QED BY <1>4, <3>1 DEF Inv, FlagsFollowLists, lists
  <2>. QED BY <2>1, <2>2
<1>7. OwnerPlaced'
  BY <1>3, <1>4 DEF Inv, OwnerPlaced, lists
<1>. QED BY <1>2, <1>5, <1>6, <1>7 DEF Inv

\* The steps of start before the group leaves the initialized list.
LEMMA StartSteps ==
  ASSUME Inv, NEW g \in Groups,
         StartThread(g) \/ StartSuspended(g) \/ StartHandshake(g)
  PROVE  Inv'
<1>. DEFINE t == threads[g][at[g]]
<1>1. CASE StartThread(g)
  <2>0. t \in Threads /\ at[g] \in DOMAIN threads[g]
    BY <1>1, LoopThread DEF StartThread
  <2>1. TypeOK'
    <3>1. causes' \in [Threads -> Causes]
      BY <1>1, <2>0 DEF Inv, TypeOK, StartThread, Causes
    <3>2. tpc' \in [Threads -> {"none", "created", "signalled", "waiting", "running",
                                "stopping", "finishing", "ended", "crashed"}]
      BY <1>1, <2>0 DEF Inv, TypeOK, StartThread
    <3>. QED BY <1>1, <3>1, <3>2 DEF Inv, TypeOK, lists, StartThread, OwnerAt
  <2>2. OneList' /\ FlagsFollowLists'
    BY <1>1 DEF Inv, TypeOK, OneList, FlagsFollowLists, lists, StartThread, OwnerAt
  <2>3. OwnerPlaced'
    BY <1>1, <2>0 DEF Inv, TypeOK, OwnerPlaced, lists, StartThread, OwnerAt
  <2>. QED BY <2>1, <2>2, <2>3 DEF Inv
<1>2. CASE StartSuspended(g)
  <2>0. t \in Threads /\ t \in Range(threads[g])
    BY <1>2, GroupsShareNoThread DEF Inv, OwnerPlaced, StartSuspended, OwnerAt, Range
  <2>1. TypeOK'
    <3>1. flag' \in [Threads -> BOOLEAN]
      BY <1>2, <2>0 DEF Inv, TypeOK, StartSuspended
    <3>. QED BY <1>2, <3>1 DEF Inv, TypeOK, lists, StartSuspended, OwnerAt
  <2>2. OneList'
    BY <1>2 DEF Inv, TypeOK, OneList, lists, StartSuspended, OwnerAt
  <2>3. FlagsFollowLists'
    <3>1. g \in initialized
      BY <1>2 DEF Inv, OwnerPlaced, StartSuspended, OwnerAt
    <3>2. ASSUME NEW h \in Groups, NEW u \in Range(threads[h]), h # g
          PROVE  flag'[u] = flag[u]
      <4>1. u # t /\ u \in Threads
        BY <2>0, <3>2, GroupsShareNoThread DEF Inv
      <4>. QED BY <1>2, <4>1 DEF Inv, TypeOK, StartSuspended
    <3>. QED BY <1>2, <3>1, <3>2 DEF Inv, FlagsFollowLists, OneList, lists, StartSuspended
  <2>4. OwnerPlaced'
    BY <1>2 DEF Inv, TypeOK, OwnerPlaced, lists, StartSuspended, OwnerAt
  <2>. QED BY <2>1, <2>2, <2>3, <2>4 DEF Inv
<1>3. CASE StartHandshake(g)
  <2>0. t \in Threads /\ t \in Range(threads[g])
    BY <1>3, GroupsShareNoThread DEF Inv, OwnerPlaced, StartHandshake, OwnerAt, Range
  <2>1. TypeOK'
    <3>1. needsJoin' \in [Threads -> BOOLEAN]
      BY <1>3, <2>0 DEF Inv, TypeOK, StartHandshake
    <3>2. at' \in [Groups -> Nat]
      BY <1>3 DEF Inv, TypeOK, StartHandshake
    <3>. QED BY <1>3, <3>1, <3>2 DEF Inv, TypeOK, lists, StartHandshake, OwnerAt
  <2>2. OneList' /\ FlagsFollowLists'
    BY <1>3 DEF Inv, TypeOK, OneList, FlagsFollowLists, lists, StartHandshake, OwnerAt
  <2>3. OwnerPlaced'
    BY <1>3 DEF Inv, TypeOK, OwnerPlaced, lists, StartHandshake, OwnerAt
  <2>. QED BY <2>1, <2>2, <2>3 DEF Inv
<1>. QED BY <1>1, <1>2, <1>3

\* A raw thread is in no group, so its flag is nobody's.
LEMMA RawRunStep ==
  ASSUME Inv, NEW t \in RawThreads, RawRun(t)
  PROVE  Inv'
<1>1. t \in Threads
  BY DEF Threads
<1>2. TypeOK'
  <2>1. flag' \in [Threads -> BOOLEAN] /\ needsJoin' \in [Threads -> BOOLEAN]
    BY <1>1 DEF Inv, TypeOK, RawRun
  <2>2. tpc' \in [Threads -> {"none", "created", "signalled", "waiting", "running",
                              "stopping", "finishing", "ended", "crashed"}]
    BY <1>1 DEF Inv, TypeOK, RawRun
  <2>. QED BY <2>1, <2>2 DEF Inv, TypeOK, lists, owner, RawRun
<1>3. UNCHANGED <<lists, mutex, threads, opc, at>>
  BY DEF RawRun, owner
<1>4. OneList' /\ OwnerPlaced'
  BY <1>3 DEF Inv, OneList, OwnerPlaced, lists
<1>5. FlagsFollowLists'
  <2>1. ASSUME NEW h \in Groups, NEW u \in Range(threads[h])
        PROVE  flag'[u] = flag[u]
    <3>1. u # t /\ u \in Threads
      BY <2>1, GroupsShareNoThread DEF Inv
    <3>. QED BY <3>1 DEF Inv, TypeOK, RawRun
  <2>. QED BY <1>3, <2>1 DEF Inv, FlagsFollowLists, lists
<1>. QED BY <1>2, <1>4, <1>5 DEF Inv

\* The steps that end with dispatch: S are the groups that want to run.
LEMMA DispatchStep ==
  ASSUME Inv, NEW S \in SUBSET Groups, NEW f \in [Threads -> BOOLEAN], Dispatch(S, f),
         UNCHANGED threads, TypeOK', OwnerPlaced',
         initialized' \cap S = {}, suspended' \cap S = {}, initialized' \cap suspended' = {},
         initialized' \cup S \cup suspended' = {g \in Groups : opc'[g] # "none"},
         \A g \in suspended' : \A t \in Range(threads[g]) : f[t]
  PROVE  Inv'
<1>1. /\ running' \subseteq S /\ ready' = S \ running'
      /\ \A h \in S : \A t \in Range(threads[h]) : flag'[t] = (h \notin running')
      /\ \A h \in Groups \ S : \A t \in Range(threads[h]) : flag'[t] = f[t]
  BY DispatchFlags DEF Inv
<1>2. OneList'
  BY <1>1 DEF OneList
<1>3. FlagsFollowLists'
  <2>. SUFFICES ASSUME NEW g \in Groups, NEW t \in Range(threads[g])
                PROVE  /\ g \in running' => ~flag'[t]
                       /\ g \in ready' \cup suspended' => flag'[t]
    BY DEF FlagsFollowLists
  <2>1. g \in running' => ~flag'[t]
    BY <1>1
  <2>2. g \in ready' => flag'[t]
    BY <1>1
  <2>3. g \in suspended' => flag'[t]
    BY <1>1
  <2>. QED BY <2>1, <2>2, <2>3
<1>. QED BY <1>2, <1>3 DEF Inv

LEMMA StartedStep ==
  ASSUME Inv, NEW g \in Groups, Started(g)
  PROVE  Inv'
<1>. DEFINE S == ready \cup running \cup {g}
<1>1. S \in SUBSET Groups /\ flag \in [Threads -> BOOLEAN]
  BY DEF Inv, TypeOK
<1>2. g \in initialized /\ Dispatch(S, flag) /\ UNCHANGED <<suspended, threads>>
      /\ initialized' = initialized \ {g} /\ mutex = g
  BY DEF Inv, OwnerPlaced, Started, OwnerAt
<1>3. running' \subseteq S /\ ready' = S \ running' /\ flag' \in [Threads -> BOOLEAN]
  BY <1>1, <1>2, DispatchFlags DEF Inv
<1>4. TypeOK'
  BY <1>1, <1>2, <1>3 DEF Inv, TypeOK, Started, OwnerAt
<1>5. OwnerPlaced'
  <2>. SUFFICES ASSUME NEW h \in Groups
                PROVE  /\ opc'[h] \in {"idle", "start", "run", "handshake"} => h \in initialized'
                       /\ opc'[h] \in {"start", "run", "handshake"} => mutex' = h
                       /\ opc'[h] \in {"run", "handshake"} => at'[h] \in DOMAIN threads'[h]
                       /\ at'[h] >= 1
                       /\ Range(threads'[h]) \subseteq Members[h]
    BY DEF OwnerPlaced
  <2>. QED BY <1>2 DEF Inv, TypeOK, OwnerPlaced, Started, OwnerAt
<1>6. /\ initialized' \cap S = {} /\ suspended' \cap S = {} /\ initialized' \cap suspended' = {}
      /\ initialized' \cup S \cup suspended' = {h \in Groups : opc'[h] # "none"}
  BY <1>2 DEF Inv, TypeOK, OneList, Started, OwnerAt
<1>7. \A h \in suspended' : \A t \in Range(threads[h]) : flag[t]
  BY <1>2 DEF Inv, TypeOK, FlagsFollowLists
<1>. QED
  <2>. HIDE DEF S
  <2>. QED BY <1>1, <1>2, <1>4, <1>5, <1>6, <1>7, DispatchStep

LEMMA SuspendStep ==
  ASSUME Inv, NEW g \in Groups, Suspend(g)
  PROVE  Inv'
<1>. DEFINE S == (ready \cup running) \ {g}
            f == [t \in Threads |-> flag[t] \/ (g \in running /\ t \in Range(threads[g]))]
<1>1. S \in SUBSET Groups /\ f \in [Threads -> BOOLEAN]
  BY DEF Inv, TypeOK
<1>2. /\ g \in ready \cup running /\ Dispatch(S, f)
      /\ suspended' = suspended \cup {g} /\ UNCHANGED <<initialized, mutex, threads, opc, at>>
  BY DEF Suspend, owner
<1>3. running' \subseteq S /\ ready' = S \ running' /\ flag' \in [Threads -> BOOLEAN]
  <2>. HIDE DEF S, f
  <2>. QED BY <1>1, <1>2, DispatchFlags DEF Inv
<1>4. TypeOK'
  BY <1>1, <1>2, <1>3 DEF Inv, TypeOK, Suspend, owner
<1>5. OwnerPlaced'
  BY <1>2 DEF Inv, OwnerPlaced
<1>6. /\ initialized' \cap S = {} /\ suspended' \cap S = {} /\ initialized' \cap suspended' = {}
      /\ initialized' \cup S \cup suspended' = {h \in Groups : opc'[h] # "none"}
  BY <1>2 DEF Inv, TypeOK, OneList
<1>7. \A h \in suspended' : \A t \in Range(threads[h]) : f[t]
  <2>. SUFFICES ASSUME NEW h \in suspended \cup {g}, NEW t \in Range(threads[h])
                PROVE  flag[t] \/ (g \in running /\ t \in Range(threads[g]))
    <3>1. \A h \in suspended \cup {g} : \A t \in Range(threads[h]) : t \in Threads
      BY GroupsShareNoThread DEF Inv, TypeOK
    <3>. QED BY <1>2, <3>1
  <2>1. h \in Groups
    BY DEF Inv, TypeOK
  <2>2. CASE h \in suspended
    BY <2>1, <2>2 DEF Inv, FlagsFollowLists
  <2>3. CASE h = g
    BY <1>2, <2>3 DEF Inv, FlagsFollowLists
  <2>. QED BY <2>2, <2>3
<1>. QED
  <2>. HIDE DEF S, f
  <2>. QED BY <1>1, <1>2, <1>4, <1>5, <1>6, <1>7, DispatchStep

LEMMA ResumeStep ==
  ASSUME Inv, NEW g \in Groups, Resume(g)
  PROVE  Inv'
<1>. DEFINE S == ready \cup running \cup {g}
<1>1. S \in SUBSET Groups /\ flag \in [Threads -> BOOLEAN]
  BY DEF Inv, TypeOK
<1>2. /\ g \in suspended /\ Dispatch(S, flag)
      /\ suspended' = suspended \ {g} /\ UNCHANGED <<initialized, mutex, threads, opc, at>>
  BY DEF Resume, owner
<1>3. running' \subseteq S /\ ready' = S \ running' /\ flag' \in [Threads -> BOOLEAN]
  <2>. HIDE DEF S
  <2>. QED BY <1>1, <1>2, DispatchFlags DEF Inv
<1>4. TypeOK'
  BY <1>1, <1>2, <1>3 DEF Inv, TypeOK, Resume, owner
<1>5. OwnerPlaced'
  BY <1>2 DEF Inv, OwnerPlaced
<1>6. /\ initialized' \cap S = {} /\ suspended' \cap S = {} /\ initialized' \cap suspended' = {}
      /\ initialized' \cup S \cup suspended' = {h \in Groups : opc'[h] # "none"}
  BY <1>2 DEF Inv, TypeOK, OneList
<1>7. \A h \in suspended' : \A t \in Range(threads[h]) : flag[t]
  BY <1>2 DEF Inv, TypeOK, FlagsFollowLists
<1>. QED
  <2>. HIDE DEF S
  <2>. QED BY <1>1, <1>2, <1>4, <1>5, <1>6, <1>7, DispatchStep

LEMMA NotifyStoppedStep ==
  ASSUME Inv, NEW t \in Threads, NotifyStopped(t)
  PROVE  Inv'
<1>. DEFINE g == group[t]
            c == [causes EXCEPT ![t] = cause[t]]
            S == (ready \cup running) \ {g}
<1>1. /\ g \in Groups /\ S \in SUBSET Groups /\ flag \in [Threads -> BOOLEAN]
      /\ c \in [Threads -> Causes]
      /\ tpc' \in [Threads -> {"none", "created", "signalled", "waiting", "running",
                               "stopping", "finishing", "ended", "crashed"}]
  BY DEF Inv, TypeOK, NotifyStopped, ThreadAt
<1>2. causes' = c /\ UNCHANGED <<mutex, threads, group, needsJoin, cause, opc, at, seen, result>>
  BY DEF NotifyStopped, owner
<1>3. CASE anyRunning(g, c)
  <2>1. UNCHANGED <<lists, flag>>
    BY <1>3 DEF NotifyStopped
  <2>2. TypeOK'
    BY <1>1, <1>2, <2>1 DEF Inv, TypeOK, lists
  <2>. QED BY <1>2, <2>1, <2>2, QuietStep
<1>4. CASE ~anyRunning(g, c)
  <2>1. /\ g \in ready \cup running \cup suspended
        /\ initialized' = initialized \cup {g} /\ suspended' = suspended \ {g}
        /\ Dispatch(S, flag)
    BY <1>4 DEF NotifyStopped
  <2>2. running' \subseteq S /\ ready' = S \ running' /\ flag' \in [Threads -> BOOLEAN]
    <3>. HIDE DEF S
    <3>. QED BY <1>1, <2>1, DispatchFlags DEF Inv
  <2>3. TypeOK'
    BY <1>1, <1>2, <2>1, <2>2 DEF Inv, TypeOK
  <2>4. OwnerPlaced'
    BY <1>2, <2>1 DEF Inv, OwnerPlaced
  <2>5. /\ initialized' \cap S = {} /\ suspended' \cap S = {} /\ initialized' \cap suspended' = {}
        /\ initialized' \cup S \cup suspended' = {h \in Groups : opc'[h] # "none"}
    BY <1>1, <1>2, <2>1 DEF Inv, TypeOK, OneList
  <2>6. \A h \in suspended' : \A u \in Range(threads[h]) : flag[u]
    BY <2>1 DEF Inv, TypeOK, FlagsFollowLists
  <2>. HIDE DEF S
  <2>. QED BY <1>1, <1>2, <2>1, <2>3, <2>4, <2>5, <2>6, DispatchStep
<1>. QED BY <1>3, <1>4

LEMMA InvNext == Inv /\ [Next]_vars => Inv'
<1>. SUFFICES ASSUME Inv, [Next]_vars PROVE Inv'
  OBVIOUS
<1>1. ASSUME NEW g \in Groups, OwnerCall(g) PROVE Inv'
  BY <1>1, OwnerCalls, InitializeStep, JoinSteps DEF OwnerCall
<1>2. ASSUME NEW g \in Groups, OwnerStep(g) PROVE Inv'
  BY <1>2, StartSteps, StartedStep, JoinSteps, OwnerCalls DEF OwnerStep
<1>3. ASSUME NEW g \in Groups, Suspend(g) \/ Resume(g) PROVE Inv'
  BY <1>3, SuspendStep, ResumeStep
<1>4. ASSUME NEW t \in RawThreads, RawRun(t) \/ RawJoin(t) PROVE Inv'
  <2>1. t \in Threads
    BY DEF Threads
  <2>. QED BY <1>4, <2>1, RawRunStep, QuietActions
<1>5. ASSUME NEW t \in Threads, ThreadStep(t) PROVE Inv'
  BY <1>5, QuietActions, NotifyStoppedStep DEF ThreadStep
<1>6. CASE UNCHANGED vars
  BY <1>6, QuietStep DEF vars, lists, spu, owner, Inv, TypeOK
<1>. QED BY <1>1, <1>2, <1>3, <1>4, <1>5, <1>6 DEF Next

\* The invariant of the manager's lists holds in every behaviour, whatever the
\* groups, their sizes, their ranks and the number of SPUs.
THEOREM GroupInvariant == Spec => []Inv
BY InvInit, InvNext, PTL DEF Spec

\* Every variable holds what its declaration says: the lists of SPUGroupManager,
\* and the states and causes of the groups and of their threads.
THEOREM GroupTypes == Spec => []TypeOK
<1>1. Inv => TypeOK
  BY DEF Inv
<1>. QED BY <1>1, GroupInvariant, PTL

\* Every group that exists is in exactly one of the four lists and a destroyed
\* one in none: the moves of start, suspend, resume, dispatch and
\* notifyThreadStopped lose and duplicate no group.
THEOREM GroupsInOneList == Spec => []OneList
<1>1. Inv => OneList
  BY DEF Inv
<1>. QED BY <1>1, GroupInvariant, PTL

\* The threads of a group are told to run exactly while it is on the running
\* list: no suspend or resume call is missed, whichever way a group moves.
THEOREM FlagsFollow == Spec => []FlagsFollowLists
<1>1. Inv => FlagsFollowLists
  BY DEF Inv
<1>. QED BY <1>1, GroupInvariant, PTL

-----------------------------------------------------------------------------
(* The life of a group's threads.                                          *)

Active == {"created", "signalled", "waiting", "running", "stopping"}

ranThis(t) == tpc[t] # "none"

\* A thread is run, and may be joined, in the group it is in.
Belongs(g) ==
  /\ \A t \in Range(threads[g]) : group[t] = g
  /\ \A i, j \in DOMAIN threads[g] : threads[g][i] = threads[g][j] => i = j
  /\ \A t \in Members[g] : ranThis(t) \/ needsJoin[t] => t \in Range(threads[g])
  /\ opc[g] \notin {"none", "idle"} \/ result[g] # Null
       => Range(threads[g]) = Members[g] /\ Members[g] # {}
  /\ opc[g] = "none" => result[g] = Null

\* How far the loops of start and join have come: the threads that have been
\* run, and those that are to be joined.
Ran(g, i) ==
  \/ opc[g] = "start" /\ i < at[g]
  \/ opc[g] \in {"run", "handshake"} /\ i <= at[g]
  \/ opc[g] = "started"
  \/ opc[g] = "join" /\ i >= at[g]

ToJoin(g, i) ==
  \/ opc[g] \in {"start", "run", "handshake"} /\ i < at[g]
  \/ opc[g] = "started"
  \/ opc[g] = "join" /\ i >= at[g]

Loops(g) ==
  \A i \in DOMAIN threads[g] :
    /\ ranThis(threads[g][i]) <=> Ran(g, i)
    /\ needsJoin[threads[g][i]] <=> ToJoin(g, i)

\* What the group knows of its threads: one runs until it has told the manager, unless
\* it faults and never tells, and none tells before start gives the mutex back.
Told(g) ==
  /\ \A t \in Members[g] :
       /\ tpc[t] \in Active => causes[t] = "StillRunning"
       /\ causes[t] = "StillRunning" => tpc[t] \in Active \/ t \in MayFault
       /\ tpc[t] = "stopping" => cause[t] # "StillRunning"
       /\ tpc[t] \in {"finishing", "ended"} => causes[t] \in {cause[t], "StillRunning"}
       /\ tpc[t] # "crashed"
       /\ opc[g] \in {"start", "run", "handshake"} /\ tpc[t] \in {"finishing", "ended"}
            => causes[t] = "StillRunning"
       /\ opc[g] \in {"none", "idle"} => causes[t] # "StillRunning"
  /\ opc[g] \in {"started", "join"}
       => (g \in initialized <=> \A t \in Members[g] : causes[t] # "StillRunning")

\* What join has collected is what the threads told the manager, if all have told.
Collected(g) ==
  /\ opc[g] = "join" /\ (\A i \in DOMAIN threads[g] :
                           i < at[g] => causes[threads[g][i]] # "StillRunning")
       => \A c \in Causes :
            c \in seen[g] <=> \E i \in DOMAIN threads[g] : i < at[g] /\ causes[threads[g][i]] = c
  /\ opc[g] = "idle" /\ result[g] # Null
       => (result[g] = "GROUP_EXIT" <=> \E t \in Members[g] : causes[t] = "GroupExit")

Life(g) == Belongs(g) /\ Loops(g) /\ Told(g) /\ Collected(g)

\* A thread has a group only if it is one of its members.
HasGroup == \A t \in Threads : group[t] \in Groups => t \in Members[group[t]]

LifeInv == HasGroup /\ \A g \in Groups : Life(g)

\* The members of a group are threads of no other group, and a group's sequence of
\* threads lists members.
LEMMA MembersApart ==
  ASSUME Inv, NEW g \in Groups
  PROVE  /\ Members[g] \subseteq Threads
         /\ Members[g] \cap RawThreads = {}
         /\ \A h \in Groups : h # g => Members[g] \cap Members[h] = {}
         /\ Range(threads[g]) \subseteq Members[g]
         /\ \A i \in DOMAIN threads[g] : threads[g][i] \in Range(threads[g])
         /\ \A t \in Range(threads[g]) : \E i \in DOMAIN threads[g] : threads[g][i] = t
         /\ DOMAIN threads[g] = 1 .. Len(threads[g]) /\ Len(threads[g]) \in Nat
         /\ at[g] \in Nat /\ at[g] >= 1
<1>1. Members[g] \subseteq Threads /\ Members[g] \cap RawThreads = {}
  BY GroupsAssumption DEF Threads, GroupThreads
<1>2. \A h \in Groups : h # g => Members[g] \cap Members[h] = {}
  BY GroupsAssumption
<1>3. Range(threads[g]) \subseteq Members[g] /\ at[g] \in Nat /\ at[g] >= 1
  BY DEF Inv, TypeOK, OwnerPlaced
<1>4. /\ \A i \in DOMAIN threads[g] : threads[g][i] \in Range(threads[g])
      /\ \A t \in Range(threads[g]) : \E i \in DOMAIN threads[g] : threads[g][i] = t
  BY DEF Range
<1>5. threads[g] \in Seq(GroupThreads)
  BY DEF Inv, TypeOK
<1>6. DOMAIN threads[g] = 1 .. Len(threads[g]) /\ Len(threads[g]) \in Nat
  BY <1>5
<1>. QED BY <1>1, <1>2, <1>3, <1>4, <1>6

LEMMA LifeStart == Init => LifeInv
<1>. SUFFICES ASSUME Init PROVE LifeInv
  OBVIOUS
<1>1. HasGroup
  BY GroupsAssumption DEF Init, HasGroup
<1>2. ASSUME NEW g \in Groups PROVE Life(g)
  <2>1. Members[g] \subseteq Threads
    BY DEF Threads, GroupThreads
  <2>2. threads[g] = << >> /\ opc[g] = "none" /\ result[g] = Null
    BY DEF Init
  <2>3. DOMAIN threads[g] = {} /\ Range(threads[g]) = {}
    BY <2>2 DEF Range
  <2>4. \A t \in Members[g] : tpc[t] = "none" /\ ~needsJoin[t] /\ causes[t] = "Exit"
    BY <2>1 DEF Init
  <2>5. Belongs(g)
    BY <2>2, <2>3, <2>4 DEF Belongs, ranThis
  <2>6. Loops(g) /\ Collected(g)
    BY <2>2, <2>3 DEF Loops, Collected
  <2>7. Told(g)
    BY <2>2, <2>4 DEF Told, Active
  <2>. QED BY <2>5, <2>6, <2>7 DEF Life
<1>. QED BY <1>1, <1>2 DEF LifeInv

\* The owner stays where it is, and threads move without being run or joined.
LEMMA LoopsKept ==
  ASSUME Inv, NEW g \in Groups, Belongs(g), Loops(g),
         threads'[g] = threads[g], opc'[g] = opc[g], at'[g] = at[g], result'[g] = result[g],
         \A t \in Members[g] : /\ tpc'[t] = "none" <=> tpc[t] = "none"
                               /\ needsJoin'[t] = needsJoin[t] /\ group'[t] = group[t]
  PROVE  Belongs(g)' /\ Loops(g)'
<1>1. \A i \in DOMAIN threads[g] : threads[g][i] \in Members[g]
  BY MembersApart
<1>2. Range(threads'[g]) = Range(threads[g]) /\ Range(threads[g]) \subseteq Members[g]
  BY MembersApart
<1>3. Belongs(g)'
  <2>1. \A t \in Range(threads'[g]) : group'[t] = g
    BY <1>2 DEF Belongs
  <2>2. \A i, j \in DOMAIN threads'[g] : threads'[g][i] = threads'[g][j] => i = j
    BY DEF Belongs
  <2>3. \A t \in Members[g] : ranThis(t)' \/ needsJoin'[t] => t \in Range(threads'[g])
    BY <1>2 DEF Belongs, ranThis
  <2>4. /\ opc'[g] \notin {"none", "idle"} \/ result'[g] # Null
             => Range(threads'[g]) = Members[g] /\ Members[g] # {}
        /\ opc'[g] = "none" => result'[g] = Null
    BY <1>2 DEF Belongs
  <2>. QED BY <2>1, <2>2, <2>3, <2>4 DEF Belongs
<1>4. Loops(g)'
  <2>. SUFFICES ASSUME NEW i \in DOMAIN threads[g]
                PROVE  /\ (ranThis(threads[g][i]) <=> Ran(g, i))'
                       /\ (needsJoin[threads[g][i]] <=> ToJoin(g, i))'
    BY DEF Loops
  <2>1. /\ tpc'[threads[g][i]] = "none" <=> tpc[threads[g][i]] = "none"
        /\ needsJoin'[threads[g][i]] = needsJoin[threads[g][i]]
    BY <1>1
  <2>2. (tpc[threads[g][i]] # "none" <=> Ran(g, i)) /\ (needsJoin[threads[g][i]] <=> ToJoin(g, i))
    BY DEF Loops, ranThis
  <2>3. (Ran(g, i)' <=> Ran(g, i)) /\ (ToJoin(g, i)' <=> ToJoin(g, i))
    BY DEF Ran, ToJoin
  <2>. QED BY <2>1, <2>2, <2>3 DEF ranThis
<1>. QED BY <1>3, <1>4

\* What join has collected stands while the causes do.
LEMMA CollectedKept ==
  ASSUME Inv, NEW g \in Groups, Collected(g),
         threads'[g] = threads[g], opc'[g] = opc[g], at'[g] = at[g], result'[g] = result[g],
         seen'[g] = seen[g], \A t \in Members[g] : causes'[t] = causes[t]
  PROVE  Collected(g)'
<1>1. \A i \in DOMAIN threads[g] : threads[g][i] \in Members[g]
  BY MembersApart
<1>2. ASSUME opc'[g] = "join", NEW c \in Causes,
             \A i \in DOMAIN threads'[g] : i < at'[g] => causes'[threads'[g][i]] # "StillRunning"
      PROVE  c \in seen'[g] <=> \E i \in DOMAIN threads'[g] : i < at'[g] /\ causes'[threads'[g][i]] = c
  <2>1. \A i \in DOMAIN threads[g] : causes'[threads[g][i]] = causes[threads[g][i]]
    BY <1>1
  <2>. QED BY <1>2, <2>1 DEF Collected
<1>3. opc'[g] = "idle" /\ result'[g] # Null
        => (result'[g] = "GROUP_EXIT" <=> \E t \in Members[g] : causes'[t] = "GroupExit")
  BY DEF Collected
<1>. QED BY <1>2, <1>3 DEF Collected

\* A group none of whose threads moves, and whose owner stays where it is.
LEMMA LifeKept ==
  ASSUME Inv, NEW g \in Groups, Life(g),
         threads'[g] = threads[g], opc'[g] = opc[g], at'[g] = at[g], result'[g] = result[g],
         seen'[g] = seen[g], g \in initialized' <=> g \in initialized,
         \A t \in Members[g] : /\ tpc'[t] = tpc[t] /\ needsJoin'[t] = needsJoin[t]
                               /\ cause'[t] = cause[t] /\ causes'[t] = causes[t]
                               /\ group'[t] = group[t]
  PROVE  Life(g)'
<1>1. Belongs(g)' /\ Loops(g)'
  BY LoopsKept DEF Life
<1>2. Collected(g)'
  BY CollectedKept DEF Life
<1>3. Told(g)'
  BY DEF Life, Told
<1>. QED BY <1>1, <1>2, <1>3 DEF Life

\* A group that its owner has not started, or has joined, has no thread that runs.
LEMMA AtRest ==
  ASSUME Inv, NEW g \in Groups, Life(g), opc[g] \in {"none", "idle"}
  PROVE  /\ \A t \in Members[g] : tpc[t] = "none" /\ ~needsJoin[t] /\ causes[t] # "StillRunning"
         /\ \A i \in DOMAIN threads[g] : ~ranThis(threads[g][i]) /\ ~needsJoin[threads[g][i]]
<1>1. \A i \in DOMAIN threads[g] : ~ranThis(threads[g][i]) /\ ~needsJoin[threads[g][i]]
  BY DEF Life, Loops, Ran, ToJoin
<1>2. \A t \in Range(threads[g]) : ~ranThis(t) /\ ~needsJoin[t]
  BY <1>1, MembersApart
<1>3. \A t \in Members[g] : ~ranThis(t) /\ ~needsJoin[t]
  BY <1>2 DEF Life, Belongs
<1>4. \A t \in Members[g] : causes[t] # "StillRunning"
  BY DEF Life, Told
<1>. QED BY <1>1, <1>3, <1>4 DEF ranThis

\* The owner's calls, which start a thread or join one only in later steps.
LEMMA CreateLife ==
  ASSUME Inv, NEW g \in Groups, Life(g), Create(g)
  PROVE  Life(g)'
<1>1. /\ opc[g] = "none" /\ opc'[g] = "idle" /\ threads'[g] = << >> /\ result'[g] = result[g]
      /\ UNCHANGED <<spu, causes>>
  BY DEF Inv, TypeOK, Create, OwnerAt
<1>2. \A t \in Members[g] : tpc[t] = "none" /\ ~needsJoin[t] /\ causes[t] # "StillRunning"
  BY <1>1, AtRest
<1>3. DOMAIN threads'[g] = {} /\ Range(threads'[g]) = {} /\ result[g] = Null
  BY <1>1 DEF Range, Life, Belongs
<1>4. Belongs(g)'
  BY <1>1, <1>2, <1>3 DEF Belongs, spu, ranThis
<1>5. Loops(g)' /\ Collected(g)'
  BY <1>1, <1>3 DEF Loops, Collected
<1>6. Told(g)'
  BY <1>1, <1>2 DEF Told, Active, spu
<1>. QED BY <1>4, <1>5, <1>6 DEF Life

LEMMA InitializeLife ==
  ASSUME Inv, NEW g \in Groups, NEW t \in Members[g], Life(g), Initialize(g, t)
  PROVE  Life(g)'
<1>1. /\ opc[g] = "idle" /\ t \notin Range(threads[g])
      /\ UNCHANGED <<lists, causes, flag, needsJoin, cause, tpc, opc, at, seen, result>>
      /\ threads'[g] = Append(threads[g], t) /\ threads[g] \in Seq(GroupThreads)
  BY DEF Inv, TypeOK, Initialize, owner
<1>2. t \in GroupThreads /\ t \in Threads
  BY DEF GroupThreads, Threads
<1>3. /\ DOMAIN threads'[g] = DOMAIN threads[g] \cup {Len(threads[g]) + 1}
      /\ threads'[g][Len(threads[g]) + 1] = t
      /\ \A i \in DOMAIN threads[g] : threads'[g][i] = threads[g][i]
  BY <1>1, <1>2
<1>4. Range(threads'[g]) = Range(threads[g]) \cup {t}
  BY <1>3 DEF Range
<1>5. \A u \in Members[g] : tpc[u] = "none" /\ ~needsJoin[u] /\ causes[u] # "StillRunning"
  BY <1>1, AtRest
<1>6. result[g] = Null
  BY <1>1 DEF Life, Belongs
<1>7. Belongs(g)'
  <2>1. group'[t] = g /\ \A u \in Threads \ {t} : group'[u] = group[u]
    BY <1>2 DEF Inv, TypeOK, Initialize
  <2>2. \A u \in Range(threads'[g]) : group'[u] = g
    BY <1>4, <2>1, MembersApart DEF Life, Belongs
  <2>3. \A i, j \in DOMAIN threads'[g] : threads'[g][i] = threads'[g][j] => i = j
    <3>1. \A i \in DOMAIN threads[g] : threads'[g][i] # t
      BY <1>1, <1>3, MembersApart
    <3>2. \A i, j \in DOMAIN threads[g] : threads'[g][i] = threads'[g][j] => i = j
      BY <1>3 DEF Life, Belongs
    <3>. QED BY <1>3, <3>1, <3>2
  <2>. QED BY <1>1, <1>5, <1>6, <2>2, <2>3 DEF Belongs, ranThis
<1>8. Loops(g)'
  <2>1. \A i \in DOMAIN threads'[g] : threads'[g][i] \in Members[g]
    BY <1>3, MembersApart
  <2>. QED BY <1>1, <1>5, <2>1 DEF Loops, Ran, ToJoin, ranThis
<1>9. Told(g)' /\ Collected(g)'
  BY <1>1, <1>6 DEF Life, Told, Collected, lists
<1>. QED BY <1>7, <1>8, <1>9 DEF Life

LEMMA StartLife ==
  ASSUME Inv, NEW g \in Groups, Life(g), Start(g)
  PROVE  Life(g)'
<1>1. /\ opc[g] = "idle" /\ opc'[g] = "start" /\ at'[g] = 1
      /\ Range(threads[g]) = Members[g] /\ Members[g] # {}
      /\ UNCHANGED <<lists, threads, causes, spu, seen, result>>
  BY DEF Inv, TypeOK, Start, OwnerAt
<1>2. /\ \A t \in Members[g] : tpc[t] = "none" /\ ~needsJoin[t] /\ causes[t] # "StillRunning"
      /\ \A i \in DOMAIN threads[g] : ~ranThis(threads[g][i]) /\ ~needsJoin[threads[g][i]]
  BY <1>1, AtRest
<1>3. Belongs(g)'
  BY <1>1, <1>2 DEF Life, Belongs, spu, ranThis
<1>4. Loops(g)'
  <2>1. \A i \in DOMAIN threads[g] : ~(i < 1)
    BY MembersApart
  <2>. QED BY <1>1, <1>2, <2>1 DEF Loops, Ran, ToJoin, spu, ranThis
<1>5. Told(g)' /\ Collected(g)'
  BY <1>1, <1>2 DEF Told, Collected, Active, spu
<1>. QED BY <1>3, <1>4, <1>5 DEF Life

LEMMA JoinLife ==
  ASSUME Inv, NEW g \in Groups, Life(g), Join(g)
  PROVE  Life(g)'
<1>1. /\ opc[g] = "started" /\ opc'[g] = "join" /\ at'[g] = 1 /\ seen'[g] = {}
      /\ UNCHANGED <<lists, threads, causes, spu, result>>
  BY DEF Inv, TypeOK, Join, OwnerAt
<1>2. Belongs(g)'
  BY <1>1 DEF Life, Belongs, spu, ranThis
<1>3. \A i \in DOMAIN threads[g] : i >= 1 /\ ~(i < 1)
  BY MembersApart
<1>4. Loops(g)'
  BY <1>1, <1>3 DEF Life, Loops, Ran, ToJoin, spu, ranThis
<1>5. Told(g)' /\ Collected(g)'
  BY <1>1, <1>3 DEF Life, Told, Collected, spu, lists
<1>. QED BY <1>2, <1>4, <1>5 DEF Life

LEMMA DestroyLife ==
  ASSUME Inv, NEW g \in Groups, Life(g), Destroy(g)
  PROVE  Life(g)'
<1>1. /\ opc[g] = "idle" /\ opc'[g] = "none" /\ result'[g] = Null
      /\ UNCHANGED <<threads, causes, spu, at, seen>>
  BY DEF Inv, TypeOK, Destroy, OwnerAt
<1>2. Belongs(g)'
  BY <1>1 DEF Life, Belongs, spu, ranThis
<1>3. Loops(g)'
  BY <1>1 DEF Life, Loops, Ran, ToJoin, spu, ranThis
<1>4. Told(g)' /\ Collected(g)'
  BY <1>1 DEF Life, Told, Collected, spu
<1>. QED BY <1>2, <1>3, <1>4 DEF Life

\* The thread a loop of start or join is at, and that it is at it once.
LEMMA LoopMember ==
  ASSUME Inv, NEW g \in Groups, Life(g), at[g] \in DOMAIN threads[g]
  PROVE  /\ threads[g][at[g]] \in Members[g]
         /\ threads[g][at[g]] \in Range(threads[g])
         /\ \A i \in DOMAIN threads[g] :
              /\ threads[g][i] \in Members[g]
              /\ threads[g][i] = threads[g][at[g]] => i = at[g]
              /\ i \in Int
BY MembersApart DEF Life, Belongs

LEMMA StartThreadLife ==
  ASSUME Inv, NEW g \in Groups, Life(g), StartThread(g)
  PROVE  Life(g)'
<1>. DEFINE t == threads[g][at[g]]
<1>1. /\ opc[g] = "start" /\ opc'[g] = "run"
      /\ UNCHANGED <<lists, threads, group, needsJoin, cause, at, seen, result>>
      /\ at[g] <= Len(threads[g])
  BY DEF Inv, TypeOK, StartThread, OwnerAt
<1>2. at[g] \in DOMAIN threads[g] /\ t \in Threads
  BY <1>1, LoopThread
<1>3. /\ tpc'[t] = "created" /\ causes'[t] = "StillRunning"
      /\ \A u \in Threads \ {t} : tpc'[u] = tpc[u] /\ causes'[u] = causes[u]
  BY <1>2 DEF Inv, TypeOK, StartThread
<1>4. Members[g] \subseteq Threads /\ t \in Members[g] /\ t \in Range(threads[g])
  BY <1>2, LoopMember, MembersApart
<1>5. Belongs(g)'
  BY <1>1, <1>3, <1>4 DEF Life, Belongs, ranThis
<1>6. Loops(g)'
  <2>. SUFFICES ASSUME NEW i \in DOMAIN threads[g]
                PROVE  /\ tpc'[threads[g][i]] # "none" <=> i <= at[g]
                       /\ needsJoin[threads[g][i]] <=> i < at[g]
    BY <1>1 DEF Loops, Ran, ToJoin, ranThis
  <2>1. /\ tpc[threads[g][i]] # "none" <=> i < at[g]
        /\ needsJoin[threads[g][i]] <=> i < at[g]
    BY <1>1 DEF Life, Loops, Ran, ToJoin, ranThis
  <2>2. i \in Int /\ at[g] \in Int /\ threads[g][i] \in Threads /\ (threads[g][i] = t => i = at[g])
    BY <1>2, <1>4, LoopMember, MembersApart
  <2>3. CASE i = at[g]
    BY <1>3, <2>1, <2>2, <2>3
  <2>4. CASE i # at[g]
    <3>1. tpc'[threads[g][i]] = tpc[threads[g][i]]
      BY <1>3, <2>2, <2>4
    <3>. QED BY <2>1, <2>2, <2>4, <3>1
  <2>. QED BY <2>3, <2>4
<1>7. Told(g)'
  <2>. SUFFICES ASSUME NEW u \in Members[g]
                PROVE  /\ tpc'[u] \in Active => causes'[u] = "StillRunning"
                       /\ causes'[u] = "StillRunning" => tpc'[u] \in Active \/ u \in MayFault
                       /\ tpc'[u] = "stopping" => cause'[u] # "StillRunning"
                       /\ tpc'[u] \in {"finishing", "ended"} => causes'[u] = "StillRunning"
                       /\ tpc'[u] # "crashed"
    BY <1>1 DEF Told
  <2>1. CASE u = t
    BY <1>3, <2>1 DEF Active
  <2>2. CASE u # t
    BY <1>1, <1>3, <1>4, <2>2 DEF Life, Told
  <2>. QED BY <2>1, <2>2
<1>8. Collected(g)'
  BY <1>1 DEF Collected
<1>. QED BY <1>5, <1>6, <1>7, <1>8 DEF Life

LEMMA StartSuspendedLife ==
  ASSUME Inv, NEW g \in Groups, Life(g), StartSuspended(g)
  PROVE  Life(g)'
<1>1. /\ opc[g] = "run" /\ opc'[g] = "handshake"
      /\ UNCHANGED <<lists, threads, causes, group, needsJoin, cause, tpc, at, seen, result>>
  BY DEF Inv, TypeOK, StartSuspended, OwnerAt
<1>2. Belongs(g)'
  BY <1>1 DEF Life, Belongs, ranThis
<1>3. Loops(g)'
  BY <1>1 DEF Life, Loops, Ran, ToJoin, ranThis
<1>4. Told(g)' /\ Collected(g)'
  BY <1>1 DEF Life, Told, Collected
<1>. QED BY <1>2, <1>3, <1>4 DEF Life

LEMMA StartHandshakeLife ==
  ASSUME Inv, NEW g \in Groups, Life(g), StartHandshake(g)
  PROVE  Life(g)'
<1>. DEFINE t == threads[g][at[g]]
<1>1. /\ opc[g] = "handshake" /\ opc'[g] = "start" /\ at'[g] = at[g] + 1
      /\ UNCHANGED <<lists, threads, causes, group, cause, tpc, seen, result>>
  BY DEF Inv, TypeOK, StartHandshake, OwnerAt
<1>2. at[g] \in DOMAIN threads[g]
  BY <1>1 DEF Inv, OwnerPlaced
<1>3. Members[g] \subseteq Threads /\ t \in Members[g] /\ t \in Range(threads[g]) /\ t \in Threads
  BY <1>2, LoopMember, MembersApart
<1>4. needsJoin'[t] /\ \A u \in Threads \ {t} : needsJoin'[u] = needsJoin[u]
  BY <1>3 DEF Inv, TypeOK, StartHandshake
<1>5. Belongs(g)'
  BY <1>1, <1>3, <1>4 DEF Life, Belongs, ranThis
<1>6. Loops(g)'
  <2>. SUFFICES ASSUME NEW i \in DOMAIN threads[g]
                PROVE  /\ tpc[threads[g][i]] # "none" <=> i < at[g] + 1
                       /\ needsJoin'[threads[g][i]] <=> i < at[g] + 1
    BY <1>1 DEF Loops, Ran, ToJoin, ranThis
  <2>1. /\ tpc[threads[g][i]] # "none" <=> i <= at[g]
        /\ needsJoin[threads[g][i]] <=> i < at[g]
    BY <1>1 DEF Life, Loops, Ran, ToJoin, ranThis
  <2>2. i \in Int /\ at[g] \in Int /\ threads[g][i] \in Threads /\ (threads[g][i] = t => i = at[g])
    BY <1>2, <1>3, LoopMember, MembersApart
  <2>3. CASE i = at[g]
    BY <1>4, <2>1, <2>2, <2>3
  <2>4. CASE i # at[g]
    <3>1. needsJoin'[threads[g][i]] = needsJoin[threads[g][i]]
      BY <1>4, <2>2, <2>4
    <3>. QED BY <2>1, <2>2, <2>4, <3>1
  <2>. QED BY <2>3, <2>4
<1>7. Told(g)' /\ Collected(g)'
  BY <1>1 DEF Life, Told, Collected
<1>. QED BY <1>5, <1>6, <1>7 DEF Life

\* The group leaves the initialized list with every one of its threads running.
LEMMA StartedLife ==
  ASSUME Inv, NEW g \in Groups, Life(g), Started(g)
  PROVE  Life(g)'
<1>1. /\ opc[g] = "start" /\ opc'[g] = "started" /\ at[g] > Len(threads[g])
      /\ initialized' = initialized \ {g}
      /\ UNCHANGED <<threads, causes, group, needsJoin, cause, tpc, at, seen, result>>
  BY DEF Inv, TypeOK, Started, OwnerAt
<1>2. Belongs(g)'
  BY <1>1 DEF Life, Belongs, ranThis
<1>3. \A i \in DOMAIN threads[g] : i < at[g]
  BY <1>1, MembersApart
<1>4. /\ Loops(g)'
      /\ \A i \in DOMAIN threads[g] : tpc[threads[g][i]] # "none"
  BY <1>1, <1>3 DEF Life, Loops, Ran, ToJoin, ranThis
<1>5. \E u \in Members[g] : causes[u] = "StillRunning"
  <2>1. Members[g] # {} /\ Range(threads[g]) = Members[g]
    BY <1>1 DEF Life, Belongs
  <2>2. PICK u \in Members[g] : tpc[u] # "none"
    <3>1. PICK u \in Members[g] : TRUE
      BY <2>1
    <3>2. u \in Range(threads[g])
      BY <2>1
    <3>3. \E i \in DOMAIN threads[g] : threads[g][i] = u
      BY <3>2, MembersApart
    <3>. QED BY <1>4, <3>3
  <2>3. /\ u \in Threads /\ tpc[u] # "crashed"
        /\ tpc[u] \in Active \cup {"finishing", "ended"} => causes[u] = "StillRunning"
    BY <1>1, MembersApart DEF Life, Told
  <2>4. tpc[u] \in Active \cup {"finishing", "ended"}
    <3>1. tpc[u] \in {"none", "created", "signalled", "waiting", "running",
                     "stopping", "finishing", "ended", "crashed"}
      BY <2>3 DEF Inv, TypeOK
    <3>. QED BY <2>2, <2>3, <3>1 DEF Active
  <2>. QED BY <2>3, <2>4
<1>6. Told(g)' /\ Collected(g)'
  BY <1>1, <1>5 DEF Life, Told, Collected
<1>. QED BY <1>2, <1>4, <1>6 DEF Life

\* A thread is joined when it has told the manager its cause, or never will, so the cause
\* that join adds up is the one the manager knows, if it knows one.
LEMMA JoinThreadLife ==
  ASSUME Inv, NEW g \in Groups, Life(g), JoinThread(g)
  PROVE  Life(g)'
<1>. DEFINE t == threads[g][at[g]]
<1>1. /\ opc[g] = "join" /\ opc'[g] = opc[g] /\ at'[g] = at[g] + 1
      /\ seen'[g] = seen[g] \cup {cause[t]} /\ tpc[t] = "ended"
      /\ UNCHANGED <<lists, threads, causes, group, cause, opc, result>>
      /\ at[g] <= Len(threads[g])
  BY DEF Inv, TypeOK, JoinThread
<1>2. at[g] \in DOMAIN threads[g]
  BY <1>1, LoopThread
<1>3. Members[g] \subseteq Threads /\ t \in Members[g] /\ t \in Range(threads[g]) /\ t \in Threads
  BY <1>2, LoopMember, MembersApart
<1>4. /\ ~needsJoin'[t] /\ tpc'[t] = "none"
      /\ \A u \in Threads \ {t} : needsJoin'[u] = needsJoin[u] /\ tpc'[u] = tpc[u]
  BY <1>3 DEF Inv, TypeOK, JoinThread
<1>5. causes[t] = "StillRunning" => t \in MayFault
  BY <1>1, <1>3 DEF Life, Told, Active
<1>6. Belongs(g)'
  BY <1>1, <1>3, <1>4 DEF Life, Belongs, ranThis
<1>7. Loops(g)'
  <2>. SUFFICES ASSUME NEW i \in DOMAIN threads[g]
                PROVE  /\ tpc'[threads[g][i]] # "none" <=> i >= at[g] + 1
                       /\ needsJoin'[threads[g][i]] <=> i >= at[g] + 1
    BY <1>1 DEF Loops, Ran, ToJoin, ranThis
  <2>1. /\ tpc[threads[g][i]] # "none" <=> i >= at[g]
        /\ needsJoin[threads[g][i]] <=> i >= at[g]
    BY <1>1 DEF Life, Loops, Ran, ToJoin, ranThis
  <2>2. i \in Int /\ at[g] \in Int /\ threads[g][i] \in Threads /\ (threads[g][i] = t => i = at[g])
    BY <1>2, <1>3, LoopMember, MembersApart
  <2>3. CASE i = at[g]
    BY <1>4, <2>2, <2>3
  <2>4. CASE i # at[g]
    <3>1. /\ needsJoin'[threads[g][i]] = needsJoin[threads[g][i]]
          /\ tpc'[threads[g][i]] = tpc[threads[g][i]]
      BY <1>4, <2>2, <2>4
    <3>. QED BY <2>1, <2>2, <2>4, <3>1
  <2>. QED BY <2>3, <2>4
<1>8. Told(g)'
  <2>1. \A u \in Members[g] :
          /\ tpc'[u] \in Active => causes'[u] = "StillRunning"
          /\ causes'[u] = "StillRunning" => tpc'[u] \in Active \/ u \in MayFault
          /\ tpc'[u] = "stopping" => cause'[u] # "StillRunning"
          /\ tpc'[u] \in {"finishing", "ended"} => causes'[u] \in {cause'[u], "StillRunning"}
          /\ tpc'[u] # "crashed"
    <3>. SUFFICES ASSUME NEW u \in Members[g]
                  PROVE  /\ tpc'[u] \in Active => causes[u] = "StillRunning"
                         /\ causes[u] = "StillRunning" => tpc'[u] \in Active \/ u \in MayFault
                         /\ tpc'[u] = "stopping" => cause[u] # "StillRunning"
                         /\ tpc'[u] \in {"finishing", "ended"} => causes[u] \in {cause[u], "StillRunning"}
                         /\ tpc'[u] # "crashed"
      BY <1>1
    <3>1. CASE u = t
      BY <1>4, <1>5, <3>1 DEF Active
    <3>2. CASE u # t
      BY <1>3, <1>4, <3>2 DEF Life, Told
    <3>. QED BY <3>1, <3>2
  <2>. QED BY <1>1, <2>1 DEF Life, Told, lists
<1>9. Collected(g)'
  <2>. SUFFICES ASSUME NEW c \in Causes,
                       \A i \in DOMAIN threads[g] :
                         i < at[g] + 1 => causes[threads[g][i]] # "StillRunning"
                PROVE  c \in seen'[g] <=>
                         \E i \in DOMAIN threads[g] : i < at[g] + 1 /\ causes[threads[g][i]] = c
    BY <1>1 DEF Collected
  <2>1. \A i \in DOMAIN threads[g] : i < at[g] + 1 <=> i < at[g] \/ i = at[g]
    BY <1>2, LoopMember
  <2>2. \A i \in DOMAIN threads[g] : i < at[g] => causes[threads[g][i]] # "StillRunning"
    BY <2>1
  <2>3. c \in seen[g] <=> \E i \in DOMAIN threads[g] : i < at[g] /\ causes[threads[g][i]] = c
    BY <1>1, <2>2 DEF Life, Collected
  <2>4. causes[t] = cause[t]
    <3>1. causes[t] # "StillRunning"
      BY <1>2, <2>1
    <3>. QED BY <1>1, <1>3, <3>1 DEF Life, Told
  <2>. QED BY <1>1, <1>2, <2>1, <2>3, <2>4
<1>. QED BY <1>6, <1>7, <1>8, <1>9 DEF Life

LEMMA JoinReturnLife ==
  ASSUME Inv, NEW g \in Groups, Life(g), JoinReturn(g)
  PROVE  Life(g)'
<1>1. /\ opc[g] = "join" /\ opc'[g] = "idle" /\ at[g] > Len(threads[g])
      /\ result'[g] \in {"GROUP_EXIT", "ALL_THREADS_EXIT", "0"}
      /\ result'[g] = "GROUP_EXIT" <=> "GroupExit" \in seen[g]
      /\ UNCHANGED <<lists, threads, causes, spu, at, seen>>
      /\ g \in initialized
  BY DEF Inv, TypeOK, JoinReturn, OwnerAt
<1>2. Belongs(g)'
  BY <1>1 DEF Life, Belongs, spu, ranThis
<1>3. \A i \in DOMAIN threads[g] : i < at[g] /\ ~(i >= at[g])
  BY <1>1, MembersApart
<1>4. Loops(g)'
  BY <1>1, <1>3 DEF Life, Loops, Ran, ToJoin, spu, ranThis
<1>0. \A t \in Members[g] : causes[t] # "StillRunning"
  BY <1>1 DEF Life, Told
<1>5. Told(g)'
  BY <1>0, <1>1 DEF Life, Told, spu
<1>6. "GroupExit" \in seen[g] <=> \E t \in Members[g] : causes[t] = "GroupExit"
  <2>0. \A i \in DOMAIN threads[g] : causes[threads[g][i]] # "StillRunning"
    BY <1>0, MembersApart
  <2>1. "GroupExit" \in seen[g] <=>
          \E i \in DOMAIN threads[g] : i < at[g] /\ causes[threads[g][i]] = "GroupExit"
    BY <1>1, <2>0 DEF Life, Collected, Causes
  <2>2. Range(threads[g]) = Members[g]
    BY <1>1 DEF Life, Belongs
  <2>3. (\E t \in Members[g] : causes[t] = "GroupExit")
          <=> \E i \in DOMAIN threads[g] : causes[threads[g][i]] = "GroupExit"
    <3>1. ASSUME NEW t \in Members[g] PROVE \E i \in DOMAIN threads[g] : threads[g][i] = t
      BY <2>2, MembersApart
    <3>2. \A i \in DOMAIN threads[g] : threads[g][i] \in Members[g]
      BY MembersApart
    <3>. QED BY <3>1, <3>2
  <2>. QED BY <1>3, <2>1, <2>3
<1>7. Collected(g)'
  BY <1>1, <1>6 DEF Collected
<1>. QED BY <1>2, <1>4, <1>5, <1>7 DEF Life

\* The steps of the owner of one group leave the other groups alone.
LEMMA OwnerFrame ==
  ASSUME Inv, NEW g \in Groups, OwnerCall(g) \/ OwnerStep(g), NEW h \in Groups \ {g}
  PROVE  /\ threads'[h] = threads[h] /\ opc'[h] = opc[h] /\ at'[h] = at[h]
         /\ seen'[h] = seen[h] /\ result'[h] = result[h]
         /\ h \in initialized' <=> h \in initialized
         /\ \A t \in Members[h] : /\ tpc'[t] = tpc[t] /\ needsJoin'[t] = needsJoin[t]
                                  /\ cause'[t] = cause[t] /\ causes'[t] = causes[t]
                                  /\ group'[t] = group[t]
<1>0. Members[h] \subseteq Threads /\ Members[h] \cap Members[g] = {}
  BY MembersApart
<1>1. CASE Create(g) \/ Start(g) \/ Join(g) \/ Destroy(g) \/ JoinReturn(g)
  BY <1>0, <1>1 DEF Inv, TypeOK, Create, Start, Join, Destroy, JoinReturn, OwnerAt, lists, spu
<1>2. ASSUME NEW t \in Members[g], Initialize(g, t)
      PROVE  /\ threads'[h] = threads[h] /\ UNCHANGED <<lists, causes, needsJoin, cause, tpc, owner>>
             /\ \A u \in Members[h] : group'[u] = group[u]
  BY <1>0, <1>2 DEF Inv, TypeOK, Initialize
<1>3. CASE Started(g) \/ StartSuspended(g)
  BY <1>0, <1>3 DEF Inv, TypeOK, Started, StartSuspended, OwnerAt, lists
<1>4. CASE StartThread(g) \/ StartHandshake(g) \/ JoinThread(g)
  <2>1. at[g] \in DOMAIN threads[g]
    BY <1>4, LoopThread DEF Inv, OwnerPlaced, StartThread, StartHandshake, JoinThread, OwnerAt
  <2>2. threads[g][at[g]] \in Members[g]
    BY <2>1, MembersApart
  <2>3. /\ threads'[h] = threads[h] /\ opc'[h] = opc[h] /\ at'[h] = at[h]
        /\ seen'[h] = seen[h] /\ result'[h] = result[h] /\ initialized' = initialized
        /\ UNCHANGED <<cause, group>>
    BY <1>4 DEF Inv, TypeOK, StartThread, StartHandshake, JoinThread, OwnerAt, lists
  <2>4. \A u \in Threads \ {threads[g][at[g]]} :
          tpc'[u] = tpc[u] /\ needsJoin'[u] = needsJoin[u] /\ causes'[u] = causes[u]
    BY <1>4 DEF Inv, TypeOK, StartThread, StartHandshake, JoinThread
  <2>. QED BY <1>0, <2>2, <2>3, <2>4
<1>. QED BY <1>1, <1>2, <1>3, <1>4 DEF OwnerCall, OwnerStep, owner, lists

LEMMA OwnerLife ==
  ASSUME Inv, LifeInv, NEW g \in Groups, OwnerCall(g) \/ OwnerStep(g)
  PROVE  LifeInv'
<1>1. \A h \in Groups : Life(h)
  BY DEF LifeInv
<1>2. ASSUME NEW h \in Groups \ {g} PROVE Life(h)'
  BY <1>1, OwnerFrame, LifeKept
<1>3. Life(g)'
  BY <1>1, CreateLife, InitializeLife, StartLife, JoinLife, DestroyLife, StartThreadLife,
     StartSuspendedLife, StartHandshakeLife, StartedLife, JoinThreadLife, JoinReturnLife
     DEF OwnerCall, OwnerStep
<1>4. HasGroup'
  <2>1. CASE \E t \in Members[g] : Initialize(g, t)
    <3>1. PICK t \in Members[g] : Initialize(g, t)
      BY <2>1
    <3>2. t \in Threads /\ group'[t] = g /\ \A u \in Threads \ {t} : group'[u] = group[u]
      BY <3>1, MembersApart DEF Inv, TypeOK, Initialize
    <3>. QED BY <3>1, <3>2 DEF LifeInv, HasGroup
  <2>2. CASE ~\E t \in Members[g] : Initialize(g, t)
    <3>1. UNCHANGED group
      BY <2>2 DEF OwnerCall, OwnerStep, Create, Start, Join, Destroy, JoinReturn, Started,
                  StartSuspended, StartThread, StartHandshake, JoinThread, spu
    <3>. QED BY <3>1 DEF LifeInv, HasGroup
  <2>. QED BY <2>1, <2>2
<1>. QED BY <1>2, <1>3, <1>4 DEF LifeInv

\* What a step of thread t cannot touch: a group that t is not in.
LEMMA ThreadElsewhere ==
  ASSUME Inv, LifeInv, NEW t \in Threads, NEW h \in Groups, t \notin Members[h],
         UNCHANGED <<threads, group, owner>>, h \in initialized' <=> h \in initialized,
         \A u \in Threads \ {t} : /\ tpc'[u] = tpc[u] /\ needsJoin'[u] = needsJoin[u]
                                  /\ cause'[u] = cause[u] /\ causes'[u] = causes[u]
  PROVE  Life(h)'
BY LifeKept, MembersApart DEF LifeInv, owner

\* A thread that moves on its own way from start to stop, or from there to its end.
LEMMA MoveLife ==
  ASSUME Inv, NEW g \in Groups, Life(g), NEW t \in Members[g],
         \/ Signal(t) \/ WaitSuspended(t) \/ SuspensionPoint(t) \/ Resumed(t)
         \/ \E c \in {"Exit", "GroupExit"} : Stop(t, c)
         \/ Finish(t)
  PROVE  Life(g)'
<1>1. UNCHANGED <<lists, threads, causes, group, needsJoin, opc, at, seen, result>>
  BY DEF Signal, WaitSuspended, SuspensionPoint, Resumed, Stop, Finish, owner
<1>2. Members[g] \subseteq Threads
  BY MembersApart
<1>3. /\ tpc[t] # "none" /\ tpc'[t] # "none" /\ tpc'[t] # "crashed"
      /\ tpc[t] \in Active <=> tpc'[t] \in Active
      /\ tpc[t] \in Active => tpc'[t] \notin {"finishing", "ended"}
      /\ tpc'[t] \in {"finishing", "ended"} => tpc[t] = "finishing" /\ cause'[t] = cause[t]
      /\ tpc'[t] = "stopping" => cause'[t] # "StillRunning"
      /\ \A u \in Threads \ {t} : tpc'[u] = tpc[u] /\ cause'[u] = cause[u]
  BY <1>2 DEF Inv, TypeOK, ThreadAt, Signal, WaitSuspended, SuspensionPoint, Resumed, Stop,
              Finish, Active
<1>4. Belongs(g)' /\ Loops(g)'
  BY <1>1, <1>2, <1>3, LoopsKept DEF Life
<1>5. Collected(g)'
  BY <1>1, CollectedKept DEF Life
<1>6. Told(g)'
  <2>1. ASSUME NEW u \in Members[g]
        PROVE  /\ tpc'[u] \in Active => causes[u] = "StillRunning"
               /\ causes[u] = "StillRunning" => tpc'[u] \in Active \/ u \in MayFault
               /\ tpc'[u] = "stopping" => cause'[u] # "StillRunning"
               /\ tpc'[u] \in {"finishing", "ended"} => causes[u] \in {cause'[u], "StillRunning"}
               /\ tpc'[u] # "crashed"
               /\ opc[g] \in {"start", "run", "handshake"} /\ tpc'[u] \in {"finishing", "ended"}
                    => causes[u] = "StillRunning"
    <3>1. /\ tpc[u] \in Active => causes[u] = "StillRunning"
          /\ causes[u] = "StillRunning" => tpc[u] \in Active \/ u \in MayFault
          /\ tpc[u] = "stopping" => cause[u] # "StillRunning"
          /\ tpc[u] \in {"finishing", "ended"} => causes[u] \in {cause[u], "StillRunning"}
          /\ tpc[u] # "crashed"
          /\ opc[g] \in {"start", "run", "handshake"} /\ tpc[u] \in {"finishing", "ended"}
               => causes[u] = "StillRunning"
      BY DEF Life, Told
    <3>2. CASE u = t
      BY <1>3, <3>1, <3>2
    <3>3. CASE u # t
      BY <1>2, <1>3, <3>1, <3>3
    <3>. QED BY <3>2, <3>3
  <2>2. /\ opc[g] \in {"none", "idle"} => \A u \in Members[g] : causes[u] # "StillRunning"
        /\ opc[g] \in {"started", "join"}
             => (g \in initialized <=> \A u \in Members[g] : causes[u] # "StillRunning")
    BY DEF Life, Told
  <2>. QED BY <1>1, <2>1, <2>2 DEF Told, lists
<1>. QED BY <1>4, <1>5, <1>6 DEF Life

\* A thread of a group that has come to its stop: the manager's mutex is free only
\* once start is over, so the owner is past start and has not joined the thread.
LEMMA StoppingMember ==
  ASSUME Inv, LifeInv, NEW t \in Threads, tpc[t] = "stopping", group[t] \in Groups, mutex = Null
  PROVE  /\ t \in Members[group[t]] /\ Members[group[t]] \subseteq Threads
         /\ opc[group[t]] \in {"started", "join"}
         /\ Range(threads[group[t]]) = Members[group[t]]
         /\ causes[t] = "StillRunning" /\ cause[t] # "StillRunning"
         /\ group[t] \in ready \cup running \cup suspended
<1>. DEFINE g == group[t]
<1>1. g \in Groups /\ t \in Members[g] /\ Members[g] \subseteq Threads /\ Life(g)
  BY MembersApart DEF LifeInv, HasGroup
<1>2. opc[g] \notin {"start", "run", "handshake"}
  BY <1>1, GroupsAssumption DEF Inv, OwnerPlaced
<1>3. opc[g] \notin {"none", "idle"}
  BY <1>1, AtRest
<1>4. opc[g] \in {"none", "idle", "start", "run", "handshake", "started", "join"}
  BY <1>1 DEF Inv, TypeOK
<1>5. opc[g] \in {"started", "join"}
  BY <1>2, <1>3, <1>4
<1>6. Range(threads[g]) = Members[g]
  BY <1>1, <1>5 DEF Life, Belongs
<1>7. causes[t] = "StillRunning" /\ cause[t] # "StillRunning"
  BY <1>1 DEF Life, Told, Active
<1>8. g \notin initialized
  BY <1>1, <1>5, <1>7 DEF Life, Told
<1>9. g \in ready \cup running \cup suspended
  BY <1>1, <1>5, <1>8 DEF Inv, OneList
<1>. QED BY <1>1, <1>5, <1>6, <1>7, <1>9

LEMMA NotifyStoppedLife ==
  ASSUME Inv, LifeInv, NEW t \in Threads, NotifyStopped(t)
  PROVE  LifeInv'
<1>0. PICK g \in Groups : g = group[t]
  BY DEF NotifyStopped
<1>. DEFINE c == [causes EXCEPT ![t] = cause[t]]
<1>1. /\ tpc[t] = "stopping" /\ tpc'[t] = "finishing" /\ mutex = Null
      /\ causes' = c /\ UNCHANGED <<threads, group, needsJoin, cause, owner>>
      /\ \A u \in Threads \ {t} : tpc'[u] = tpc[u]
  BY DEF Inv, TypeOK, NotifyStopped, ThreadAt
<1>2. /\ t \in Members[g] /\ Members[g] \subseteq Threads
      /\ opc[g] \in {"started", "join"}
      /\ Range(threads[g]) = Members[g]
      /\ causes[t] = "StillRunning" /\ cause[t] # "StillRunning"
  BY <1>0, <1>1, StoppingMember
<1>3. causes'[t] = cause[t] /\ \A u \in Threads \ {t} : causes'[u] = causes[u]
  BY <1>1 DEF Inv, TypeOK
<1>4. /\ anyRunning(g, c) <=> \E u \in Members[g] : causes'[u] = "StillRunning"
      /\ initialized' = IF anyRunning(g, c) THEN initialized ELSE initialized \cup {g}
  BY <1>0, <1>1, <1>2 DEF anyRunning, NotifyStopped, lists
<1>5. ASSUME NEW h \in Groups \ {g} PROVE Life(h)'
  <2>1. t \notin Members[h] /\ (h \in initialized' <=> h \in initialized)
    BY <1>1, <1>2, <1>4, MembersApart
  <2>. QED BY <1>1, <1>3, <2>1, ThreadElsewhere
<1>6. Life(g)'
  <2>0. Life(g)
    BY <1>1 DEF LifeInv
  <2>1. Belongs(g)' /\ Loops(g)'
    BY <1>1, <1>2, <2>0, LoopsKept DEF Life, owner
  <2>2. Told(g)'
    <3>1. ASSUME NEW u \in Members[g]
          PROVE  /\ tpc'[u] \in Active => causes'[u] = "StillRunning"
                 /\ causes'[u] = "StillRunning" => tpc'[u] \in Active \/ u \in MayFault
                 /\ tpc'[u] = "stopping" => cause[u] # "StillRunning"
                 /\ tpc'[u] \in {"finishing", "ended"} => causes'[u] \in {cause[u], "StillRunning"}
                 /\ tpc'[u] # "crashed"
      <4>1. CASE u = t
        BY <1>1, <1>2, <1>3, <4>1 DEF Active
      <4>2. CASE u # t
        BY <1>1, <1>2, <1>3, <2>0, <4>2 DEF Life, Told
      <4>. QED BY <4>1, <4>2
    <3>2. g \notin initialized
      BY <1>2, <2>0 DEF Life, Told
    <3>3. g \in initialized' <=> \A u \in Members[g] : causes'[u] # "StillRunning"
      BY <1>4, <3>2
    <3>. QED BY <1>1, <1>2, <3>1, <3>3 DEF Told, owner
  <2>3. Collected(g)'
    <3>1. ASSUME opc[g] = "join", NEW i \in DOMAIN threads[g], i < at[g]
          PROVE  causes'[threads[g][i]] = causes[threads[g][i]]
      <4>1. threads[g][i] \in Members[g] /\ i \in Int /\ at[g] \in Int
        BY <1>1, MembersApart
      <4>2. ~Ran(g, i)
        BY <3>1, <4>1 DEF Ran
      <4>3. ~ranThis(threads[g][i])
        BY <2>0, <4>2 DEF Life, Loops
      <4>4. threads[g][i] # t
        BY <1>1, <4>3 DEF ranThis
      <4>. QED BY <1>2, <1>3, <4>1, <4>4
    <3>2. ASSUME opc[g] = "join", NEW x \in Causes,
                 \A i \in DOMAIN threads[g] : i < at[g] => causes'[threads[g][i]] # "StillRunning"
          PROVE  x \in seen[g] <=> \E i \in DOMAIN threads[g] : i < at[g] /\ causes'[threads[g][i]] = x
      <4>1. x \in seen[g] <=> \E i \in DOMAIN threads[g] : i < at[g] /\ causes[threads[g][i]] = x
        BY <2>0, <3>1, <3>2 DEF Life, Collected
      <4>. QED BY <3>1, <3>2, <4>1
    <3>. QED BY <1>1, <1>2, <3>2 DEF Collected, owner
  <2>. QED BY <2>1, <2>2, <2>3 DEF Life
<1>7. HasGroup'
  BY <1>1 DEF LifeInv, HasGroup
<1>. QED BY <1>5, <1>6, <1>7 DEF LifeInv

\* A thread that faults ends without telling the manager, which goes on as if it ran.
LEMMA FaultLife ==
  ASSUME Inv, NEW g \in Groups, Life(g), NEW t \in Members[g], Fault(t)
  PROVE  Life(g)'
<1>1. /\ t \in MayFault /\ tpc[t] = "running" /\ tpc'[t] = "finishing"
      /\ UNCHANGED <<lists, threads, causes, group, needsJoin, cause, opc, at, seen, result>>
      /\ \A u \in Threads \ {t} : tpc'[u] = tpc[u]
  BY MembersApart DEF Inv, TypeOK, Fault, ThreadAt, owner
<1>2. Members[g] \subseteq Threads
  BY MembersApart
<1>3. Belongs(g)' /\ Loops(g)'
  BY <1>1, <1>2, LoopsKept DEF Life
<1>4. Collected(g)'
  BY <1>1, CollectedKept DEF Life
<1>5. Told(g)'
  <2>1. ASSUME NEW u \in Members[g] \ {t} PROVE tpc'[u] = tpc[u]
    BY <1>1, <1>2
  <2>2. causes[t] = "StillRunning"
    BY <1>1 DEF Life, Told, Active
  <2>. QED BY <1>1, <2>1, <2>2 DEF Life, Told, Active, lists
<1>. QED BY <1>3, <1>4, <1>5 DEF Life

\* The steps of the threads, whichever of them may fault.
LEMMA ThreadLife ==
  ASSUME Inv, LifeInv, NEW t \in Threads, ThreadStep(t)
  PROVE  LifeInv'
<1>1. CASE NotifyStopped(t)
  BY <1>1, NotifyStoppedLife
<1>2. CASE NotifyStoppedRaw(t)
  <2>1. /\ tpc[t] = "stopping" /\ group[t] \notin Groups
        /\ UNCHANGED <<lists, threads, causes, group, needsJoin, cause, owner>>
        /\ \A u \in Threads \ {t} : tpc'[u] = tpc[u]
    BY <1>2 DEF Inv, TypeOK, NotifyStoppedRaw, ThreadAt
  <2>2. ASSUME NEW h \in Groups PROVE Life(h)'
    <3>1. t \notin Members[h]
      <4>1. Life(h)
        BY DEF LifeInv
      <4>2. t \in Members[h] => t \in Range(threads[h])
        BY <2>1, <4>1 DEF Life, Belongs, ranThis
      <4>. QED BY <2>1, <4>1, <4>2 DEF Life, Belongs
    <3>. QED BY <2>1, <3>1, ThreadElsewhere DEF lists
  <2>. QED BY <2>1, <2>2 DEF LifeInv, HasGroup
<1>3. CASE \/ Signal(t) \/ WaitSuspended(t) \/ SuspensionPoint(t) \/ Resumed(t)
           \/ \E c \in {"Exit", "GroupExit"} : Stop(t, c)
           \/ Finish(t)
  <2>1. /\ UNCHANGED <<lists, threads, causes, group, needsJoin, owner>>
        /\ \A u \in Threads \ {t} : tpc'[u] = tpc[u] /\ cause'[u] = cause[u]
    BY <1>3 DEF Inv, TypeOK, ThreadAt, Signal, WaitSuspended, SuspensionPoint, Resumed, Stop, Finish
  <2>2. ASSUME NEW h \in Groups PROVE Life(h)'
    <3>1. CASE t \in Members[h]
      BY <1>3, <3>1, MoveLife DEF LifeInv
    <3>2. CASE t \notin Members[h]
      BY <2>1, <3>2, ThreadElsewhere DEF lists
    <3>. QED BY <3>1, <3>2
  <2>. QED BY <2>1, <2>2 DEF LifeInv, HasGroup
<1>4. CASE Fault(t)
  <2>1. /\ UNCHANGED <<lists, threads, causes, group, needsJoin, cause, owner>>
        /\ \A u \in Threads \ {t} : tpc'[u] = tpc[u]
    BY <1>4 DEF Inv, TypeOK, ThreadAt, Fault
  <2>2. ASSUME NEW h \in Groups PROVE Life(h)'
    <3>1. CASE t \in Members[h]
      BY <1>4, <3>1, FaultLife DEF LifeInv
    <3>2. CASE t \notin Members[h]
      BY <2>1, <3>2, ThreadElsewhere DEF lists
    <3>. QED BY <3>1, <3>2
  <2>. QED BY <2>1, <2>2 DEF LifeInv, HasGroup
<1>. QED BY <1>1, <1>2, <1>3, <1>4 DEF ThreadStep

\* Suspend, resume and the raw threads change nothing of a group's life.
LEMMA ElsewhereLife ==
  ASSUME Inv, LifeInv,
         \/ \E g \in Groups : Suspend(g) \/ Resume(g)
         \/ \E t \in RawThreads : RawRun(t) \/ RawJoin(t)
  PROVE  LifeInv'
<1>1. UNCHANGED <<initialized, threads, causes, group, cause, owner>>
  BY DEF Suspend, Resume, RawRun, RawJoin, lists
<1>2. ASSUME NEW h \in Groups PROVE Life(h)'
  <2>1. Members[h] \subseteq Threads /\ Members[h] \cap RawThreads = {}
    BY MembersApart
  <2>2. \A u \in Members[h] : tpc'[u] = tpc[u] /\ needsJoin'[u] = needsJoin[u]
    BY <2>1 DEF Inv, TypeOK, Suspend, Resume, RawRun, RawJoin
  <2>. QED BY <1>1, <2>2, LifeKept DEF LifeInv, owner
<1>. QED BY <1>1, <1>2 DEF LifeInv, HasGroup

LEMMA LifeNext == Inv /\ LifeInv /\ [Next]_vars => LifeInv'
<1>. SUFFICES ASSUME Inv, LifeInv, [Next]_vars PROVE LifeInv'
  OBVIOUS
<1>1. CASE UNCHANGED vars
  <2>1. ASSUME NEW h \in Groups PROVE Life(h)'
    BY <1>1, LifeKept DEF vars, lists, spu, owner, LifeInv
  <2>. QED BY <1>1, <2>1 DEF vars, spu, LifeInv, HasGroup
<1>. QED BY <1>1, OwnerLife, ThreadLife, ElsewhereLife DEF Next

\* The life of the threads of every group is as Life says: start and join take them
\* in step with the manager's lists, and a group is in play until all have told.
THEOREM LifeInvariant == Spec => [](Inv /\ LifeInv)
BY InvInit, InvNext, LifeStart, LifeNext, PTL DEF Spec

\* No EMU_ASSERT of the manager and of SPUThread::run fails, for any groups and any
\* number of SPUs, but the one at the end of the join of a group one of whose own
\* threads has faulted: the owner finds its group on the initialized list when it
\* starts it, has joined it and destroys it; run finds every thread joined; and
\* notifyThreadStopped finds the group of a thread that stops in play, though the
\* group may be waiting or suspended by then.
THEOREM NoAssertionFails == Spec => []AssertionsHold
<1>1. Inv /\ LifeInv => AssertionsHold
  <2>. SUFFICES ASSUME Inv, LifeInv PROVE AssertionsHold
    OBVIOUS
  <2>1. ASSUME NEW g \in Groups
        PROVE  /\ opc[g] \in {"idle", "start", "run", "handshake"} => g \in initialized
               /\ opc[g] = "join" /\ at[g] > Len(threads[g]) => g \in initialized \/ faulted(g)
               /\ opc[g] = "start" /\ at[g] <= Len(threads[g]) => ~needsJoin[threads[g][at[g]]]
    <3>0. Life(g)
      BY DEF LifeInv
    <3>1. opc[g] \in {"idle", "start", "run", "handshake"} => g \in initialized
      BY DEF Inv, OwnerPlaced
    <3>2. ASSUME opc[g] = "join", at[g] > Len(threads[g]) PROVE g \in initialized \/ faulted(g)
      <4>1. \A i \in DOMAIN threads[g] : ~(i >= at[g])
        BY <3>2, MembersApart
      <4>2. \A i \in DOMAIN threads[g] : ~ranThis(threads[g][i])
        BY <3>0, <3>2, <4>1 DEF Life, Loops, Ran
      <4>3. ASSUME NEW t \in Members[g] PROVE ~ranThis(t)
        <5>1. t \in Range(threads[g])
          BY <3>0, <3>2 DEF Life, Belongs
        <5>. QED BY <4>2, <5>1, MembersApart
      <4>4. \A t \in Members[g] : t \in Range(threads[g])
        BY <3>0, <3>2 DEF Life, Belongs
      <4>5. CASE \E t \in Members[g] : causes[t] = "StillRunning"
        <5>1. PICK t \in Members[g] : causes[t] = "StillRunning"
          BY <4>5
        <5>2. t \in MayFault /\ tpc[t] = "none"
          BY <3>0, <4>3, <5>1 DEF Life, Told, Active, ranThis
        <5>. QED BY <4>4, <5>1, <5>2 DEF faulted
      <4>6. CASE \A t \in Members[g] : causes[t] # "StillRunning"
        BY <3>0, <3>2, <4>6 DEF Life, Told
      <4>. QED BY <4>5, <4>6
    <3>3. ASSUME opc[g] = "start", at[g] <= Len(threads[g])
          PROVE  ~needsJoin[threads[g][at[g]]]
      <4>1. at[g] \in DOMAIN threads[g] /\ ~(at[g] < at[g])
        BY <3>3, LoopThread, MembersApart
      <4>. QED BY <3>0, <3>3, <4>1 DEF Life, Loops, ToJoin
    <3>. QED BY <3>1, <3>2, <3>3
  <2>2. ASSUME NEW t \in Threads, tpc[t] = "stopping", group[t] \in Groups, mutex = Null
        PROVE  group[t] \in ready \cup running \cup suspended
    BY <2>2, StoppingMember
  <2>. QED BY <2>1, <2>2 DEF AssertionsHold
<1>. QED BY <1>1, LifeInvariant, PTL

\* sys_spu_thread_group_join reports a group exit exactly when one of the group's
\* threads told the manager of one, and answers only when all have told, whichever
\* of them fault: join reads each thread's cause after the thread has told, and
\* before it can be started again.
THEOREM JoinIsRight == Spec => []JoinAgrees
<1>1. Inv /\ LifeInv => JoinAgrees
  <2>. SUFFICES ASSUME Inv, LifeInv, NEW g \in Groups, opc[g] = "idle", result[g] # Null
                PROVE  /\ result[g] = "GROUP_EXIT"
                            <=> \E t \in Range(threads[g]) : causes[t] = "GroupExit"
                       /\ ~anyRunning(g, causes)
    BY DEF JoinAgrees
  <2>1. Life(g)
    BY DEF LifeInv
  <2>2. Range(threads[g]) = Members[g]
    BY <2>1 DEF Life, Belongs
  <2>3. \A t \in Members[g] : causes[t] # "StillRunning"
    BY <2>1 DEF Life, Told
  <2>. QED BY <2>1, <2>2, <2>3 DEF Life, Collected, anyRunning
<1>. QED BY <1>1, LifeInvariant, PTL
-----------------------------------------------------------------------------
(* Who gets the SPUs: what dispatch serves fits, in the order of the ranks. *)

\* A nonempty set of naturals has a least element.
LEMMA LeastNatural ==
  ASSUME NEW F, F \subseteq Nat, F # {}
  PROVE  \E m \in F : \A k \in F : m <= k
<1>1. IsWellFoundedOn(OpToRel(<, Nat), Nat) /\ \A k, m \in Nat : k < m => <<k, m>> \in OpToRel(<, Nat)
  BY NatLessThanWellFounded DEF OpToRel
<1>2. \E R : IsWellFoundedOn(R, Nat) /\ \A k, m \in Nat : k < m => <<k, m>> \in R
  BY <1>1
<1>3. PICK R : IsWellFoundedOn(R, Nat) /\ \A k, m \in Nat : k < m => <<k, m>> \in R
  BY <1>2
<1>4. IsWellFoundedOn(R, Nat)
  BY <1>3
<1>5. PICK m \in F : \A k \in F : ~ (<<k, m>> \in R)
  BY <1>4, WFMin
<1>6. \A k \in F : ~ (k < m)
  BY <1>3, <1>5
<1> QED BY <1>6

\* A finite set of naturals with a member has a greatest one.
Unbounded(T) == T \subseteq Nat /\ T # {} /\ IsFiniteSet(T) /\ ~\E x \in T : \A y \in T : x >= y

LEMMA GreatestNatural == ASSUME NEW T, Unbounded(T) PROVE FALSE
<1>. DEFINE F == {n \in Nat : \E U : Unbounded(U) /\ Cardinality(U) = n}
<1>1. F \subseteq Nat /\ F # {}
  BY FS_CardinalityType DEF Unbounded
<1>2. PICK n \in F : \A k \in F : n <= k
  BY <1>1, LeastNatural
<1>3. PICK U : Unbounded(U) /\ Cardinality(U) = n
  BY <1>2
<1>4. PICK x \in U : x \in Nat
  BY <1>3 DEF Unbounded
<1>. DEFINE V == U \ {x}
<1>5. IsFiniteSet(V) /\ Cardinality(V) = n - 1 /\ V \subseteq Nat /\ n - 1 \in Nat
  <2>1. IsFiniteSet(V) /\ Cardinality(V) = n - 1 /\ Cardinality(V) \in Nat
    BY <1>3, <1>4, FS_RemoveElement, FS_CardinalityType DEF Unbounded
  <2>. QED BY <1>3, <2>1 DEF Unbounded
<1>6. ~Unbounded(V)
  <2>1. n - 1 \notin F
    BY <1>2, <1>5
  <2>. QED BY <1>5, <2>1
<1>7. V # {}
  <2>1. CASE V = {}
    <3>1. U = {x}
      BY <2>1
    <3>. QED BY <1>3, <1>4, <3>1 DEF Unbounded
  <2>. QED BY <2>1
<1>8. PICK y \in V : \A z \in V : y >= z
  BY <1>5, <1>6, <1>7 DEF Unbounded
<1>9. y \in U /\ y \in Nat
  BY <1>5
<1>10. CASE x >= y
  <2>1. \A z \in U : x >= z
    <3>1. ASSUME NEW z \in U PROVE x >= z
      <4>1. CASE z = x
        BY <1>4, <4>1
      <4>2. CASE z # x
        <5>1. z \in V /\ z \in Nat /\ y >= z
          BY <1>5, <1>8, <4>2
        <5>. QED BY <1>4, <1>9, <1>10, <5>1
      <4>. QED BY <4>1, <4>2
    <3>. QED BY <3>1
  <2>. QED BY <1>3, <2>1 DEF Unbounded
<1>11. CASE ~(x >= y)
  <2>1. \A z \in U : y >= z
    <3>1. ASSUME NEW z \in U PROVE y >= z
      <4>1. CASE z = x
        BY <1>4, <1>9, <1>11, <4>1
      <4>2. CASE z # x
        BY <1>8, <4>2
      <4>. QED BY <4>1, <4>2
    <3>. QED BY <3>1
  <2>. QED BY <1>3, <1>9, <2>1 DEF Unbounded
<1>. QED BY <1>10, <1>11

LEMMA MaxRankIs == MaxRank \in Nat /\ \A g \in Groups : Rank[g] <= MaxRank
<1>. DEFINE T == {Rank[g] : g \in Groups} \cup {0}
<1>1. T \subseteq Nat /\ T # {}
  BY GroupsAssumption
<1>2. IsFiniteSet(T)
  <2>1. IsFiniteSet({Rank[g] : g \in Groups})
    <3>1. Rank \in Surjection(Groups, {Rank[g] : g \in Groups})
      BY GroupsAssumption DEF Surjection
    <3>. QED BY <3>1, FS_Surjection, GroupsAssumption
  <2>. QED BY <2>1, FS_AddElement
<1>. HIDE DEF T
<1>3. \E x \in T : \A y \in T : x >= y
  BY <1>1, <1>2, GreatestNatural DEF Unbounded
<1>4. Max(T) \in T /\ \A y \in T : Max(T) >= y
  BY <1>3 DEF Max
<1>5. MaxRank = Max(T)
  BY DEF MaxRank, T
<1>6. \A g \in Groups : Rank[g] \in T
  BY DEF T
<1>. QED BY <1>1, <1>4, <1>5, <1>6

\* No thread is in a group twice: sys_spu_thread_initialize adds a new one.
NoTwice ==
  \A g \in Groups : \A i, j \in DOMAIN threads[g] : threads[g][i] = threads[g][j] => i = j

threadsOf(S) == UNION {Range(threads[g]) : g \in S}

\* A group takes as many SPUs as it has threads.
LEMMA OneGroupTakes ==
  ASSUME TypeOK, OwnerPlaced, NoTwice, NEW g \in Groups
  PROVE  /\ IsFiniteSet(Range(threads[g])) /\ Cardinality(Range(threads[g])) = size(g)
         /\ spus({g}) = size(g) /\ size(g) \in Nat
<1>1. threads[g] \in Seq(GroupThreads)
  BY DEF TypeOK
<1>2. Len(threads[g]) \in Nat /\ DOMAIN threads[g] = 1 .. Len(threads[g])
      /\ threads[g] = [i \in 1 .. Len(threads[g]) |-> threads[g][i]]
  BY <1>1
<1>3. threads[g] \in Surjection(1 .. Len(threads[g]), Range(threads[g]))
  BY <1>2 DEF Surjection, Range
<1>4. threads[g] \in Injection(1 .. Len(threads[g]), Range(threads[g]))
  BY <1>2 DEF Injection, IsInjective, Range, NoTwice
<1>5. IsFiniteSet(1 .. Len(threads[g])) /\ Cardinality(1 .. Len(threads[g])) = Len(threads[g])
  BY <1>2, FS_Interval
<1>6. IsFiniteSet(Range(threads[g])) /\ Cardinality(Range(threads[g])) = Len(threads[g])
  BY <1>3, <1>4, <1>5, FS_Surjection
<1>7. UNION {Range(threads[h]) : h \in {g}} = Range(threads[g])
  OBVIOUS
<1>. QED BY <1>2, <1>6, <1>7 DEF spus, size

LEMMA NoGroupsTake == spus({}) = 0
<1>1. UNION {Range(threads[g]) : g \in {}} = {}
  OBVIOUS
<1>. QED BY <1>1, FS_EmptySet DEF spus

\* Groups apart take what each of them takes.
LEMMA GroupsTake ==
  ASSUME TypeOK, OwnerPlaced, NoTwice, NEW A \in SUBSET Groups, NEW B \in SUBSET Groups, A \cap B = {}
  PROVE  spus(A) \in Nat /\ spus(B) \in Nat /\ spus(A \cup B) = spus(A) + spus(B)
<1>1. ASSUME NEW S \in SUBSET Groups
      PROVE  IsFiniteSet(threadsOf(S)) /\ spus(S) = Cardinality(threadsOf(S)) /\ spus(S) \in Nat
  <2>1. IsFiniteSet(S)
    BY FS_Subset, GroupsAssumption
  <2>. DEFINE f == [g \in S |-> Range(threads[g])]
              T == {Range(threads[g]) : g \in S}
  <2>2. f \in Surjection(S, T)
    BY DEF Surjection
  <2>3. IsFiniteSet(T)
    <3>. HIDE DEF f, T
    <3>. QED BY <2>1, <2>2, FS_Surjection
  <2>4. \A X \in T : IsFiniteSet(X)
    BY OneGroupTakes
  <2>5. IsFiniteSet(UNION T)
    <3>. HIDE DEF T
    <3>. QED BY <2>3, <2>4, FS_UNION
  <2>6. threadsOf(S) = UNION T /\ spus(S) = Cardinality(UNION T)
    BY DEF threadsOf, spus
  <2>. QED BY <2>5, <2>6, FS_CardinalityType
<1>2. threadsOf(A \cup B) = threadsOf(A) \cup threadsOf(B)
  BY DEF threadsOf
<1>3. threadsOf(A) \cap threadsOf(B) = {}
  <2>1. ASSUME NEW t \in threadsOf(A), t \in threadsOf(B) PROVE FALSE
    <3>1. PICK g \in A : t \in Range(threads[g])
      BY DEF threadsOf
    <3>2. PICK h \in B : t \in Range(threads[h])
      BY <2>1 DEF threadsOf
    <3>3. h = g
      BY <3>1, <3>2, GroupsShareNoThread
    <3>. QED BY <3>3
  <2>. QED BY <2>1
<1>4. Cardinality(threadsOf(A) \cup threadsOf(B))
        = Cardinality(threadsOf(A)) + Cardinality(threadsOf(B)) - Cardinality({})
  BY <1>1, <1>3, FS_Union
<1>5. A \cup B \in SUBSET Groups
  OBVIOUS
<1>6. /\ spus(A) = Cardinality(threadsOf(A)) /\ spus(A) \in Nat
      /\ spus(B) = Cardinality(threadsOf(B)) /\ spus(B) \in Nat
      /\ spus(A \cup B) = Cardinality(threadsOf(A \cup B))
  BY <1>1, <1>5
<1>7. Cardinality({}) = 0
  BY FS_EmptySet
<1>8. spus(A \cup B) = spus(A) + spus(B) - 0
  BY <1>2, <1>4, <1>6, <1>7, Zenon
<1>. QED BY <1>6, <1>8

\* The SPUs that are left, as dispatch counts them, up to the rank m.
LeftIs(left, S, m) ==
  left = [n \in 0 .. m |->
            IF n = 0 THEN NSpus
            ELSE left[n - 1] - spus({g \in S : Rank[g] = n /\ size(g) <= left[n - 1]})]

LEMMA LeftExists ==
  ASSUME NEW S, NEW n \in Nat
  PROVE  \E left : LeftIs(left, S, n)
<1>. DEFINE F == {m \in Nat : ~ \E left : LeftIs(left, S, m)}
            step(x, m) == x - spus({g \in S : Rank[g] = m /\ size(g) <= x})
<1>1. ASSUME NEW m \in Nat, m # 0, NEW left, LeftIs(left, S, m - 1)
      PROVE  \E k : LeftIs(k, S, m)
  <2>. DEFINE k == [i \in 0 .. m |-> IF i = m THEN step(left[m - 1], m) ELSE left[i]]
  <2>1. m - 1 \in 0 .. m - 1 /\ m - 1 \in 0 .. m /\ m - 1 # m
    BY <1>1
  <2>2. k[m] = step(left[m - 1], m) /\ \A i \in 0 .. m - 1 : k[i] = left[i]
    <3>. HIDE DEF step
    <3>. QED BY <1>1
  <2>3. ASSUME NEW i \in 0 .. m
        PROVE  k[i] = IF i = 0 THEN NSpus ELSE step(k[i - 1], i)
    <3>1. CASE i = m
      <4>. HIDE DEF step, k
      <4>. QED BY <1>1, <2>1, <2>2, <3>1
    <3>2. CASE i # m
      <4>1. i \in 0 .. m - 1 /\ (i # 0 => i - 1 \in 0 .. m - 1)
        BY <1>1, <3>2
      <4>2. left[i] = IF i = 0 THEN NSpus ELSE step(left[i - 1], i)
        BY <1>1, <4>1 DEF LeftIs
      <4>. HIDE DEF k, step
      <4>. QED BY <2>2, <4>1, <4>2
    <3>. QED BY <3>1, <3>2
  <2>4. k = [i \in 0 .. m |-> k[i]]
    OBVIOUS
  <2>5. k = [i \in 0 .. m |-> IF i = 0 THEN NSpus ELSE step(k[i - 1], i)]
    <3>. HIDE DEF k, step
    <3>. QED BY <2>3, <2>4
  <2>. HIDE DEF k
  <2>. QED BY <2>5 DEF LeftIs
<1>2. \E k : LeftIs(k, S, 0)
  <2>1. LeftIs([i \in 0 .. 0 |-> NSpus], S, 0)
    BY DEF LeftIs
  <2>. QED BY <2>1
<1>3. F = {}
  <2>1. ASSUME F # {} PROVE FALSE
    <3>1. F \subseteq Nat
      OBVIOUS
    <3>2. PICK m \in F : \A k \in F : m <= k
      BY <2>1, <3>1, LeastNatural
    <3>3. m \in Nat /\ m # 0 /\ ~ \E k : LeftIs(k, S, m)
      BY <1>2, <3>2
    <3>4. m - 1 \in Nat /\ ~(m <= m - 1)
      BY <3>3
    <3>5. m - 1 \notin F
      BY <3>2, <3>4
    <3>6. \E k : LeftIs(k, S, m - 1)
      BY <3>4, <3>5
    <3>. QED BY <1>1, <3>3, <3>6
  <2>. QED BY <2>1
<1>. QED BY <1>3

\* dispatch serves groups that fit on the SPUs, and leaves out a group only for
\* those that go before it.
LEMMA DispatchServes ==
  ASSUME TypeOK, OwnerPlaced, NoTwice, NEW S \in SUBSET Groups
  PROVE  /\ spus(dispatched(S)) <= NSpus
         /\ \A g \in S \ dispatched(S) :
              spus({h \in dispatched(S) : Rank[h] < Rank[g]}) + size(g) > NSpus
<1>1. PICK left : LeftIs(left, S, MaxRank) /\ spusLeft(S) = left
  <2>. DEFINE K == CHOOSE left : LeftIs(left, S, MaxRank)
  <2>1. LeftIs(K, S, MaxRank)
    BY LeftExists, MaxRankIs
  <2>2. spusLeft(S) = K
    BY DEF spusLeft, LeftIs
  <2>. QED BY <2>1, <2>2
<1>. DEFINE served(n) == {g \in S : Rank[g] = n /\ size(g) <= left[n - 1]}
            D == {g \in S : size(g) <= left[Rank[g] - 1]}
            upTo(n) == {g \in D : Rank[g] <= n}
            good(n) == left[n] \in Nat /\ left[n] + spus(upTo(n)) = NSpus
<1>2. \A n \in 0 .. MaxRank : left[n] = IF n = 0 THEN NSpus ELSE left[n - 1] - spus(served(n))
  BY <1>1 DEF LeftIs
<1>3. dispatched(S) = D
  BY <1>1 DEF dispatched
<1>4. MaxRank \in Nat /\ NSpus \in Nat
      /\ \A g \in Groups : Rank[g] \in Nat /\ Rank[g] >= 1 /\ Rank[g] <= MaxRank
  BY MaxRankIs, GroupsAssumption
<1>5. D \in SUBSET Groups /\ \A n : upTo(n) \in SUBSET Groups /\ served(n) \in SUBSET Groups
  OBVIOUS
<1>6. good(0)
  <2>1. upTo(0) = {}
    BY <1>4
  <2>2. left[0] = NSpus
    <3>1. 0 \in 0 .. MaxRank
      BY <1>4
    <3>. QED BY <1>2, <3>1, Zenon
  <2>. HIDE DEF upTo
  <2>. QED BY <1>4, <2>1, <2>2, NoGroupsTake
<1>7. ASSUME NEW n \in 1 .. MaxRank, good(n - 1)
      PROVE  good(n)
  <2>1. n \in Nat /\ n # 0 /\ n \in 0 .. MaxRank /\ left[n - 1] \in Nat
    BY <1>4, <1>7
  <2>2. upTo(n) = upTo(n - 1) \cup served(n) /\ upTo(n - 1) \cap served(n) = {}
    <3>1. \A g \in S : Rank[g] \in Nat
      BY <1>4
    <3>. QED BY <2>1, <3>1
  <2>3. left[n] = left[n - 1] - spus(served(n))
    <3>. HIDE DEF served
    <3>. QED BY <1>2, <2>1
  <2>4. spus(served(n)) <= left[n - 1]
    <3>1. CASE served(n) = {}
      <4>. HIDE DEF served
      <4>. QED BY <2>1, <3>1, NoGroupsTake
    <3>2. ASSUME NEW g \in served(n) PROVE spus(served(n)) <= left[n - 1]
      <4>1. g \in Groups /\ size(g) <= left[n - 1] /\ served(n) = {g}
        BY GroupsAssumption
      <4>2. spus({g}) = size(g)
        BY <4>1, OneGroupTakes
      <4>. HIDE DEF served
      <4>. QED BY <4>1, <4>2
    <3>. HIDE DEF served
    <3>. QED BY <3>1, <3>2
  <2>5. /\ spus(upTo(n - 1)) \in Nat /\ spus(served(n)) \in Nat
        /\ spus(upTo(n)) = spus(upTo(n - 1)) + spus(served(n))
    <3>. HIDE DEF upTo, served
    <3>. QED BY <1>5, <2>2, GroupsTake
  <2>6. left[n - 1] + spus(upTo(n - 1)) = NSpus
    BY <1>7
  <2>. HIDE DEF upTo, served
  <2>. QED BY <1>4, <2>1, <2>3, <2>4, <2>5, <2>6
<1>8. \A n \in 0 .. MaxRank : good(n)
  <2>. DEFINE F == {n \in 0 .. MaxRank : ~good(n)}
  <2>. HIDE DEF good
  <2>1. ASSUME F # {} PROVE FALSE
    <3>1. F \subseteq Nat
      BY <1>4
    <3>2. PICK n \in F : \A k \in F : n <= k
      BY <2>1, <3>1, LeastNatural
    <3>3. n \in 0 .. MaxRank /\ ~good(n) /\ n # 0
      BY <1>6, <3>2
    <3>4. n \in 1 .. MaxRank /\ n - 1 \in 0 .. MaxRank /\ ~(n <= n - 1)
      BY <1>4, <3>3
    <3>5. good(n - 1)
      BY <3>2, <3>4
    <3>. QED BY <1>7, <3>3, <3>4, <3>5
  <2>. QED BY <2>1
<1>9. spus(D) <= NSpus
  <2>1. upTo(MaxRank) = D
    BY <1>4
  <2>2. good(MaxRank)
    <3>. HIDE DEF good
    <3>. QED BY <1>4, <1>8
  <2>3. spus(D) \in Nat
    <3>1. D \cap {} = {} /\ {} \in SUBSET Groups
      OBVIOUS
    <3>. HIDE DEF D
    <3>. QED BY <1>5, <3>1, GroupsTake
  <2>4. left[MaxRank] \in Nat /\ left[MaxRank] + spus(D) = NSpus
    BY <2>1, <2>2, Zenon
  <2>. HIDE DEF D
  <2>. QED BY <1>4, <2>3, <2>4
<1>10. ASSUME NEW g \in S \ D
       PROVE  spus({h \in D : Rank[h] < Rank[g]}) + size(g) > NSpus
  <2>. DEFINE r == Rank[g] - 1
  <2>1. g \in Groups /\ r \in 0 .. MaxRank /\ r \in Nat
    BY <1>4
  <2>2. {h \in D : Rank[h] < Rank[g]} = upTo(r)
    <3>1. \A h \in D : Rank[h] \in Nat
      BY <1>4
    <3>2. Rank[g] \in Nat
      BY <1>4
    <3>. QED BY <3>1, <3>2
  <2>3. good(r)
    <3>. HIDE DEF good
    <3>. QED BY <1>8, <2>1
  <2>4. ~(size(g) <= left[r]) /\ size(g) \in Nat
    BY <2>1, OneGroupTakes
  <2>5. left[r] \in Nat /\ left[r] + spus(upTo(r)) = NSpus
    BY <2>3
  <2>6. spus(upTo(r)) \in Nat
    <3>1. upTo(r) \cap {} = {} /\ {} \in SUBSET Groups
      OBVIOUS
    <3>. HIDE DEF upTo
    <3>. QED BY <1>5, <3>1, GroupsTake
  <2>7. spus(upTo(r)) + size(g) > NSpus
    <3>. HIDE DEF upTo, r
    <3>. QED BY <1>4, <2>4, <2>5, <2>6
  <2>. QED BY <2>2, <2>7
<1>. HIDE DEF D
<1>. QED BY <1>3, <1>9, <1>10

\* Whoever calls dispatch shares the SPUs out anew...
LEMMA DispatchShares ==
  ASSUME TypeOK, OwnerPlaced, NoTwice, NEW S \in SUBSET Groups, NEW f,
         Dispatch(S, f), threads' = threads
  PROVE  SpusShared'
<1>. DEFINE D == dispatched(S)
<1>1. running' = D /\ ready' = S \ D
  BY DEF Dispatch
<1>2. /\ spus(D) <= NSpus
      /\ \A g \in S \ D : spus({h \in D : Rank[h] < Rank[g]}) + size(g) > NSpus
  BY DispatchServes
<1>. HIDE DEF D
<1>. QED BY <1>1, <1>2 DEF SpusShared, spus, size

\* ... and nobody else touches the groups that have SPUs or wait for them.
LEMMA SharesKept ==
  ASSUME SpusShared, UNCHANGED <<ready, running>>,
         \A g \in ready \cup running : threads'[g] = threads[g]
  PROVE  SpusShared'
<1>1. \A S \in SUBSET running :
        UNION {Range(threads'[g]) : g \in S} = UNION {Range(threads[g]) : g \in S}
  OBVIOUS
<1>2. spus(running)' = spus(running)
  BY <1>1 DEF spus
<1>3. \A g \in ready :
        /\ spus({h \in running : Rank[h] < Rank[g]})' = spus({h \in running : Rank[h] < Rank[g]})
        /\ size(g)' = size(g)
  <2>. SUFFICES ASSUME NEW g \in ready
                PROVE  /\ spus({h \in running : Rank[h] < Rank[g]})'
                            = spus({h \in running : Rank[h] < Rank[g]})
                       /\ size(g)' = size(g)
    OBVIOUS
  <2>. DEFINE B == {h \in running : Rank[h] < Rank[g]}
  <2>1. B' = B /\ B \in SUBSET running
    OBVIOUS
  <2>2. UNION {Range(threads'[h]) : h \in B'} = UNION {Range(threads[h]) : h \in B}
    <3>. HIDE DEF B
    <3>. QED BY <1>1, <2>1
  <2>3. spus(B)' = spus(B)
    <3>. HIDE DEF B
    <3>. QED BY <2>2 DEF spus
  <2>. QED BY <2>3 DEF size
<1>. QED BY <1>2, <1>3 DEF SpusShared

ShareInv == NoTwice /\ SpusShared

LEMMA ShareInit == Init => ShareInv
<1>. SUFFICES ASSUME Init PROVE ShareInv
  OBVIOUS
<1>1. NoTwice
  BY DEF Init, NoTwice
<1>2. running = {} /\ ready = {}
  BY DEF Init
<1>. QED BY <1>1, <1>2, NoGroupsTake, GroupsAssumption DEF ShareInv, SpusShared

LEMMA ShareNext == Inv /\ ShareInv /\ [Next]_vars => ShareInv'
<1>. SUFFICES ASSUME Inv, ShareInv, [Next]_vars PROVE ShareInv'
  OBVIOUS
<1>. USE DEF Inv, ShareInv
<1>1. ASSUME UNCHANGED <<ready, running, threads>> PROVE ShareInv'
  BY <1>1, SharesKept DEF NoTwice
<1>2. ASSUME threads' = threads, NEW S \in SUBSET Groups, NEW f, Dispatch(S, f)
      PROVE  ShareInv'
  <2>1. NoTwice'
    BY <1>2 DEF NoTwice
  <2>. QED BY <1>2, <2>1, DispatchShares
<1>3. ASSUME NEW g \in Groups, Create(g) PROVE ShareInv'
  <2>1. g \notin ready \cup running
    BY <1>3 DEF Create, OwnerAt, OneList
  <2>2. threads'[g] = << >> /\ \A h \in Groups : h # g => threads'[h] = threads[h]
    BY <1>3 DEF Create, TypeOK
  <2>3. NoTwice'
    BY <2>2 DEF NoTwice
  <2>4. UNCHANGED <<ready, running>> /\ \A h \in ready \cup running : threads'[h] = threads[h]
    BY <1>3, <2>1, <2>2 DEF Create, TypeOK
  <2>. QED BY <2>3, <2>4, SharesKept
<1>4. ASSUME NEW g \in Groups, NEW t \in Members[g], Initialize(g, t) PROVE ShareInv'
  <2>1. g \in initialized /\ g \notin ready \cup running
    BY <1>4 DEF Initialize, OwnerPlaced, OneList
  <2>2. /\ threads'[g] = Append(threads[g], t) /\ t \notin Range(threads[g])
        /\ \A h \in Groups : h # g => threads'[h] = threads[h]
    BY <1>4 DEF Initialize, TypeOK
  <2>3. NoTwice'
    <3>. SUFFICES ASSUME NEW h \in Groups, NEW i \in DOMAIN threads'[h], NEW j \in DOMAIN threads'[h],
                         threads'[h][i] = threads'[h][j]
                  PROVE  i = j
      BY DEF NoTwice
    <3>1. CASE h # g
      BY <2>2, <3>1 DEF NoTwice
    <3>2. CASE h = g
      <4>1. threads[g] \in Seq(GroupThreads) /\ t \in GroupThreads
        BY DEF TypeOK, GroupThreads
      <4>2. /\ DOMAIN threads'[g] = DOMAIN threads[g] \cup {Len(threads[g]) + 1}
            /\ threads'[g][Len(threads[g]) + 1] = t
            /\ \A k \in DOMAIN threads[g] : threads'[g][k] = threads[g][k]
                                            /\ threads[g][k] # t
        BY <2>2, <4>1 DEF Range
      <4>. QED BY <3>2, <4>2 DEF NoTwice
    <3>. QED BY <3>1, <3>2
  <2>4. UNCHANGED <<ready, running>> /\ \A h \in ready \cup running : threads'[h] = threads[h]
    BY <1>4, <2>1, <2>2 DEF Initialize, TypeOK, lists
  <2>. QED BY <2>3, <2>4, SharesKept
<1>5. ASSUME NEW g \in Groups, OwnerCall(g) PROVE ShareInv'
  <2>1. CASE Start(g) \/ Join(g) \/ Destroy(g)
    BY <1>1, <2>1 DEF Start, Join, Destroy, lists
  <2>. QED BY <1>3, <1>4, <1>5, <2>1 DEF OwnerCall
<1>6. ASSUME NEW g \in Groups, OwnerStep(g) PROVE ShareInv'
  <2>1. CASE Started(g)
    <3>1. ready \cup running \cup {g} \in SUBSET Groups
      BY DEF TypeOK
    <3>. QED BY <1>2, <2>1, <3>1 DEF Started
  <2>2. CASE ~Started(g)
    BY <1>1, <1>6, <2>2 DEF OwnerStep, StartThread, StartSuspended, StartHandshake, JoinThread,
                            JoinReturn, lists
  <2>. QED BY <2>1, <2>2
<1>7. ASSUME NEW g \in Groups, Suspend(g) \/ Resume(g) PROVE ShareInv'
  <2>1. (ready \cup running) \ {g} \in SUBSET Groups /\ ready \cup running \cup {g} \in SUBSET Groups
    BY DEF TypeOK
  <2>. QED BY <1>2, <1>7, <2>1 DEF Suspend, Resume
<1>8. ASSUME NEW t \in Threads, NotifyStopped(t) PROVE ShareInv'
  <2>1. (ready \cup running) \ {group[t]} \in SUBSET Groups
    BY DEF TypeOK
  <2>2. \/ UNCHANGED <<ready, running, threads>>
        \/ threads' = threads /\ Dispatch((ready \cup running) \ {group[t]}, flag)
    BY <1>8 DEF NotifyStopped, lists
  <2>. QED BY <1>1, <1>2, <2>1, <2>2
<1>9. ASSUME NEW t \in Threads, ThreadStep(t) PROVE ShareInv'
  <2>1. CASE ~NotifyStopped(t)
    BY <1>1, <1>9, <2>1 DEF ThreadStep, Signal, WaitSuspended, SuspensionPoint, Resumed, Stop,
                            NotifyStoppedRaw, Fault, Finish, lists
  <2>. QED BY <1>8, <2>1
<1>10. ASSUME NEW t \in RawThreads, RawRun(t) \/ RawJoin(t) PROVE ShareInv'
  BY <1>1, <1>10 DEF RawRun, RawJoin, lists
<1>11. CASE UNCHANGED vars
  BY <1>1, <1>11 DEF vars, lists
<1>. QED BY <1>5, <1>6, <1>7, <1>9, <1>10, <1>11 DEF Next

\* The groups that run fit on the SPUs, and a group waits only for groups that
\* go before it, however many SPUs and groups of whatever sizes there are:
\* whoever starts, suspends, resumes or ends a group dispatches, and leaves no
\* group waiting that fits on the SPUs which the groups before it do not take.
THEOREM SpusAreShared == Spec => []SpusShared
<1>1. ShareInv => SpusShared
  BY DEF ShareInv
<1>2. Inv /\ Inv' /\ ShareInv /\ [Next]_vars => ShareInv'
  BY ShareNext
<1>. QED BY <1>1, <1>2, ShareInit, GroupInvariant, PTL DEF Spec
=============================================================================
