-------------------------- MODULE MemoryRefinement --------------------------
(***************************************************************************)
(* MainMemory implements LLSC, for any number of threads, lines and words  *)
(* and for any programs: every step of a thread is, through the refinement *)
(* mapping at the end of MainMemory, one step of the abstract memory or    *)
(* none.  An operation that writes takes effect where it begins to copy    *)
(* (with its lock or its two locks taken); the words it has yet to copy    *)
(* count as written, and the reservations it has yet to take as lost.      *)
(***************************************************************************)
EXTENDS MainMemoryProofs

\* Agent a has the lock and is about to copy to location x; and it will take the
\* reservation of thread t on line l when it has copied.
Puts(a, x) == pc[a] \in Copying /\ x \in Left(a)

Dooms(a, t, l) == Writing(a, l) /\ (a # t \/ pc[a] \in {"wc_copy", "uc_copy"})

\* A writer that waits for its lock or locks has something to write on each line.
Aimed(a) ==
  /\ pc[a] \in {"wc_lock", "uc_lock", "wc_check", "st_lock", "st_next", "wm_lock"}
       => \E x \in todo[a] : x[1] = cur[a]
  /\ pc[a] \in {"st_lock", "st_next"} /\ oth[a] # Null
       => \E x \in todo[a] : x[1] = oth[a]

AimInv == Inv /\ \A a \in Agents : Aimed(a)

LEMMA OneHolder ==
  ASSUME Inv, NEW a \in Agents, NEW b \in Agents, NEW l \in Lines, Holds(a, l), Holds(b, l)
  PROVE  a = b
<1>1. lock[l] = a /\ lock[l] = b
  BY DEF Inv, OwnInv, LockHeld
<1>. QED BY <1>1

LEMMA PutsHolds ==
  ASSUME Inv, NEW a \in Agents, NEW x \in Loc, Puts(a, x)
  PROVE  x[1] \in Lines /\ Writing(a, x[1]) /\ Holds(a, x[1])
<1>1. x[1] \in Lines /\ Writing(a, x[1])
  BY DEF Loc, Puts, Left, Writing
<1>. QED BY <1>1, WriterHolds

\* The abstract memory at a location.
CommittedIsMemory ==
  \A x \in Loc : /\ \A a \in Agents : Puts(a, x) => abstractMem[x] = val[a]
                 /\ (\A a \in Agents : ~Puts(a, x)) => abstractMem[x] = mem[x]

LEMMA AbstractMemory == Inv => CommittedIsMemory
<1>. SUFFICES ASSUME Inv, NEW x \in Loc
              PROVE  /\ \A a \in Agents : Puts(a, x) => abstractMem[x] = val[a]
                     /\ (\A a \in Agents : ~Puts(a, x)) => abstractMem[x] = mem[x]
  BY DEF CommittedIsMemory
<1>1. committed(x) = {a \in Agents : Puts(a, x)}
  BY DEF committed, Puts
<1>2. abstractMem[x] = IF committed(x) # {} THEN val[CHOOSE a \in committed(x) : TRUE] ELSE mem[x]
  BY DEF abstractMem
<1>3. ASSUME NEW a \in Agents, Puts(a, x) PROVE abstractMem[x] = val[a]
  <2>1. \A b \in committed(x) : b = a
    BY <1>1, <1>3, PutsHolds, OneHolder
  <2>2. a \in committed(x)
    BY <1>1, <1>3
  <2>3. (CHOOSE b \in committed(x) : TRUE) = a
    BY <2>1, <2>2
  <2>. QED BY <1>2, <2>2, <2>3
<1>4. (\A a \in Agents : ~Puts(a, x)) => abstractMem[x] = mem[x]
  BY <1>1, <1>2
<1>. QED BY <1>3, <1>4

LEMMA AbstractMemoryNext == Inv' => CommittedIsMemory'
BY AbstractMemory, PTL
-----------------------------------------------------------------------------
(* What a step of one agent does to the abstract state.                    *)

\* The other agents are where they were.
OthersStay(a) ==
  /\ \A b \in Agents \ {a} :
       /\ pc'[b] = pc[b] /\ cur'[b] = cur[b] /\ oth'[b] = oth[b]
       /\ todo'[b] = todo[b] /\ val'[b] = val[b]
  /\ \A t \in Threads \ {a} : view'[t] = view[t]

LEMMA OthersPut ==
  ASSUME NEW a \in Agents, OthersStay(a), NEW b \in Agents \ {a}
  PROVE  /\ \A x : Puts(b, x)' <=> Puts(b, x)
         /\ \A l : Writing(b, l)' <=> Writing(b, l)
         /\ \A l : Holds(b, l)' <=> Holds(b, l)
         /\ \A t, l : Dooms(b, t, l)' <=> Dooms(b, t, l)
<1>1. pc'[b] = pc[b] /\ cur'[b] = cur[b] /\ oth'[b] = oth[b] /\ todo'[b] = todo[b]
  BY DEF OthersStay
<1>. QED BY <1>1 DEF Puts, Left, Writing, Holds, Hand, Dooms

\* A location of the abstract memory changes only where the agent has begun to put
\* something, or has written to memory what was not yet promised.
LEMMA MemoryStep ==
  ASSUME Inv, Inv', NEW a \in Agents, OthersStay(a), NEW x \in Loc
  PROVE  /\ ~Puts(a, x) /\ ~Puts(a, x)' /\ mem'[x] = mem[x] => abstractMem'[x] = abstractMem[x]
         /\ Puts(a, x)' => abstractMem'[x] = val'[a]
         /\ Puts(a, x) => abstractMem[x] = val[a]
         /\ Puts(a, x) /\ ~Puts(a, x)' => abstractMem'[x] = mem'[x]
<1>1. CommittedIsMemory /\ CommittedIsMemory'
  BY AbstractMemory, AbstractMemoryNext
<1>2. \A b \in Agents \ {a} : (Puts(b, x)' <=> Puts(b, x)) /\ val'[b] = val[b]
  BY OthersPut DEF OthersStay
<1>3. ASSUME ~Puts(a, x), ~Puts(a, x)', mem'[x] = mem[x]
      PROVE  abstractMem'[x] = abstractMem[x]
  <2>1. CASE \E b \in Agents \ {a} : Puts(b, x)
    BY <1>1, <1>2, <2>1 DEF CommittedIsMemory
  <2>2. CASE \A b \in Agents \ {a} : ~Puts(b, x)
    <3>1. (\A b \in Agents : ~Puts(b, x)) /\ \A b \in Agents : ~Puts(b, x)'
      BY <1>2, <1>3, <2>2
    <3>. QED BY <1>1, <1>3, <3>1 DEF CommittedIsMemory
  <2>. QED BY <2>1, <2>2
<1>4. ASSUME Puts(a, x), ~Puts(a, x)'
      PROVE  abstractMem'[x] = mem'[x]
  <2>1. \A b \in Agents \ {a} : ~Puts(b, x)
    BY <1>4, PutsHolds, OneHolder
  <2>2. \A b \in Agents : ~Puts(b, x)'
    BY <1>2, <1>4, <2>1
  <2>. QED BY <1>1, <2>2 DEF CommittedIsMemory
<1>5. (Puts(a, x)' => abstractMem'[x] = val'[a]) /\ (Puts(a, x) => abstractMem[x] = val[a])
  BY <1>1 DEF CommittedIsMemory
<1>. QED BY <1>3, <1>4, <1>5

LEMMA MemoryStays ==
  ASSUME Inv, Inv', \A x \in Loc : abstractMem'[x] = abstractMem[x]
  PROVE  abstractMem' = abstractMem
BY DEF abstractMem

\* The abstract reservation of a thread.
LEMMA ReservedAt ==
  ASSUME NEW t \in Threads
  PROVE  /\ line[t] = Null => abstractReserved[t] = Null
         /\ \A l : line[t] = l /\ l # Null =>
              abstractReserved[t] = IF \E b \in Agents : Dooms(b, t, l) THEN Null ELSE l
BY DEF abstractReserved, doomed, Dooms

LEMMA ReservedAtNext ==
  ASSUME NEW t \in Threads
  PROVE  /\ line'[t] = Null => abstractReserved'[t] = Null
         /\ \A l : line'[t] = l /\ l # Null =>
              abstractReserved'[t] = IF \E b \in Agents : Dooms(b, t, l)' THEN Null ELSE l
BY DEF abstractReserved, doomed, Dooms, Writing, Hand

\* A thread keeps what it had unless the agent begins to write its line.
LEMMA ReservedStep ==
  ASSUME NEW a \in Agents, OthersStay(a), NEW t \in Threads, line'[t] = line[t],
         \A l : Dooms(a, t, l)' <=> Dooms(a, t, l)
  PROVE  abstractReserved'[t] = abstractReserved[t]
<1>1. CASE line[t] = Null
  BY <1>1, ReservedAt, ReservedAtNext
<1>2. CASE line[t] # Null
  <2>1. PICK l : l = line[t] /\ l # Null
    BY <1>2
  <2>2. \A b \in Agents : Dooms(b, t, l)' <=> Dooms(b, t, l)
    BY OthersPut
  <2>3. abstractReserved[t] = IF \E b \in Agents : Dooms(b, t, l) THEN Null ELSE l
    BY <2>1, ReservedAt
  <2>4. abstractReserved'[t] = IF \E b \in Agents : Dooms(b, t, l)' THEN Null ELSE l
    BY <2>1, ReservedAtNext
  <2>. QED BY <2>2, <2>3, <2>4
<1>. QED BY <1>1, <1>2

LEMMA ReservedStays ==
  ASSUME \A t \in Threads : abstractReserved'[t] = abstractReserved[t]
  PROVE  abstractReserved' = abstractReserved
BY DEF abstractReserved

\* The abstract view of a thread.
LEMMA ViewAt ==
  ASSUME NEW t \in Threads, NEW w \in Words
  PROVE  /\ \A l : line[t] = l =>
              abstractView[t][w] = IF l # Null /\ Puts(t, <<l, w>>) THEN val[t] ELSE view[t][w]
         /\ \A l : line'[t] = l =>
              abstractView'[t][w] = IF l # Null /\ Puts(t, <<l, w>>)' THEN val'[t] ELSE view'[t][w]
<1>1. t \in Agents
  BY DEF Agents
<1>. QED BY <1>1 DEF abstractView, committed, Puts, Left, Hand

\* A thread that keeps its reservation, or loses it while it is not copying to the
\* line, knows what it knew.
LEMMA ViewStep ==
  ASSUME NEW a \in Agents, OthersStay(a), NEW t \in Threads, NEW w \in Words,
         view'[t] = view[t],
         t # a \/ \A x : ~Puts(a, x) /\ ~Puts(a, x)',
         line'[t] = line[t] \/ (line'[t] = Null /\ ~Writing(t, line[t]))
  PROVE  abstractView'[t][w] = abstractView[t][w]
<1>0. t \in Agents
  BY DEF Agents
<1>1. PICK l : l = line[t]
  OBVIOUS
<1>2. abstractView[t][w] = IF l # Null /\ Puts(t, <<l, w>>) THEN val[t] ELSE view[t][w]
  BY <1>1, ViewAt
<1>3. (Puts(t, <<l, w>>)' <=> Puts(t, <<l, w>>)) /\ (t # a => val'[t] = val[t])
  BY <1>0, OthersPut DEF OthersStay
<1>4. CASE line'[t] = line[t]
  <2>1. abstractView'[t][w] = IF l # Null /\ Puts(t, <<l, w>>)' THEN val'[t] ELSE view'[t][w]
    BY <1>1, <1>4, ViewAt
  <2>. QED BY <1>2, <1>3, <2>1
<1>5. CASE line'[t] = Null /\ ~Writing(t, line[t])
  <2>1. ~Puts(t, <<l, w>>)
    BY <1>1, <1>5 DEF Puts, Left, Writing
  <2>2. abstractView'[t][w] = view'[t][w]
    BY <1>5, ViewAt
  <2>. QED BY <1>2, <2>1, <2>2
<1>. QED BY <1>4, <1>5

LEMMA ViewStays ==
  ASSUME \A t \in Threads, w \in Words : abstractView'[t][w] = abstractView[t][w]
  PROVE  abstractView' = abstractView
BY DEF abstractView

LEMMA StoringStays ==
  ASSUME NEW a \in Agents, OthersStay(a), pc[a] # "wc_copy", pc'[a] # "wc_copy"
  PROVE  abstractStoring' = abstractStoring
<1>1. \A t \in Threads : pc'[t] = "wc_copy" <=> pc[t] = "wc_copy"
  BY DEF OthersStay, Agents
<1>. QED BY <1>1 DEF abstractStoring

\* An agent that is not copying, before or after the step.
LEMMA NotCopying ==
  ASSUME NEW a, pc[a] \notin Copying
  PROVE  /\ \A x : ~Puts(a, x)
         /\ \A l : ~Writing(a, l)
         /\ \A t, l : ~Dooms(a, t, l)
BY DEF Puts, Writing, Dooms

LEMMA NotCopyingNext ==
  ASSUME NEW a, pc'[a] \notin Copying
  PROVE  /\ \A x : ~Puts(a, x)'
         /\ \A l : ~Writing(a, l)'
         /\ \A t, l : ~Dooms(a, t, l)'
BY DEF Puts, Writing, Dooms

\* A step away from copying that loses the reservations of some threads, whose lines
\* nobody is copying to.
LEMMA LosingStep ==
  ASSUME Inv, Inv', NEW a \in Agents, OthersStay(a),
         pc[a] \notin Copying, pc'[a] \notin Copying, mem' = mem, view' = view,
         NEW T \in SUBSET Threads,
         \A t \in Threads : line'[t] = IF t \in T THEN Null ELSE line[t],
         \A t \in T : ~Writing(t, line[t])
  PROVE  Atomic!Lose(T)
<1>1. /\ \A x : ~Puts(a, x) /\ ~Puts(a, x)'
      /\ \A t, l : Dooms(a, t, l)' <=> Dooms(a, t, l)
      /\ "wc_copy" \in Copying
  BY NotCopying, NotCopyingNext DEF Copying
<1>2. abstractMem' = abstractMem
  BY <1>1, MemoryStep, MemoryStays
<1>3. abstractStoring' = abstractStoring
  BY <1>1, StoringStays
<1>4. abstractView' = abstractView
  <2>. SUFFICES ASSUME NEW t \in Threads, NEW w \in Words
                PROVE  abstractView'[t][w] = abstractView[t][w]
    BY ViewStays
  <2>. QED BY <1>1, ViewStep
<1>5. \A t \in Threads : abstractReserved'[t] = IF t \in T THEN Null ELSE abstractReserved[t]
  BY <1>1, ReservedAtNext, ReservedStep
<1>6. abstractReserved' = [t \in Threads |-> IF t \in T THEN Null ELSE abstractReserved[t]]
  BY <1>5 DEF abstractReserved
<1>. QED BY <1>2, <1>3, <1>4, <1>6 DEF Atomic!Lose

\* A step away from copying that loses none.
LEMMA SilentStep ==
  ASSUME Inv, Inv', NEW a \in Agents, OthersStay(a),
         pc[a] \notin Copying, pc'[a] \notin Copying, mem' = mem, view' = view, line' = line
  PROVE  UNCHANGED Atomic!vars
<1>1. Atomic!Lose({})
  BY LosingStep
<1>2. abstractReserved' = abstractReserved
  BY <1>1 DEF Atomic!Lose, abstractReserved
<1>. QED BY <1>1, <1>2 DEF Atomic!Lose, Atomic!vars

\* What a thread has reserved is its line or nothing.
LEMMA ReservedLine ==
  ASSUME NEW t \in Threads
  PROVE  abstractReserved[t] \in {line[t], Null}
BY DEF abstractReserved

\* A write takes effect where its agent begins to copy the words of R, with the lock
\* of every line that has one of them.
LEMMA BeginWrite ==
  ASSUME Inv, Inv', NEW a \in Agents, OthersStay(a),
         pc[a] \notin Copying, pc'[a] \in Copying,
         mem' = mem, view' = view, line' = line, val'[a] = val[a],
         NEW R \in SUBSET Loc, R = Left(a)',
         \A l : l \in Hand(a)' => l \in LinesOf(R)
  PROVE  Atomic!Write(a, R, val[a], pc'[a] \notin {"wc_copy", "uc_copy"})
<1>. DEFINE keep == pc'[a] \notin {"wc_copy", "uc_copy"}
<1>1. /\ \A x : ~Puts(a, x)
      /\ \A t, l : ~Dooms(a, t, l)
  BY NotCopying
<1>2. /\ \A x : Puts(a, x)' <=> x \in R
      /\ \A l : Writing(a, l)' <=> l \in LinesOf(R)
      /\ LinesOf(R) \subseteq Lines
  <2>1. \A x \in R : x[1] \in Hand(a)'
    BY DEF Left
  <2>. QED BY <2>1 DEF Puts, Writing, LinesOf, Loc
<1>3. \A t, l : Dooms(a, t, l)' <=> l \in LinesOf(R) /\ ~(t = a /\ keep)
  BY <1>2 DEF Dooms
<1>4. ASSUME NEW b \in Agents \ {a}, NEW l \in LinesOf(R) PROVE ~Writing(b, l)
  <2>1. l \in Lines /\ Writing(a, l)'
    BY <1>2
  <2>2. Holds(a, l)'
    BY <2>1 DEF Writing, Holds, Hand, Copying, HoldsOne
  <2>3. \A c \in Agents : lock'[l] = c <=> Holds(c, l)'
    BY <2>1 DEF Inv, OwnInv, LockHeld
  <2>4. ~Holds(b, l)'
    BY <2>2, <2>3
  <2>5. ~Holds(b, l)
    BY <2>4, OthersPut
  <2>. QED BY <2>5, WriterHolds
<1>5. ASSUME NEW x \in Loc
      PROVE  abstractMem'[x] = IF x \in R THEN val[a] ELSE abstractMem[x]
  BY <1>1, <1>2, MemoryStep
<1>6. abstractMem' = [x \in Loc |-> IF x \in R THEN val[a] ELSE abstractMem[x]]
  BY <1>5 DEF abstractMem
<1>7. ASSUME NEW t \in Threads, line[t] \in LinesOf(R)
      PROVE  abstractReserved[t] = line[t]
  <2>1. PICK l \in LinesOf(R) : line[t] = l
    BY <1>7
  <2>2. l # Null /\ \A b \in Agents : ~Dooms(b, t, l)
    BY <1>1, <1>2, <1>4, LinesFacts DEF Dooms
  <2>. QED BY <2>1, <2>2, ReservedAt
<1>8. ASSUME NEW t \in Threads
      PROVE  abstractReserved'[t] = IF abstractReserved[t] \in LinesOf(R) /\ ~(t = a /\ keep)
                                    THEN Null ELSE abstractReserved[t]
  <2>1. PICK l : line[t] = l /\ line'[t] = l
    OBVIOUS
  <2>2. CASE l \in LinesOf(R)
    <3>1. abstractReserved[t] = l /\ l # Null
      BY <1>2, <1>7, <2>1, <2>2, LinesFacts
    <3>2. \A b \in Agents \ {a} : ~Dooms(b, t, l)'
      BY <1>4, <2>2, OthersPut DEF Dooms
    <3>3. abstractReserved'[t] = IF \E b \in Agents : Dooms(b, t, l)' THEN Null ELSE l
      BY <2>1, <3>1, ReservedAtNext
    <3>4. (\E b \in Agents : Dooms(b, t, l)') <=> ~(t = a /\ keep)
      BY <1>3, <2>2, <3>2
    <3>. QED BY <2>2, <3>1, <3>3, <3>4
  <2>3. CASE l \notin LinesOf(R)
    <3>1. abstractReserved[t] \notin LinesOf(R)
      BY <1>2, <2>1, <2>3, ReservedLine, LinesFacts
    <3>2. abstractReserved'[t] = abstractReserved[t]
      <4>1. CASE l = Null
        BY <2>1, <4>1, ReservedAt, ReservedAtNext
      <4>2. CASE l # Null
        <5>1. \A b \in Agents : Dooms(b, t, l)' <=> Dooms(b, t, l)
          BY <1>1, <1>3, <2>3, OthersPut
        <5>2. /\ abstractReserved[t] = IF \E b \in Agents : Dooms(b, t, l) THEN Null ELSE l
              /\ abstractReserved'[t] = IF \E b \in Agents : Dooms(b, t, l)' THEN Null ELSE l
          BY <2>1, <4>2, ReservedAt, ReservedAtNext
        <5>. QED BY <5>1, <5>2
      <4>. QED BY <4>1, <4>2
    <3>. QED BY <3>1, <3>2
  <2>. QED BY <2>2, <2>3
<1>9. abstractReserved' = [t \in Threads |->
                             IF abstractReserved[t] \in LinesOf(R) /\ ~(t = a /\ keep)
                             THEN Null ELSE abstractReserved[t]]
  BY <1>8 DEF abstractReserved
<1>10. ASSUME NEW t \in Threads, NEW w \in Words
       PROVE  abstractView'[t][w] = IF t = a /\ <<abstractReserved[t], w>> \in R
                                    THEN val[a] ELSE abstractView[t][w]
  <2>1. CASE t # a
    BY <2>1, ViewStep
  <2>2. CASE t = a
    <3>1. PICK l : line[t] = l /\ line'[t] = l
      OBVIOUS
    <3>2. /\ abstractView[t][w] = view[t][w]
          /\ abstractView'[t][w] = IF l # Null /\ Puts(t, <<l, w>>)' THEN val'[t] ELSE view[t][w]
      BY <1>1, <2>2, <3>1, ViewAt
    <3>3. /\ \A y : <<y, w>> \in R => y \in LinesOf(R) /\ y # Null
      BY <1>2, LinesFacts DEF LinesOf
    <3>4. <<abstractReserved[t], w>> \in R <=> l # Null /\ <<l, w>> \in R
      BY <1>7, <3>1, <3>3, ReservedLine
    <3>. QED BY <1>2, <2>2, <3>2, <3>4
  <2>. QED BY <2>1, <2>2
<1>11. abstractView' = [t \in Threads |-> [w \in Words |->
                          IF t = a /\ <<abstractReserved[t], w>> \in R THEN val[a] ELSE abstractView[t][w]]]
  BY <1>10 DEF abstractView
<1>. QED BY <1>6, <1>9, <1>11 DEF Atomic!Write, Atomic!Loc, Loc, LinesOf

\* A write is over for its agent: what it has promised is in memory, and it takes
\* the reservations that counted as lost.
LEMMA EndWrite ==
  ASSUME Inv, Inv', NEW a \in Agents, OthersStay(a),
         pc[a] \in Copying, Left(a) = {}, pc'[a] \notin Copying,
         mem' = mem, view' = view,
         \A t \in Threads : line'[t] = IF \E l \in Lines : line[t] = l /\ Dooms(a, t, l)
                                       THEN Null ELSE line[t]
  PROVE  /\ abstractMem' = abstractMem
         /\ abstractReserved' = abstractReserved
         /\ abstractView' = abstractView
<1>1. /\ \A x : ~Puts(a, x) /\ ~Puts(a, x)'
      /\ \A t, l : ~Dooms(a, t, l)'
  BY NotCopyingNext DEF Puts
<1>2. abstractMem' = abstractMem
  BY <1>1, MemoryStep, MemoryStays
<1>3. ASSUME NEW t \in Threads PROVE abstractReserved'[t] = abstractReserved[t]
  <2>1. PICK l \in Lines \cup {Null} : line[t] = l
    BY DEF Inv, TypeOK
  <2>2. CASE l \in Lines /\ Dooms(a, t, l)
    <3>1. line'[t] = Null /\ l # Null
      BY <2>1, <2>2, LinesFacts
    <3>. QED BY <2>1, <2>2, <3>1, ReservedAt, ReservedAtNext
  <2>3. CASE ~(l \in Lines /\ Dooms(a, t, l))
    <3>1. line'[t] = l
      BY <2>1, <2>3
    <3>2. CASE l = Null
      BY <2>1, <3>1, <3>2, ReservedAt, ReservedAtNext
    <3>3. CASE l # Null
      <4>1. \A b \in Agents : Dooms(b, t, l)' <=> Dooms(b, t, l)
        BY <1>1, <2>3, <3>3, OthersPut
      <4>2. /\ abstractReserved[t] = IF \E b \in Agents : Dooms(b, t, l) THEN Null ELSE l
            /\ abstractReserved'[t] = IF \E b \in Agents : Dooms(b, t, l)' THEN Null ELSE l
        BY <2>1, <3>1, <3>3, ReservedAt, ReservedAtNext
      <4>. QED BY <4>1, <4>2
    <3>. QED BY <3>2, <3>3
  <2>. QED BY <2>2, <2>3
<1>4. ASSUME NEW t \in Threads, NEW w \in Words PROVE abstractView'[t][w] = abstractView[t][w]
  <2>1. CASE line'[t] = line[t]
    BY <1>1, <2>1, ViewStep
  <2>2. CASE line'[t] # line[t]
    <3>1. PICK l \in Lines : line[t] = l /\ Dooms(a, t, l)
      BY <2>2
    <3>2. line'[t] = Null
      BY <3>1
    <3>3. CASE t = a
      <4>1. abstractView[t][w] = view[t][w] /\ abstractView'[t][w] = view'[t][w]
        BY <1>1, <3>1, <3>2, <3>3, ViewAt
      <4>. QED BY <4>1
    <3>4. CASE t # a
      <4>1. ~Writing(t, l)
        BY <3>1, <3>4, WriterHolds, OneHolder DEF Dooms, Agents
      <4>. QED BY <3>1, <3>2, <3>4, <4>1, ViewStep
    <3>. QED BY <3>3, <3>4
  <2>. QED BY <2>1, <2>2
<1>. QED BY <1>2, <1>3, <1>4, ReservedStays, ViewStays

\* A word goes from promise to memory.
LEMMA WriteWordStep ==
  ASSUME Inv, Inv', NEW a \in Agents, WriteWord(a)
  PROVE  UNCHANGED Atomic!vars
<1>1. PICK x \in Left(a) :
        /\ mem' = [mem EXCEPT ![x] = val[a]]
        /\ todo' = [todo EXCEPT ![a] = @ \ {x}]
        /\ view' = IF a \in Threads /\ line[a] = x[1]
                   THEN [view EXCEPT ![a][x[2]] = val[a]] ELSE view
  BY DEF WriteWord
<1>2. pc[a] \in Copying /\ UNCHANGED <<line, pc, cur, oth, val>>
  BY DEF WriteWord
<1>3. x \in Loc /\ x \in todo[a] /\ TypeOK /\ Puts(a, x)
  BY <1>2 DEF Inv, TypeOK, Left, Puts
<1>4. /\ todo'[a] = todo[a] \ {x} /\ \A b \in Agents \ {a} : todo'[b] = todo[b]
      /\ mem'[x] = val[a] /\ \A y \in Loc \ {x} : mem'[y] = mem[y]
  BY <1>1, <1>3 DEF TypeOK
<1>5. x = <<x[1], x[2]>> /\ x[1] \in Lines /\ x[2] \in Words
  BY <1>3 DEF Loc
<1>6. /\ \A t \in Threads \ {a} : view'[t] = view[t]
      /\ a \in Threads /\ line[a] = x[1] =>
           \A w \in Words : view'[a][w] = IF w = x[2] THEN val[a] ELSE view[a][w]
      /\ a \in Threads /\ line[a] # x[1] => view'[a] = view[a]
  BY <1>1, <1>3, <1>5 DEF TypeOK
<1>7. OthersStay(a)
  BY <1>2, <1>4, <1>6 DEF OthersStay
<1>8. \A y : Puts(a, y)' <=> Puts(a, y) /\ y # x
  BY <1>2, <1>4 DEF Puts, Left, Hand
<1>9. abstractMem' = abstractMem
  <2>1. ASSUME NEW y \in Loc PROVE abstractMem'[y] = abstractMem[y]
    BY <1>2, <1>3, <1>4, <1>7, <1>8, MemoryStep
  <2>. QED BY <2>1, MemoryStays
<1>10. abstractReserved' = abstractReserved
  <2>1. \A t, l : Dooms(a, t, l)' <=> Dooms(a, t, l)
    BY <1>2 DEF Dooms, Writing, Hand
  <2>. QED BY <1>2, <1>7, <2>1, ReservedStep, ReservedStays
<1>11. abstractView' = abstractView
  <2>. SUFFICES ASSUME NEW t \in Threads, NEW w \in Words
                PROVE  abstractView'[t][w] = abstractView[t][w]
    BY ViewStays
  <2>1. CASE t # a
    BY <1>2, <1>6, <1>7, <2>1, ViewStep
  <2>2. CASE t = a
    <3>1. PICK l : line[t] = l /\ line'[t] = l
      BY <1>2
    <3>2. /\ abstractView[t][w] = IF l # Null /\ Puts(t, <<l, w>>) THEN val[t] ELSE view[t][w]
          /\ abstractView'[t][w] = IF l # Null /\ Puts(t, <<l, w>>)' THEN val'[t] ELSE view'[t][w]
      BY <3>1, ViewAt
    <3>3. x[1] # Null /\ (<<l, w>> = x <=> l = x[1] /\ w = x[2])
      BY <1>5, LinesFacts
    <3>4. view'[t][w] = IF <<l, w>> = x THEN val[t] ELSE view[t][w]
      BY <1>6, <2>2, <3>1, <3>3
    <3>. QED BY <1>2, <1>3, <1>8, <2>2, <3>2, <3>3, <3>4
  <2>. QED BY <2>1, <2>2
<1>12. abstractStoring' = abstractStoring
  BY <1>2 DEF abstractStoring
<1>. QED BY <1>9, <1>10, <1>11, <1>12 DEF Atomic!vars

\* loadReserve takes effect where it registers the reservation, with what it copied:
\* nobody has written the line since it took the lock.
LEMMA ReserveStep ==
  ASSUME Inv, Inv', NEW t \in Threads, LrReserve(t)
  PROVE  \E l \in Lines, R \in SUBSET Loc : Atomic!Reserve(t, l, R)
<1>0. t \in Agents /\ TypeOK /\ OwnInv(t)
  BY DEF Inv, Agents
<1>1. PICK l \in Lines : cur[t] = l
  BY <1>0 DEF LrReserve, OwnInv, LocalsShaped, Unlocked
<1>2. /\ pc[t] = "lr_copy" /\ pc'[t] = "idle" /\ mem' = mem
      /\ line'[t] = l /\ \A u \in Threads \ {t} : line'[u] = line[u] /\ view'[u] = view[u]
      /\ view'[t] = buf[t]
  BY <1>0, <1>1 DEF LrReserve, Return, Goto, TypeOK
<1>3. OthersStay(t)
  BY <1>0, <1>2, ReturnEffect DEF LrReserve, OthersStay
<1>4. /\ \A x : ~Puts(t, x) /\ ~Puts(t, x)'
      /\ \A u, k : ~Dooms(t, u, k) /\ ~Dooms(t, u, k)'
      /\ pc[t] # "wc_copy" /\ pc'[t] # "wc_copy"
  BY <1>2, NotCopying, NotCopyingNext DEF Copying
<1>5. \A b \in Agents : ~Writing(b, l)
  <2>1. Holds(t, l)
    BY <1>1, <1>2 DEF Holds, HoldsOne
  <2>. QED BY <1>0, <1>2, <2>1, OneHolder, WriterHolds DEF Writing, Copying
<1>. DEFINE R == {x \in Loc : x[1] = l /\ buf[t][x[2]] # Null}
<1>6. \A w \in Words : /\ <<l, w>> \in Loc
                       /\ <<l, w>> \in R <=> buf[t][w] # Null
  BY DEF Loc
<1>7. abstractMem' = abstractMem
  BY <1>2, <1>3, <1>4, <1>0, MemoryStep, MemoryStays
<1>8. abstractReserved' = [abstractReserved EXCEPT ![t] = l]
  <2>1. abstractReserved'[t] = l
    <3>1. l # Null /\ \A b \in Agents : ~Dooms(b, t, l)'
      BY <1>0, <1>3, <1>4, <1>5, OthersPut, LinesFacts DEF Dooms
    <3>. QED BY <1>2, <3>1, ReservedAtNext
  <2>2. \A u \in Threads \ {t} : abstractReserved'[u] = abstractReserved[u]
    BY <1>0, <1>2, <1>3, <1>4, ReservedStep
  <2>. QED BY <2>1, <2>2 DEF abstractReserved
<1>9. ASSUME NEW w \in Words
      PROVE  abstractView'[t][w] = IF <<l, w>> \in R THEN abstractMem[<<l, w>>] ELSE Null
  <2>1. abstractView'[t][w] = buf[t][w]
    BY <1>2, <1>4, ViewAt
  <2>2. abstractMem[<<l, w>>] = mem[<<l, w>>]
    <3>1. \A b \in Agents : ~Puts(b, <<l, w>>)
      BY <1>5 DEF Puts, Left, Writing
    <3>. QED BY <1>6, <3>1, AbstractMemory DEF CommittedIsMemory
  <2>3. buf[t][w] \in {Null, mem[<<l, w>>]}
    BY <1>0, <1>1, <1>2 DEF OwnInv, BufferFaithful
  <2>. QED BY <1>6, <2>1, <2>2, <2>3
<1>10. abstractView' = [abstractView EXCEPT ![t] =
                          [w \in Words |-> IF <<l, w>> \in R THEN abstractMem[<<l, w>>] ELSE Null]]
  <2>1. \A u \in Threads \ {t}, w \in Words : abstractView'[u][w] = abstractView[u][w]
    BY <1>0, <1>2, <1>3, ViewStep
  <2>. DEFINE V == [w \in Words |-> IF <<l, w>> \in R THEN abstractMem[<<l, w>>] ELSE Null]
  <2>. HIDE DEF R
  <2>2. abstractView'[t] = [w \in Words |-> abstractView'[t][w]]
    BY DEF abstractView
  <2>3. abstractView'[t] = V
    BY <1>9, <2>2
  <2>4. ASSUME NEW u \in Threads \ {t} PROVE abstractView'[u] = abstractView[u]
    <3>1. /\ abstractView'[u] = [w \in Words |-> abstractView'[u][w]]
          /\ abstractView[u] = [w \in Words |-> abstractView[u][w]]
      BY DEF abstractView
    <3>. QED BY <2>1, <3>1
  <2>5. /\ abstractView' = [u \in Threads |-> abstractView'[u]]
        /\ abstractView = [u \in Threads |-> abstractView[u]]
    BY DEF abstractView
  <2>. HIDE DEF V
  <2>6. abstractView' = [abstractView EXCEPT ![t] = V]
    BY <2>3, <2>4, <2>5
  <2>. QED BY <2>6 DEF V
<1>11. abstractStoring' = abstractStoring
  BY <1>0, <1>3, <1>4, StoringStays
<1>12. R \subseteq {l} \X Words
  BY DEF Loc
<1>13. Atomic!Reserve(t, l, R)
  <2>. HIDE DEF R
  <2>. QED BY <1>7, <1>8, <1>10, <1>11, <1>12 DEF Atomic!Reserve
<1>. QED BY <1>13
-----------------------------------------------------------------------------
(* The steps of the program.                                               *)

\* The agent touches neither memory nor reservations, and does not copy yet.
Prepares(a) ==
  /\ OthersStay(a) /\ Aimed(a)'
  /\ pc[a] \notin Copying /\ pc'[a] \notin Copying
  /\ mem' = mem /\ view' = view /\ line' = line

LEMMA CallEffect ==
  ASSUME Inv, NEW a \in Agents, Call(a)
  PROVE  Prepares(a)
<1>1. TypeOK
  BY DEF Inv
<1>2. ASSUME NEW op, NEW where, NEW l, NEW second, NEW R, NEW v,
             Begin(a, op, where, l, second, R, v), where \notin Copying,
             UNCHANGED <<mem, view, line>>,
             where \in {"wc_lock", "uc_lock", "wc_check", "st_lock", "st_next", "wm_lock"}
               => l \in LinesOf(R) /\ (second # Null => second \in LinesOf(R))
      PROVE  Prepares(a)
  <2>1. /\ pc[a] = "idle" /\ pc'[a] = where /\ cur'[a] = l /\ oth'[a] = second /\ todo'[a] = R
        /\ OthersStay(a)
    BY <1>1, <1>2, BeginLocals DEF OthersStay
  <2>2. Aimed(a)'
    BY <1>2, <2>1 DEF Aimed, LinesOf
  <2>. QED BY <1>2, <2>1, <2>2 DEF Prepares, Copying
<1>3. ASSUME a \in Threads, NEW R \in ReservedLocs(a), LoadReserve(a, R)
      PROVE  Prepares(a)
  <2>1. CASE line[a] # Null
    BY <1>2, <1>3, <2>1 DEF LoadReserve, shared, Copying
  <2>2. CASE line[a] = Null
    BY <1>2, <1>3, <2>2 DEF LoadReserve, shared, Copying
  <2>. QED BY <2>1, <2>2
<1>4. ASSUME a \in Threads, NEW R \in ReservedLocs(a), NEW v \in Gives[a], WriteCond(a, R, v)
      PROVE  Prepares(a)
  <2>1. R \in SUBSET Loc /\ R # {}
    <3>1. 1 \in Words
      BY ConstantsAssumption DEF Words
    <3>2. R # {}
      <4>1. ASSUME NEW l \in Lines PROVE LineLocs(l) # {}
        <5>1. <<l, 1>> \in LineLocs(l)
          BY <3>1 DEF LineLocs
        <5>. QED BY <5>1
      <4>. QED BY <1>4, <4>1 DEF ReservedLocs
    <3>. QED BY <1>4, <3>2, ReservedLocsFacts
  <2>2. FirstLine(R) \in LinesOf(R)
    BY <2>1, FirstLineExists
  <2>. QED BY <1>2, <1>4, <2>2 DEF WriteCond, shared, Copying
<1>5. ASSUME a \in Threads, NEW l \in Lines, NEW v \in Gives[a], WriteUncond(a, LineLocs(l), v)
      PROVE  Prepares(a)
  <2>1. 1 \in Words
    BY ConstantsAssumption DEF Words
  <2>2. LineLocs(l) \in SUBSET Loc /\ <<l, 1>> \in LineLocs(l)
    BY <2>1, LineLocsFacts DEF LineLocs
  <2>3. FirstLine(LineLocs(l)) \in LinesOf(LineLocs(l))
    BY <2>2, FirstLineExists
  <2>. QED BY <1>2, <1>5, <2>3 DEF WriteUncond, shared, Copying
<1>6. ASSUME NEW R \in ScalarLocs, NEW v \in Gives[a], Store(a, R, v)
      PROVE  Prepares(a)
  <2>. DEFINE f == FirstLine(R)
              n == IF LinesOf(R) = {f} THEN Null ELSE f + 1
  <2>1. f \in LinesOf(R) /\ (n # Null => n \in LinesOf(R))
    <3>1. CASE \E x \in Loc : R = {x}
      <4>1. PICK x \in Loc : R = {x}
        BY <3>1
      <4>2. R \in SUBSET Loc /\ R # {} /\ LinesOf(R) = {x[1]}
        BY <4>1 DEF LinesOf
      <4>3. f \in LinesOf(R)
        BY <4>2, FirstLineExists
      <4>. QED BY <4>2, <4>3
    <3>2. CASE \E l \in 0 .. NLines - 2 : R = {<<l, NWords>>, <<l + 1, 1>>}
      <4>1. PICK l \in 0 .. NLines - 2 : R = {<<l, NWords>>, <<l + 1, 1>>}
        BY <3>2
      <4>2. R \in SUBSET Loc
        BY ScalarLocsFacts
      <4>3. LinesOf(R) = {l, l + 1} /\ R # {} /\ l \in Int
        BY <4>1, ConstantsAssumption DEF LinesOf
      <4>4. f \in LinesOf(R) /\ \A k \in LinesOf(R) : f <= k
        <5>1. l \in LinesOf(R) /\ \A k \in LinesOf(R) : l <= k
          BY <4>3
        <5>. QED BY <5>1 DEF FirstLine
      <4>5. f = l
        BY <4>3, <4>4
      <4>. QED BY <4>3, <4>5
    <3>. QED BY <3>1, <3>2 DEF ScalarLocs
  <2>2. Begin(a, "store", "st_lock", f, n, R, v) /\ UNCHANGED <<mem, view, line>>
    BY <1>6 DEF Store, shared
  <2>. HIDE DEF f, n
  <2>. QED BY <1>2, <2>1, <2>2 DEF Copying
<1>7. ASSUME NEW R \in Blocks, NEW v \in Gives[a], WriteMemory(a, R, v)
      PROVE  Prepares(a)
  <2>1. FirstLine(R) \in LinesOf(R)
    BY FirstLineExists DEF Blocks
  <2>. QED BY <1>2, <1>7, <2>1 DEF WriteMemory, Copying
<1>8. ASSUME NEW R \in Blocks, ReadMemory(a, R)
      PROVE  Prepares(a)
  BY <1>2, <1>8 DEF ReadMemory, shared, Copying
<1>9. ASSUME a \in Threads, Acknowledge(a)
      PROVE  Prepares(a)
  BY <1>9 DEF Acknowledge, local, Prepares, OthersStay, Aimed, Copying
<1>10. ASSUME a \in Threads, Destroy(a)
       PROVE  Prepares(a)
  <2>1. CASE line[a] # Null
    BY <1>2, <1>10, <2>1 DEF Destroy, shared, Copying
  <2>2. CASE line[a] = Null
    BY <1>2, <1>10, <2>2 DEF Destroy, shared, Copying
  <2>. QED BY <2>1, <2>2
<1>. QED BY <1>3, <1>4, <1>5, <1>6, <1>7, <1>8, <1>9, <1>10 DEF Call

\* The other steps of a call that touch neither memory nor reservations.
LEMMA ReturnPrepares ==
  ASSUME Inv, NEW a \in Agents, Return(a), pc[a] \notin Copying, UNCHANGED <<mem, view, line>>
  PROVE  Prepares(a)
<1>1. pc'[a] = "idle" /\ OthersStay(a)
  BY ReturnEffect DEF Inv, OthersStay
<1>. QED BY <1>1 DEF Prepares, Aimed, Copying

LEMMA MovePrepares ==
  ASSUME Inv, NEW a \in Agents, Aimed(a), NEW where, pc' = [pc EXCEPT ![a] = where],
         pc[a] \notin Copying, where \notin Copying,
         UNCHANGED <<mem, view, line, cur, oth, todo, val>>,
         \/ where \in {"lr_drop", "lr_copy", "rg_clear", "idle"}
         \/ pc[a] = "wc_lock" /\ where = "wc_check"
         \/ pc[a] = "st_lock" /\ where = "st_next"
  PROVE  Prepares(a)
<1>1. pc'[a] = where /\ \A b \in Agents \ {a} : pc'[b] = pc[b]
  BY DEF Inv, TypeOK
<1>2. OthersStay(a)
  BY <1>1 DEF OthersStay
<1>3. Aimed(a)'
  BY <1>1 DEF Aimed
<1>. QED BY <1>1, <1>2, <1>3 DEF Prepares

LEMMA QuietSteps ==
  ASSUME Inv, NEW a \in Agents, Aimed(a),
         \/ ReadWord(a) \/ Mark(a) \/ RmReturn(a)
         \/ StLock(a) /\ oth[a] # Null
         \/ /\ a \in Threads
            /\ \/ LrLockOld(a) \/ LrLock(a) \/ WcFail(a) \/ RgLock(a) \/ Create(a)
               \/ WcLock(a) /\ pc[a] = "wc_lock"
  PROVE  Prepares(a)
<1>1. CASE ReadWord(a)
  <2>1. /\ pc[a] \in {"lr_copy", "rm_copy"} /\ UNCHANGED <<mem, line, pc, cur, oth, val, view>>
        /\ \A b \in Agents \ {a} : todo'[b] = todo[b]
    BY <1>1 DEF ReadWord, shared, Inv, TypeOK
  <2>2. OthersStay(a)
    BY <2>1 DEF OthersStay
  <2>. QED BY <2>1, <2>2 DEF Prepares, Aimed, Copying
<1>2. CASE Mark(a) \/ RmReturn(a) \/ (a \in Threads /\ WcFail(a))
  BY <1>2, ReturnPrepares DEF Mark, RmReturn, WcFail, shared, Copying
<1>3. CASE StLock(a) /\ oth[a] # Null
  BY <1>3, MovePrepares DEF StLock, Goto, Copying
<1>4. CASE a \in Threads /\ (LrLockOld(a) \/ LrLock(a) \/ RgLock(a))
  BY <1>4, MovePrepares DEF LrLockOld, LrLock, RgLock, Goto, Copying
<1>5. CASE a \in Threads /\ WcLock(a) /\ pc[a] = "wc_lock"
  <2>1. /\ pc' = [pc EXCEPT ![a] = "wc_check"] /\ pc[a] = "wc_lock"
        /\ UNCHANGED <<mem, view, line, cur, oth, todo, val>>
    BY <1>5 DEF WcLock, Goto
  <2>2. "wc_check" \notin Copying /\ pc[a] \notin Copying
    BY <2>1 DEF Copying
  <2>. QED BY <2>1, <2>2, MovePrepares
<1>6. CASE a \in Threads /\ Create(a)
  <2>1. line[a] = Null
    BY <1>6 DEF Create, Inv, OwnInv, ReservationPlaced
  <2>2. line' = line
    BY <1>6, <2>1 DEF Create, Inv, TypeOK
  <2>. QED BY <1>6, <2>2, MovePrepares DEF Create, Goto, Copying
<1>. QED BY <1>1, <1>2, <1>3, <1>4, <1>5, <1>6

\* The steps that begin to copy.
LEMMA BeginSteps ==
  ASSUME Inv, Inv', NEW a \in Agents, Aimed(a),
         \/ StLock(a) /\ oth[a] = Null
         \/ StLockNext(a) \/ WmLock(a)
         \/ WcLock(a) /\ pc[a] = "uc_lock"
         \/ WcReserved(a)
  PROVE  /\ OthersStay(a) /\ Aimed(a)'
         /\ pc[a] \notin Copying /\ pc'[a] = IF pc[a] = "wc_check" THEN "wc_copy"
                                             ELSE IF pc[a] = "uc_lock" THEN "uc_copy"
                                             ELSE IF pc[a] = "wm_lock" THEN "wm_copy" ELSE "st_copy"
         /\ \E R \in SUBSET Loc : /\ \A x \in R : x \in todo[a] /\ x[1] \in Hand(a)'
                                  /\ Atomic!Write(a, R, val[a], pc'[a] \notin {"wc_copy", "uc_copy"})
<1>1. /\ pc[a] \in {"st_lock", "st_next", "wm_lock", "uc_lock", "wc_check"}
      /\ pc[a] = "st_lock" => oth[a] = Null
      /\ pc' = [pc EXCEPT ![a] = IF pc[a] = "wc_check" THEN "wc_copy"
                                 ELSE IF pc[a] = "uc_lock" THEN "uc_copy"
                                 ELSE IF pc[a] = "wm_lock" THEN "wm_copy" ELSE "st_copy"]
      /\ UNCHANGED <<mem, view, line, cur, oth, todo, val>>
  BY DEF StLock, StLockNext, WmLock, WcLock, WcReserved, Goto, shared
<1>2. /\ pc[a] \notin Copying
      /\ pc'[a] = IF pc[a] = "wc_check" THEN "wc_copy"
                  ELSE IF pc[a] = "uc_lock" THEN "uc_copy"
                  ELSE IF pc[a] = "wm_lock" THEN "wm_copy" ELSE "st_copy"
      /\ \A b \in Agents \ {a} : pc'[b] = pc[b]
  BY <1>1 DEF Inv, TypeOK, Copying
<1>3. OthersStay(a) /\ Aimed(a)' /\ pc'[a] \in Copying
  BY <1>1, <1>2 DEF OthersStay, Aimed, Copying
<1>4. PICK R : R = Left(a)'
  OBVIOUS
<1>5. R \in SUBSET Loc /\ \A x \in R : x \in todo[a] /\ x[1] \in Hand(a)'
  BY <1>1, <1>4 DEF Left, Inv, TypeOK
<1>6. \A l : l \in Hand(a)' => l \in LinesOf(R)
  <2>1. ASSUME NEW l, l \in Hand(a)' PROVE \E x \in todo[a] : x[1] = l
    BY <1>1, <1>2, <2>1 DEF Aimed, Hand
  <2>. QED BY <1>1, <1>4, <2>1 DEF Left, LinesOf
<1>7. Atomic!Write(a, R, val[a], pc'[a] \notin {"wc_copy", "uc_copy"})
  BY <1>1, <1>2, <1>3, <1>4, <1>5, <1>6, BeginWrite
<1>. QED BY <1>2, <1>3, <1>5, <1>7

\* The steps that end a copy.  A conditional write tells its thread of the success.
LEMMA WcCommitStep ==
  ASSUME Inv, Inv', NEW t \in Threads, WcCommit(t)
  PROVE  /\ OthersStay(t) /\ Aimed(t)'
         /\ pc[t] = "wc_copy" => Atomic!Stored(t)
         /\ pc[t] # "wc_copy" => UNCHANGED Atomic!vars
<1>0. t \in Agents /\ TypeOK /\ ReservationLinked /\ OwnInv(t)
  BY DEF Inv, Agents
<1>1. PICK l : l = cur[t]
  OBVIOUS
<1>2. /\ pc[t] \in {"wc_copy", "uc_copy"} /\ pc[t] \in Copying /\ l \in Lines
      /\ Hand(t) = {l} /\ todo[t] = {}
  BY <1>0, <1>1 DEF WcCommit, OwnInv, LocalsShaped, Unlocked, Copying, Hand
<1>3. /\ pc'[t] = "mark" /\ \A u \in Agents \ {t} : pc'[u] = pc[u]
      /\ UNCHANGED <<mem, view, cur, oth, todo, val>>
      /\ DestroySingleLine(t, l)
  BY <1>0, <1>1 DEF WcCommit, Goto, TypeOK
<1>4. OthersStay(t) /\ Aimed(t)' /\ pc'[t] \notin Copying
  BY <1>3 DEF OthersStay, Aimed, Copying
<1>5. \A u \in Threads : line'[u] = IF line[u] = l THEN Null ELSE line[u]
  BY <1>0, <1>2, <1>3, DestroySingleLineEffect
<1>6. \A u, k : Dooms(t, u, k) <=> k = l
  BY <1>2 DEF Dooms, Writing
<1>7. \A u \in Threads : line'[u] = IF \E k \in Lines : line[u] = k /\ Dooms(t, u, k)
                                    THEN Null ELSE line[u]
  BY <1>2, <1>5, <1>6
<1>8. Left(t) = {}
  BY <1>2 DEF Left
<1>9. /\ abstractMem' = abstractMem
      /\ abstractReserved' = abstractReserved
      /\ abstractView' = abstractView
  BY <1>0, <1>2, <1>3, <1>4, <1>7, <1>8, EndWrite
<1>10. ASSUME pc[t] = "wc_copy" PROVE Atomic!Stored(t)
  <2>1. abstractStoring' = abstractStoring \ {t}
    <3>1. \A u \in Threads : pc'[u] = "wc_copy" <=> pc[u] = "wc_copy" /\ u # t
      BY <1>3 DEF Agents
    <3>. QED BY <3>1 DEF abstractStoring
  <2>. QED BY <1>9, <2>1 DEF Atomic!Stored
<1>11. ASSUME pc[t] # "wc_copy" PROVE UNCHANGED Atomic!vars
  <2>1. abstractStoring' = abstractStoring
    BY <1>0, <1>3, <1>4, <1>11, StoringStays
  <2>. QED BY <1>9, <2>1 DEF Atomic!vars
<1>. QED BY <1>4, <1>10, <1>11

\* A plain write or a line of a block takes the reservations of the others.
LEMMA PlainCommitStep ==
  ASSUME Inv, Inv', NEW a \in Agents, pc[a] \in {"st_copy", "wm_copy"}, Left(a) = {},
         NEW ls \in SUBSET Lines, ls = Hand(a), DestroyExcept(a, ls),
         OthersStay(a), pc'[a] \notin Copying, mem' = mem, view' = view
  PROVE  UNCHANGED Atomic!vars
<1>1. \A u \in Threads : line'[u] = IF line[u] \in ls /\ u # a THEN Null ELSE line[u]
  BY DestroyExceptEffect DEF Inv
<1>2. pc[a] \in Copying /\ pc[a] # "wc_copy" /\ pc'[a] # "wc_copy"
  BY DEF Copying
<1>3. \A u, k : Dooms(a, u, k) <=> k \in ls /\ u # a
  BY <1>2 DEF Dooms, Writing
<1>4. \A u \in Threads : line'[u] = IF \E k \in Lines : line[u] = k /\ Dooms(a, u, k)
                                    THEN Null ELSE line[u]
  BY <1>1, <1>3
<1>5. /\ abstractMem' = abstractMem
      /\ abstractReserved' = abstractReserved
      /\ abstractView' = abstractView
  BY <1>2, <1>4, EndWrite
<1>6. abstractStoring' = abstractStoring
  BY <1>2, StoringStays
<1>. QED BY <1>5, <1>6 DEF Atomic!vars

LEMMA PlainCommits ==
  ASSUME Inv, Inv', NEW a \in Agents, StCommit(a) \/ WmCommit(a)
  PROVE  OthersStay(a) /\ Aimed(a)' /\ UNCHANGED Atomic!vars
<1>0. TypeOK /\ OwnInv(a)
  BY DEF Inv
<1>1. CASE StCommit(a)
  <2>1. /\ pc[a] = "st_copy" /\ pc'[a] = "mark" /\ todo[a] = {}
        /\ \A b \in Agents \ {a} : pc'[b] = pc[b]
        /\ UNCHANGED <<mem, view, cur, oth, todo, val>>
    BY <1>0, <1>1 DEF StCommit, Goto, TypeOK
  <2>2. OthersStay(a) /\ Aimed(a)' /\ pc'[a] \notin Copying
    BY <2>1 DEF OthersStay, Aimed, Copying
  <2>3. PICK ls : ls = Hand(a)
    OBVIOUS
  <2>4. ls \in SUBSET Lines /\ Left(a) = {} /\ DestroyExcept(a, ls)
    <3>1. cur[a] \in Lines /\ oth[a] \in Lines \cup {Null}
      BY <1>0, <2>1 DEF OwnInv, LocalsShaped, Unlocked, TypeOK
    <3>. QED BY <1>1, <2>1, <2>3, <3>1 DEF StCommit, Hand, Left
  <2>5. UNCHANGED Atomic!vars
    BY <2>1, <2>2, <2>3, <2>4, PlainCommitStep
  <2>. QED BY <2>2, <2>5
<1>2. CASE WmCommit(a)
  <2>1. pc[a] = "wm_copy" /\ Left(a) = {} /\ UNCHANGED <<mem, view>>
    BY <1>2 DEF WmCommit
  <2>2. OthersStay(a) /\ Aimed(a)' /\ pc'[a] \notin Copying
    <3>1. CASE todo[a] = {}
      <4>1. Return(a)
        BY <1>2, <3>1 DEF WmCommit
      <4>2. pc'[a] = "idle" /\ OthersStay(a)
        BY <1>0, <2>1, <4>1, ReturnEffect DEF OthersStay
      <4>. QED BY <4>2 DEF Aimed, Copying
    <3>2. CASE todo[a] # {}
      <4>1. PICK f : f = FirstLine(todo[a])
        OBVIOUS
      <4>2. /\ pc'[a] = "wm_lock" /\ cur'[a] = f
            /\ \A b \in Agents \ {a} : pc'[b] = pc[b] /\ cur'[b] = cur[b]
            /\ UNCHANGED <<oth, todo, val>>
        BY <1>0, <1>2, <3>2, <4>1 DEF WmCommit, Goto, TypeOK
      <4>3. f \in LinesOf(todo[a])
        BY <1>0, <3>2, <4>1, FirstLineExists DEF TypeOK
      <4>4. OthersStay(a)
        BY <2>1, <4>2 DEF OthersStay
      <4>5. Aimed(a)'
        BY <4>2, <4>3 DEF Aimed, LinesOf
      <4>. QED BY <4>2, <4>4, <4>5 DEF Copying
    <3>. QED BY <3>1, <3>2
  <2>3. PICK ls : ls = Hand(a)
    OBVIOUS
  <2>4. ls \in SUBSET Lines /\ DestroyExcept(a, ls)
    <3>1. cur[a] \in Lines
      BY <1>0, <2>1 DEF OwnInv, LocalsShaped, Unlocked
    <3>. QED BY <1>2, <2>1, <2>3, <3>1 DEF WmCommit, Hand
  <2>5. UNCHANGED Atomic!vars
    BY <2>1, <2>2, <2>3, <2>4, PlainCommitStep
  <2>. QED BY <2>2, <2>5
<1>. QED BY <1>1, <1>2

\* The steps that lose reservations without writing: a thread gives up its old one,
\* or is destroyed with the granule array of its line.
LEMMA LrDropOldStep ==
  ASSUME Inv, Inv', NEW t \in Threads, LrDropOld(t)
  PROVE  OthersStay(t) /\ Aimed(t)' /\ Atomic!Lose({t})
<1>0. t \in Agents /\ TypeOK
  BY DEF Inv, Agents
<1>1. /\ pc[t] = "lr_drop" /\ pc'[t] = "lr_lock" /\ UNCHANGED <<mem, view, todo, val>>
      /\ \A b \in Agents \ {t} : pc'[b] = pc[b] /\ cur'[b] = cur[b] /\ oth'[b] = oth[b]
  BY <1>0 DEF LrDropOld, Goto, TypeOK
<1>2. OthersStay(t) /\ Aimed(t)' /\ pc[t] \notin Copying /\ pc'[t] \notin Copying
  BY <1>1 DEF OthersStay, Aimed, Copying
<1>3. \A u \in Threads : line'[u] = IF u \in {t} THEN Null ELSE line[u]
  <2>1. CASE line[t] # Null
    BY <2>1 DEF LrDropOld, Forget
  <2>2. CASE line[t] = Null
    BY <2>2 DEF LrDropOld
  <2>. QED BY <2>1, <2>2
<1>4. \A u \in {t} : ~Writing(u, line[u])
  BY <1>2, NotCopying
<1>5. Atomic!Lose({t})
  BY <1>0, <1>1, <1>2, <1>3, <1>4, LosingStep
<1>. QED BY <1>2, <1>5

LEMMA RgClearStep ==
  ASSUME Inv, Inv', NEW t \in Threads, RgClear(t)
  PROVE  OthersStay(t) /\ Aimed(t)' /\ \E T \in SUBSET Threads : Atomic!Lose(T)
<1>0. t \in Agents /\ TypeOK /\ ReservationLinked /\ OwnInv(t)
  BY DEF Inv, Agents
<1>1. PICK l : l = cur[t]
  OBVIOUS
<1>2. /\ pc[t] = "rg_clear" /\ pc'[t] = "gone" /\ UNCHANGED <<mem, view, oth, todo, val>>
      /\ \A b \in Agents \ {t} : pc'[b] = pc[b] /\ cur'[b] = cur[b]
      /\ DestroySingleLine(Null, l)
  BY <1>0, <1>1 DEF RgClear, Goto, TypeOK
<1>3. l \in Lines
  BY <1>0, <1>1, <1>2 DEF OwnInv, LocalsShaped, Unlocked
<1>4. OthersStay(t) /\ Aimed(t)' /\ pc[t] \notin Copying /\ pc'[t] \notin Copying
  BY <1>2 DEF OthersStay, Aimed, Copying
<1>5. PICK T : T = {u \in Threads : line[u] = l}
  OBVIOUS
<1>6. \A u \in Threads : line'[u] = IF u \in T THEN Null ELSE line[u]
  <2>1. \A u \in Threads : line'[u] = IF line[u] = l THEN Null ELSE line[u]
    BY <1>0, <1>2, <1>3, DestroySingleLineEffect
  <2>. QED BY <1>5, <2>1
<1>7. ASSUME NEW u \in T PROVE ~Writing(u, line[u])
  <2>1. u \in Agents /\ line[u] = l
    BY <1>5 DEF Agents
  <2>2. Holds(t, l)
    BY <1>1, <1>2 DEF Holds, HoldsOne
  <2>3. Writing(u, l) => u = t
    BY <1>0, <1>3, <2>1, <2>2, WriterHolds, OneHolder
  <2>. QED BY <1>4, <2>1, <2>3, NotCopying
<1>8. T \in SUBSET Threads
  BY <1>5
<1>9. Atomic!Lose(T)
  BY <1>0, <1>2, <1>4, <1>6, <1>7, <1>8, LosingStep
<1>. QED BY <1>4, <1>8, <1>9

\* The other steps, as OthersStay and Aimed see them.
LEMMA OtherLocals ==
  ASSUME Inv, NEW a \in Agents, WriteWord(a) \/ (a \in Threads /\ LrReserve(a))
  PROVE  OthersStay(a) /\ Aimed(a)'
<1>0. TypeOK
  BY DEF Inv
<1>1. CASE WriteWord(a)
  <2>1. pc[a] \in Copying /\ UNCHANGED <<pc, cur, oth, val>>
    BY <1>1 DEF WriteWord
  <2>2. /\ \A b \in Agents \ {a} : todo'[b] = todo[b]
        /\ \A t \in Threads \ {a} : view'[t] = view[t]
    BY <1>0, <1>1 DEF WriteWord, TypeOK
  <2>. QED BY <2>1, <2>2 DEF OthersStay, Aimed, Copying
<1>2. CASE a \in Threads /\ LrReserve(a)
  <2>1. Return(a) /\ \A t \in Threads \ {a} : view'[t] = view[t]
    BY <1>0, <1>2 DEF LrReserve, TypeOK
  <2>2. pc'[a] = "idle" /\ OthersStay(a)
    BY <1>0, <2>1, ReturnEffect DEF OthersStay
  <2>. QED BY <2>2 DEF Aimed
<1>. QED BY <1>1, <1>2
-----------------------------------------------------------------------------
(* The steps together.                                                     *)

\* A conditional write that finds the reservation has it in the abstract memory too.
LEMMA ConditionalStep ==
  ASSUME Inv, Inv', NEW t \in Threads, Aimed(t), WcReserved(t)
  PROVE  \E R \in SUBSET Loc, v \in Values : Atomic!WriteConditional(t, R, v)
<1>0. t \in Agents /\ TypeOK /\ OwnInv(t) /\ ReservationLinked
  BY DEF Inv, Agents
<1>1. PICK l : l = cur[t]
  OBVIOUS
<1>2. /\ pc[t] = "wc_check" /\ pc' = [pc EXCEPT ![t] = "wc_copy"]
      /\ UNCHANGED <<cur, oth>> /\ exists(granules[l], t)
  BY <1>1 DEF WcReserved, Goto
<1>3. l \in Lines /\ l # Null /\ line[t] = l /\ pc'[t] = "wc_copy"
  <2>1. l \in Lines
    BY <1>0, <1>1, <1>2 DEF OwnInv, LocalsShaped, Unlocked
  <2>2. line[t] = l
    BY <1>0, <1>2, <2>1 DEF ReservationLinked
  <2>3. pc'[t] = "wc_copy"
    BY <1>0, <1>2 DEF TypeOK
  <2>. QED BY <2>1, <2>2, <2>3, LinesFacts
<1>4. PICK R \in SUBSET Loc : /\ \A x \in R : x[1] \in Hand(t)'
                              /\ Atomic!Write(t, R, val[t], pc'[t] \notin {"wc_copy", "uc_copy"})
  BY <1>0, <1>2, BeginSteps
<1>5. OthersStay(t)
  BY <1>0, <1>2, BeginSteps
<1>6. Hand(t)' = {l}
  BY <1>1, <1>2, <1>3 DEF Hand
<1>7. abstractReserved[t] = l
  <2>1. Holds(t, l)
    BY <1>1, <1>2 DEF Holds, HoldsOne
  <2>2. \A b \in Agents : ~Writing(b, l)
    BY <1>0, <1>2, <1>3, <2>1, OneHolder, WriterHolds DEF Writing, Copying
  <2>3. \A b \in Agents : ~Dooms(b, t, l)
    BY <2>2 DEF Dooms
  <2>. QED BY <1>3, <2>3, ReservedAt
<1>8. R \subseteq {l} \X Words
  BY <1>4, <1>6 DEF Loc
<1>9. abstractStoring' = abstractStoring \cup {t}
  <2>1. \A u \in Threads : pc'[u] = "wc_copy" <=> pc[u] = "wc_copy" \/ u = t
    BY <1>0, <1>2 DEF TypeOK, Agents
  <2>. QED BY <2>1 DEF abstractStoring
<1>10. val[t] \in Values /\ (pc'[t] \notin {"wc_copy", "uc_copy"} <=> FALSE)
  BY <1>0, <1>3 DEF TypeOK
<1>11. Atomic!Write(t, R, val[t], FALSE)
  <2>1. (pc'[t] \notin {"wc_copy", "uc_copy"}) = FALSE
    BY <1>10
  <2>. QED BY <1>4, <2>1
<1>12. Atomic!WriteConditional(t, R, val[t])
  BY <1>3, <1>7, <1>8, <1>9, <1>11 DEF Atomic!WriteConditional
<1>. QED BY <1>10, <1>12

\* A write of the other kinds.
LEMMA PlainBegins ==
  ASSUME Inv, Inv', NEW a \in Agents, Aimed(a),
         \/ StLock(a) /\ oth[a] = Null
         \/ StLockNext(a) \/ WmLock(a)
         \/ WcLock(a) /\ pc[a] = "uc_lock"
  PROVE  \E R \in SUBSET Loc, v \in Values, keep \in BOOLEAN :
           Atomic!Write(a, R, v, keep) /\ abstractStoring' = abstractStoring
<1>1. /\ OthersStay(a) /\ pc[a] \notin Copying
      /\ pc[a] # "wc_check"
      /\ pc'[a] = IF pc[a] = "uc_lock" THEN "uc_copy"
                  ELSE IF pc[a] = "wm_lock" THEN "wm_copy" ELSE "st_copy"
  <2>1. pc[a] # "wc_check"
    BY DEF StLock, StLockNext, WmLock
  <2>. QED BY <2>1, BeginSteps
<1>2. PICK R \in SUBSET Loc : Atomic!Write(a, R, val[a], pc'[a] \notin {"wc_copy", "uc_copy"})
  BY BeginSteps
<1>3. PICK keep \in BOOLEAN : keep = (pc'[a] \notin {"wc_copy", "uc_copy"})
  OBVIOUS
<1>4. Atomic!Write(a, R, val[a], keep)
  BY <1>2, <1>3
<1>5. abstractStoring' = abstractStoring
  BY <1>1, StoringStays DEF Copying
<1>6. val[a] \in Values
  BY DEF Inv, TypeOK
<1>. QED BY <1>4, <1>5, <1>6

LEMMA PreparesSilently ==
  ASSUME Inv, Inv', NEW a \in Agents, Prepares(a)
  PROVE  OthersStay(a) /\ Aimed(a)' /\ UNCHANGED Atomic!vars
BY SilentStep DEF Prepares

\* Every step of an agent is a step of the abstract memory or none.
LEMMA AgentStep ==
  ASSUME Inv, Inv', NEW a \in Agents, Aimed(a), Call(a) \/ Continue(a)
  PROVE  OthersStay(a) /\ Aimed(a)' /\ (Atomic!Next \/ UNCHANGED Atomic!vars)
<1>1. CASE Call(a)
  BY <1>1, CallEffect, PreparesSilently
<1>2. CASE \/ ReadWord(a) \/ Mark(a) \/ RmReturn(a)
           \/ StLock(a) /\ oth[a] # Null
           \/ /\ a \in Threads
              /\ \/ LrLockOld(a) \/ LrLock(a) \/ WcFail(a) \/ RgLock(a) \/ Create(a)
                 \/ WcLock(a) /\ pc[a] = "wc_lock"
  BY <1>2, QuietSteps, PreparesSilently
<1>3. CASE \/ StLock(a) /\ oth[a] = Null
           \/ StLockNext(a) \/ WmLock(a)
           \/ a \in Threads /\ WcLock(a) /\ pc[a] = "uc_lock"
  <2>1. \E R \in SUBSET Loc, v \in Values, keep \in BOOLEAN :
          Atomic!Write(a, R, v, keep) /\ abstractStoring' = abstractStoring
    BY <1>3, PlainBegins
  <2>2. Atomic!Next
    BY <2>1 DEF Atomic!Next, Atomic!Loc, Loc, Agents
  <2>. QED BY <1>3, <2>2, BeginSteps
<1>4. CASE a \in Threads /\ WcReserved(a)
  <2>1. \E R \in SUBSET Loc, v \in Values : Atomic!WriteConditional(a, R, v)
    BY <1>4, ConditionalStep
  <2>2. Atomic!Next
    BY <1>4, <2>1 DEF Atomic!Next, Atomic!Loc, Loc
  <2>. QED BY <1>4, <2>2, BeginSteps
<1>5. CASE WriteWord(a)
  BY <1>5, OtherLocals, WriteWordStep
<1>6. CASE a \in Threads /\ LrReserve(a)
  <2>1. \E l \in Lines, R \in SUBSET Loc : Atomic!Reserve(a, l, R)
    BY <1>6, ReserveStep
  <2>2. Atomic!Next
    BY <1>6, <2>1 DEF Atomic!Next, Atomic!Loc, Loc
  <2>. QED BY <1>6, <2>2, OtherLocals
<1>7. CASE StCommit(a) \/ WmCommit(a)
  BY <1>7, PlainCommits
<1>8. CASE a \in Threads /\ WcCommit(a)
  <2>1. Atomic!Stored(a) => Atomic!Next
    BY <1>8 DEF Atomic!Next
  <2>. QED BY <1>8, <2>1, WcCommitStep
<1>9. CASE a \in Threads /\ LrDropOld(a)
  <2>1. Atomic!Lose({a}) => Atomic!Next
    BY <1>9 DEF Atomic!Next
  <2>. QED BY <1>9, <2>1, LrDropOldStep
<1>10. CASE a \in Threads /\ RgClear(a)
  <2>1. OthersStay(a) /\ Aimed(a)' /\ \E T \in SUBSET Threads : Atomic!Lose(T)
    BY <1>10, RgClearStep
  <2>. QED BY <2>1 DEF Atomic!Next
<1>11. WcLock(a) => pc[a] \in {"wc_lock", "uc_lock"}
  BY DEF WcLock
<1>. QED BY <1>1, <1>2, <1>3, <1>4, <1>5, <1>6, <1>7, <1>8, <1>9, <1>10, <1>11 DEF Continue

LEMMA AimInit ==
  ASSUME Init
  PROVE  AimInv
<1>1. \A a \in Agents : Aimed(a)
  BY DEF Init, Aimed
<1>. QED BY <1>1, InitInv DEF AimInv

LEMMA AimNext ==
  ASSUME AimInv, [Next]_vars
  PROVE  AimInv'
<1>1. Inv /\ Inv' /\ \A a \in Agents : Aimed(a)
  BY NextInv DEF AimInv
<1>2. CASE UNCHANGED vars
  <2>1. \A a \in Agents : Aimed(a)'
    BY <1>1, <1>2 DEF Aimed, vars, local
  <2>. QED BY <1>1, <2>1 DEF AimInv
<1>3. ASSUME NEW a \in Agents, Call(a) \/ Continue(a) PROVE AimInv'
  <2>1. OthersStay(a) /\ Aimed(a)'
    BY <1>1, <1>3, AgentStep
  <2>2. ASSUME NEW b \in Agents \ {a} PROVE Aimed(b)'
    <3>1. pc'[b] = pc[b] /\ cur'[b] = cur[b] /\ oth'[b] = oth[b] /\ todo'[b] = todo[b]
      BY <2>1 DEF OthersStay
    <3>. QED BY <1>1, <3>1 DEF Aimed
  <2>. QED BY <1>1, <2>1, <2>2 DEF AimInv
<1>. QED BY <1>2, <1>3 DEF Next

LEMMA UnchangedStep ==
  ASSUME UNCHANGED vars
  PROVE  UNCHANGED Atomic!vars
<1>1. UNCHANGED <<mem, line, pc, cur, oth, todo, val, view>>
  BY DEF vars, shared, local
<1>2. /\ \A x : committed(x)' = committed(x)
      /\ \A t \in Threads : (doomed(t))' <=> doomed(t)
  BY <1>1 DEF committed, doomed, Left, Hand, Writing
<1>3. abstractMem' = abstractMem
  <2>1. ASSUME NEW x \in Loc PROVE abstractMem'[x] = abstractMem[x]
    <3>1. PICK C : committed(x) = C /\ committed(x)' = C
      BY <1>2
    <3>. QED BY <1>1, <3>1 DEF abstractMem
  <2>. QED BY <2>1 DEF abstractMem
<1>4. abstractReserved' = abstractReserved
  BY <1>1, <1>2 DEF abstractReserved
<1>5. abstractView' = abstractView
  BY <1>1, <1>2 DEF abstractView
<1>6. abstractStoring' = abstractStoring
  BY <1>1 DEF abstractStoring
<1>. QED BY <1>3, <1>4, <1>5, <1>6 DEF Atomic!vars

LEMMA RefinementStep ==
  ASSUME AimInv, AimInv', [Next]_vars
  PROVE  [Atomic!Next]_(Atomic!vars)
<1>1. CASE UNCHANGED vars
  BY <1>1, UnchangedStep
<1>2. CASE Next
  <2>1. PICK a \in Agents : Call(a) \/ Continue(a)
    BY <1>2 DEF Next
  <2>. QED BY <2>1, AgentStep DEF AimInv
<1>. QED BY <1>1, <1>2

LEMMA RefinementInit ==
  ASSUME Init
  PROVE  Atomic!Init
<1>1. /\ mem = [x \in Loc |-> Zero] /\ line = [t \in Threads |-> Null]
      /\ \A a \in Agents : pc[a] = "idle"
      /\ view = [t \in Threads |-> [w \in Words |-> Null]]
  BY DEF Init
<1>2. \A x : committed(x) = {}
  BY <1>1 DEF committed, Copying
<1>3. abstractStoring = {}
  BY <1>1 DEF abstractStoring, Agents
<1>4. abstractMem = [x \in Loc |-> Zero]
  BY <1>1, <1>2 DEF abstractMem
<1>5. abstractReserved = [t \in Threads |-> Null]
  BY <1>1 DEF abstractReserved
<1>6. abstractView = [t \in Threads |-> [w \in Words |-> Null]]
  BY <1>1 DEF abstractView
<1>. QED BY <1>3, <1>4, <1>5, <1>6 DEF Atomic!Init, Atomic!Loc, Loc

\* The memory with its spin locks, its word-by-word copies and its granule vectors is
\* the atomic memory of LLSC.  Behaviour: loadReserve, writeCond, store, writeMemory.
THEOREM MemoryImplementsLLSC == Spec => ImplementsLLSC
<1>1. Init => AimInv
  BY AimInit
<1>2. AimInv /\ [Next]_vars => AimInv'
  BY AimNext
<1>3. Init => Atomic!Init
  BY RefinementInit
<1>4. AimInv /\ AimInv' /\ [Next]_vars => [Atomic!Next]_(Atomic!vars)
  BY RefinementStep
<1>. QED BY <1>1, <1>2, <1>3, <1>4, PTL DEF Spec, ImplementsLLSC, Atomic!Spec
=============================================================================
