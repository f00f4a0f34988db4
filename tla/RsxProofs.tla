----------------------------- MODULE RsxProofs -----------------------------
(* That draws find what they were given in the buffers of the ring and in the *)
(* memory of the guest, and that none is left behind: proofs about Rsx, for   *)
(* any number of buffers, any pace of the GPU, and any program that keeps to  *)
(* what a theorem asks of it.                                                 *)
(* At the end, proofs about TextureCache: which writes the RSX can forget.    *)
EXTENDS Rsx, TextureCache, FiniteSetTheorems, TLAPS

\* The buffer after another one, as RingBuffer::advance computes it.
LEMMA NextIs ==
  ASSUME NEW b \in Buffers
  PROVE  (b + 1) % Ring = IF b + 1 = Ring THEN 0 ELSE b + 1
  BY RsxAssumption DEF Buffers

\* It is a buffer.
LEMMA NextIsBuffer ==
  ASSUME NEW b \in Buffers
  PROVE  (b + 1) % Ring \in Buffers
  BY NextIs, RsxAssumption DEF Buffers

\* No two buffers have the same one after them.
LEMMA NextIsInjective ==
  ASSUME NEW a \in Buffers, NEW b \in Buffers, (a + 1) % Ring = (b + 1) % Ring
  PROVE  a = b
  BY NextIs, RsxAssumption DEF Buffers

-----------------------------------------------------------------------------
(* Types                                                                   *)

\* What the draws are kept in does not change in a step that says so.
LEMMA DrawTypesKept ==
  ASSUME DrawTypes, UNCHANGED <<gpu, drawState, vertices>>, rsx' = rsx
  PROVE  DrawTypes'
  BY DEF DrawTypes, drawState, ringVars

LEMMA WorkTypes ==
  ASSUME DrawTypes, NEW v \in Values, NEW kind \in {"draw", "query"}
  PROVE  work(kind, v) \in Work
  BY DEF DrawTypes, work, Work

LEMMA LoopTypes ==
  ASSUME RsxTypeOK, initGcm \/ loop \/ caughtUp \/ check \/ ends
  PROVE  RsxTypeOK'
  <1> USE DEF RsxTypeOK, RegisterTypes, SeenTypes, DrawTypes, registers, drawState,
              ringVars, guestVars
  <1>1. CASE initGcm BY <1>1 DEF initGcm
  <1>2. CASE loop BY <1>2, RsxAssumption DEF loop, Begin, NoRef
  <1>3. CASE caughtUp BY <1>3 DEF caughtUp
  <1>4. CASE check BY <1>4 DEF check
  <1>5. CASE ends BY <1>5 DEF ends
  <1> QED BY <1>1, <1>2, <1>3, <1>4, <1>5

\* A command that ends in the step it begins in moves get and nothing else of what
\* the guest writes.
LEMMA MoveTypes ==
  ASSUME RegisterTypes, NEW p \in Nat, moveTo(p), ret' \in Nat,
         ref' \in Values \cup {NoRef}
  PROVE  RegisterTypes'
  BY DEF RegisterTypes, moveTo, guestVars

LEMMA CommandTypes ==
  ASSUME RsxTypeOK, rsx = "loop", command
  PROVE  RsxTypeOK'
  <1>a. RegisterTypes /\ SeenTypes /\ DrawTypes BY DEF RsxTypeOK
  <1>b. get \in Nat /\ get + 1 \in Nat /\ ret \in Nat /\ put \in Nat
    BY <1>a DEF RegisterTypes
  <1>1. CASE flow
    <2>1. ret' \in Nat /\ \E p \in Nat : moveTo(p)
      <3>1. CASE moveOn /\ UNCHANGED ret BY <3>1, <1>b DEF moveOn
      <3>2. CASE \E p \in Places : moveTo(p) /\ UNCHANGED ret
        BY <3>2, <1>b, RsxAssumption
      <3>3. CASE \E p \in Places : moveTo(p) /\ ret' = get + 1
        BY <3>3, <1>b, RsxAssumption
      <3>4. CASE moveTo(ret) /\ ret' = 0 BY <3>4, <1>b
      <3> QED BY <1>1, <3>1, <3>2, <3>3, <3>4 DEF flow
    <2>2. UNCHANGED seen /\ UNCHANGED <<gpu, drawState>> BY <1>1 DEF flow
    <2>3. UNCHANGED <<rsx, shutdown, vertices>> BY <2>1 DEF moveTo, guestVars
    <2>4. RegisterTypes' BY <1>a, <2>1, <2>2, MoveTypes DEF RegisterTypes, seen
    <2>5. SeenTypes' BY <1>a, <2>2, <2>3 DEF SeenTypes, seen
    <2> QED BY <1>a, <2>2, <2>3, <2>4, <2>5, DrawTypesKept DEF RsxTypeOK
  <1>2. CASE TransformConstantLoad
    <2>1. PICK v \in Values : entries' = [entries EXCEPT ![current] = v] /\ loaded' = v
      BY <1>2 DEF TransformConstantLoad
    <2>2. /\ moveTo(get + 1)
          /\ UNCHANGED <<ret, seen, gpu, current, queried, elements, indexed>>
      BY <1>2 DEF TransformConstantLoad, moveOn
    <2>3. RegisterTypes' BY <1>a, <1>b, <2>2, MoveTypes DEF RegisterTypes, seen
    <2>4. SeenTypes' BY <1>a, <2>2 DEF SeenTypes, seen, moveTo
    <2>5. DrawTypes' BY <1>a, <2>1, <2>2 DEF DrawTypes, moveTo, guestVars
    <2> QED BY <2>3, <2>4, <2>5 DEF RsxTypeOK
  <1>3. CASE DrawArrays
    <2>1. work("draw", 0) \in Work BY <1>a, WorkTypes, RsxAssumption
    <2>2. gives(0) /\ indexed' = FALSE /\ UNCHANGED elements BY <1>3 DEF DrawArrays
    <2>3. RegisterTypes' BY <1>a, <2>2 DEF gives, RegisterTypes, registers, guestVars
    <2>4. SeenTypes' BY <1>a, <2>2 DEF gives, SeenTypes
    <2>5. gpu' \in Seq(Work) BY <1>a, <2>1, <2>2 DEF gives, DrawTypes
    <2>6. DrawTypes' BY <1>a, <2>2, <2>5 DEF gives, DrawTypes, ringVars, guestVars
    <2> QED BY <2>3, <2>4, <2>6 DEF RsxTypeOK
  <1>4. CASE DrawIndexArray
    <2>1. PICK v \in Values : gives(v) /\ elements' = v /\ indexed' = TRUE
      BY <1>4 DEF DrawIndexArray
    <2>2. work("draw", v) \in Work BY <1>a, WorkTypes
    <2> QED BY <1>a, <2>1, <2>2 DEF gives, RsxTypeOK, RegisterTypes,
               SeenTypes, DrawTypes, registers, ringVars, guestVars
  <1>5. CASE SetReference
    <2>1. /\ ref' \in Values /\ moveTo(get + 1)
          /\ UNCHANGED <<ret, label, flipping, events, cause, gpu, drawState>>
      BY <1>5 DEF SetReference, moveOn
    <2>2. UNCHANGED <<rsx, shutdown, vertices>> BY <2>1 DEF moveTo, guestVars
    <2>3. RegisterTypes' BY <1>a, <1>b, <2>1, MoveTypes
    <2>4. SeenTypes' BY <1>a, <2>1, <2>2 DEF SeenTypes
    <2> QED BY <1>a, <2>1, <2>2, <2>3, <2>4, DrawTypesKept DEF RsxTypeOK
  <1>6. CASE semaphores
    <2>1. PICK l \in Labels, v \in Values : label' = [label EXCEPT ![l] = v]
      BY <1>6 DEF semaphores
    <2>2. /\ moveTo(get + 1)
          /\ UNCHANGED <<ret, ref, flipping, events, cause, gpu, drawState>>
      BY <1>6 DEF semaphores, moveOn
    <2>3. UNCHANGED <<rsx, shutdown, vertices>> BY <2>2 DEF moveTo, guestVars
    <2>4. RegisterTypes' BY <1>a, <1>b, <2>2, MoveTypes DEF RegisterTypes
    <2>5. SeenTypes' BY <1>a, <2>1, <2>2, <2>3 DEF SeenTypes
    <2> QED BY <1>a, <2>2, <2>3, <2>4, <2>5, DrawTypesKept DEF RsxTypeOK
  <1>7. CASE DriverQueue
    <2>1. /\ flipping' = TRUE /\ moveTo(get + 1)
          /\ UNCHANGED <<ret, ref, label, events, cause, gpu, drawState>>
      BY <1>7 DEF DriverQueue, moveOn
    <2>2. UNCHANGED <<rsx, shutdown, vertices>> BY <2>1 DEF moveTo, guestVars
    <2>3. RegisterTypes' BY <1>a, <1>b, <2>1, MoveTypes DEF RegisterTypes
    <2>4. SeenTypes' BY <1>a, <2>1, <2>2 DEF SeenTypes
    <2> QED BY <1>a, <2>1, <2>2, <2>3, <2>4, DrawTypesKept DEF RsxTypeOK
  <1>8. ASSUME NEW num \in {"flip", "user"}, NEW arg \in Values, invokeHandler(num, arg)
        PROVE  /\ cause' \in Values /\ events' \in Seq({"flip", "user"})
               /\ Len(events') <= QueueSize
    BY <1>a, <1>8, RsxAssumption DEF invokeHandler, SeenTypes
  <1>9. CASE DriverFlip
    <2>1. /\ flipping' = FALSE /\ label' = [label EXCEPT ![1] = 0]
          /\ invokeHandler("flip", 0) /\ moveTo(get + 1)
          /\ UNCHANGED <<ret, ref, gpu, drawState>>
      BY <1>9 DEF DriverFlip, moveOn
    <2>2. UNCHANGED <<rsx, shutdown, vertices>> BY <2>1 DEF moveTo, guestVars
    <2>3. RegisterTypes' BY <1>a, <1>b, <2>1, MoveTypes DEF RegisterTypes
    <2>4. SeenTypes' BY <1>a, <1>8, <2>1, <2>2, RsxAssumption DEF SeenTypes
    <2> QED BY <1>a, <2>1, <2>2, <2>3, <2>4, DrawTypesKept DEF RsxTypeOK
  <1>10. CASE DriverInterrupt
    <2>1. PICK v \in Values : invokeHandler("user", v) BY <1>10 DEF DriverInterrupt
    <2>2. /\ moveTo(get + 1) /\ UNCHANGED <<ret, ref, label, flipping, gpu, drawState>>
      BY <1>10 DEF DriverInterrupt, moveOn
    <2>3. UNCHANGED <<rsx, shutdown, vertices>> BY <2>2 DEF moveTo, guestVars
    <2>4. RegisterTypes' BY <1>a, <1>b, <2>2, MoveTypes DEF RegisterTypes
    <2>5. SeenTypes' BY <1>a, <1>8, <2>1, <2>2, <2>3 DEF SeenTypes
    <2> QED BY <1>a, <2>2, <2>3, <2>4, <2>5, DrawTypesKept DEF RsxTypeOK
  <1> QED BY <1>1, <1>2, <1>3, <1>4, <1>5, <1>6, <1>7, <1>9, <1>10 DEF command

LEMMA RingTypes ==
  ASSUME RsxTypeOK, advance \/ clientWait \/ drawn \/ gpuWorks
  PROVE  RsxTypeOK'
  <1> USE DEF RsxTypeOK, RegisterTypes, SeenTypes, DrawTypes, registers, drawState,
              ringVars, guestVars, seen
  <1>1. CASE advance
    <2>1. next \in Buffers BY NextIsBuffer DEF next
    <2>2. work("query", 0) \in Work BY WorkTypes, RsxAssumption
    <2> QED BY <1>1, <2>1, <2>2 DEF advance
  <1>2. CASE clientWait BY <1>2 DEF clientWait
  <1>3. CASE drawn BY <1>3 DEF drawn
  <1>4. CASE gpuWorks BY <1>4 DEF gpuWorks
  <1> QED BY <1>1, <1>2, <1>3, <1>4

LEMMA GuestTypes ==
  ASSUME RsxTypeOK, NEW g \in Guests, Guest(g)
  PROVE  RsxTypeOK'
  <1> USE DEF RsxTypeOK, RegisterTypes, SeenTypes, rsxApart, memoryApart, drawState, ringVars
  <1>1. CASE contextAllocate(g)
    BY <1>1, RsxAssumption DEF contextAllocate, DrawTypes
  <1>2. CASE guestMemory(g)
    <2>1. UNCHANGED <<get, ref, ret, gpu, drawState, flipping, events, cause, rsx, shutdown>>
      BY <1>2 DEF guestMemory
    <2>2. /\ put' \in Nat /\ flushed' \in Nat /\ vertices' \in Values
          /\ label' \in [Labels -> Values]
      BY <1>2, RsxAssumption DEF guestMemory, DrawTypes
    <2> QED BY <2>1, <2>2 DEF DrawTypes
  <1>3. CASE resetFlipStatus(g) BY <1>3 DEF resetFlipStatus, DrawTypes
  <1>4. CASE receive(g) BY <1>4, RsxAssumption DEF receive, DrawTypes
  <1>5. CASE shuts(g) BY <1>5 DEF shuts, DrawTypes
  <1> QED BY <1>1, <1>2, <1>3, <1>4, <1>5 DEF Guest

LEMMA StepTypes == RsxTypeOK /\ [RsxNext]_rsxVars => RsxTypeOK'
  <1> SUFFICES ASSUME RsxTypeOK, [RsxNext]_rsxVars PROVE RsxTypeOK' OBVIOUS
  <1>1. CASE RsxThread BY <1>1, LoopTypes, CommandTypes, RingTypes DEF RsxThread
  <1>2. CASE gpuWorks BY <1>2, RingTypes
  <1>3. CASE \E g \in Guests : Guest(g) BY <1>3, GuestTypes
  <1>4. CASE UNCHANGED rsxVars
    BY <1>4 DEF rsxVars, RsxTypeOK, RegisterTypes, SeenTypes, DrawTypes, registers,
                drawState, ringVars, guestVars
  <1> QED BY <1>1, <1>2, <1>3, <1>4 DEF RsxNext

LEMMA InitTypes == RsxInit => RsxTypeOK
  <1> SUFFICES ASSUME RsxInit PROVE RsxTypeOK OBVIOUS
  <1>1. 0 \in Values /\ 0 \in Buffers /\ QueueSize \in Nat BY RsxAssumption DEF Buffers
  <1>2. RegisterTypes BY <1>1 DEF RsxInit, RegisterTypes
  <1>3. SeenTypes
    <2>1. events = <<>> /\ label \in [Labels -> Values] BY <1>1 DEF RsxInit
    <2>2. events \in Seq({"flip", "user"}) /\ Len(events) <= QueueSize BY <1>1, <2>1
    <2> QED BY <1>1, <2>1, <2>2 DEF RsxInit, SeenTypes
  <1>4. DrawTypes BY <1>1 DEF RsxInit, DrawTypes
  <1> QED BY <1>2, <1>3, <1>4 DEF RsxTypeOK

\* The variables of the RSX keep their types, and its event queue its bound, for
\* any program of the guest.
THEOREM RsxTypes == RsxSpec => []RsxTypeOK
  BY InitTypes, StepTypes, PTL DEF RsxSpec

-----------------------------------------------------------------------------
(* The ring                                                                *)

\* Where the last constants are: in the current buffer, or, after the ring has
\* advanced and before it has copied, in the one before it.
ConstantsKept ==
  IF rsx = "wait"
  THEN \A b \in Buffers : (b + 1) % Ring = current => entries[b] = loaded
  ELSE entries[current] = loaded

\* Why nobody writes to a buffer under a draw: a draw the GPU has yet to carry out
\* uses the buffer of the draw under way, or one with a query behind it that the
\* ring will wait for; and when constants can be written, not the current one.
QueryBehind ==
  \A i \in draws :
    \/ gpu[i].entry = current /\ rsx = "advance"
    \/ /\ gpu[i].entry \in queried
       /\ \E j \in queries : i < j /\ gpu[j].entry = gpu[i].entry
CurrentIsFree ==
  rsx \notin {"advance", "wait"} => \A i \in draws : gpu[i].entry # current

\* A draw with indices is the draw under way, as DrawIndexArray waits for it.
IndicesOfThisDraw ==
  \A i \in draws : gpu[i].indices # 0 => indexed /\ rsx \in {"advance", "wait", "drawn"}

RingInv ==
  ConstantsKept /\ QueryBehind /\ CurrentIsFree /\ IndicesOfThisDraw /\ DrawsSeeTheirData

\* A step that leaves the draws alone, and does not take the RSX thread into one.
LEMMA QuietStep ==
  ASSUME RingInv, UNCHANGED <<gpu, drawState>>,
         rsx' = rsx \/ {rsx, rsx'} \cap {"advance", "wait", "drawn"} = {}
  PROVE  RingInv'
  <1> USE DEF drawState, ringVars, RingInv
  <1>a. draws' = draws /\ queries' = queries BY DEF draws, queries
  <1>b. \A s \in {"advance", "wait", "drawn"} : rsx' = s <=> rsx = s OBVIOUS
  <1>1. ConstantsKept' BY <1>b DEF ConstantsKept
  <1>2. QueryBehind' BY <1>a, <1>b DEF QueryBehind
  <1>3. CurrentIsFree' BY <1>a, <1>b DEF CurrentIsFree
  <1>4. IndicesOfThisDraw' BY <1>a, <1>b DEF IndicesOfThisDraw
  <1>5. DrawsSeeTheirData' BY <1>a DEF DrawsSeeTheirData
  <1> QED BY <1>1, <1>2, <1>3, <1>4, <1>5

\* Constants are loaded into a buffer that no draw uses.
LEMMA LoadStep ==
  ASSUME RsxTypeOK, RingInv, rsx = "loop", TransformConstantLoad
  PROVE  RingInv'
  <1> USE DEF RsxTypeOK, DrawTypes, draws, queries, RingInv
  <1>1. PICK v \in Values : entries' = [entries EXCEPT ![current] = v] /\ loaded' = v
    BY DEF TransformConstantLoad
  <1>2. UNCHANGED <<gpu, current, queried, elements, indexed, rsx>>
    BY DEF TransformConstantLoad, moveOn, moveTo
  <1>3. ConstantsKept' BY <1>1, <1>2 DEF ConstantsKept
  <1>4. QueryBehind' BY <1>2 DEF QueryBehind
  <1>5. CurrentIsFree' BY <1>2 DEF CurrentIsFree
  <1>6. IndicesOfThisDraw' BY <1>2 DEF IndicesOfThisDraw
  <1>7. DrawsSeeTheirData' BY <1>1, <1>2 DEF DrawsSeeTheirData, CurrentIsFree, Work
  <1> QED BY <1>3, <1>4, <1>5, <1>6, <1>7

\* A draw is given with the current buffer, when no draw with indices is left.
LEMMA DrawStep ==
  ASSUME RsxTypeOK, RingInv, rsx = "loop", NEW v \in Values, gives(v),
         indexed' = (v # 0), elements' = IF v = 0 THEN elements ELSE v
  PROVE  RingInv'
  <1> USE DEF RsxTypeOK, DrawTypes, RingInv
  <1> DEFINE new == Len(gpu) + 1
  <1>1. /\ gpu' = Append(gpu, work("draw", v)) /\ rsx' = "advance"
        /\ UNCHANGED <<current, entries, queried, loaded>>
    BY DEF gives, ringVars
  <1>2. /\ work("draw", v).kind = "draw" /\ work("draw", v).entry = current
        /\ work("draw", v).constants = loaded /\ work("draw", v).indices = v
    BY DEF work
  <1>3. /\ draws' = draws \cup {new} /\ queries' = queries /\ gpu'[new] = work("draw", v)
        /\ \A i \in DOMAIN gpu : i # new /\ gpu'[i] = gpu[i]
    BY <1>1, <1>2 DEF draws, queries
  <1>4. draws \subseteq DOMAIN gpu /\ queries \subseteq DOMAIN gpu BY DEF draws, queries
  <1>5. \A i \in draws : gpu[i].indices = 0 BY DEF IndicesOfThisDraw
  <1>6. ConstantsKept' BY <1>1 DEF ConstantsKept
  <1>7. QueryBehind' BY <1>1, <1>2, <1>3, <1>4 DEF QueryBehind
  <1>8. CurrentIsFree' BY <1>1 DEF CurrentIsFree
  <1>9. IndicesOfThisDraw' BY <1>1, <1>2, <1>3, <1>4, <1>5 DEF IndicesOfThisDraw
  <1>10. DrawsSeeTheirData'
    BY <1>1, <1>2, <1>3, <1>4, <1>5 DEF DrawsSeeTheirData, ConstantsKept
  <1> QED BY <1>6, <1>7, <1>8, <1>9, <1>10

\* A query goes behind the draw under way.
LEMMA AdvanceStep ==
  ASSUME RsxTypeOK, RingInv, advance
  PROVE  RingInv'
  <1> USE DEF RsxTypeOK, DrawTypes, RingInv
  <1> DEFINE new == Len(gpu) + 1
  <1>1. /\ rsx = "advance" /\ rsx' = "wait" /\ gpu' = Append(gpu, work("query", 0))
        /\ queried' = queried \cup {current} /\ current' = next
        /\ UNCHANGED <<entries, loaded, elements, indexed>>
    BY DEF advance
  <1>2. work("query", 0).kind = "query" /\ work("query", 0).entry = current BY DEF work
  <1>3. /\ draws' = draws /\ queries' = queries \cup {new}
        /\ gpu'[new] = work("query", 0)
        /\ \A i \in DOMAIN gpu : i < new /\ gpu'[i] = gpu[i]
    BY <1>1, <1>2 DEF draws, queries
  <1>4. draws \subseteq DOMAIN gpu /\ queries \subseteq DOMAIN gpu BY DEF draws, queries
  <1>5. ConstantsKept' BY <1>1, NextIsInjective DEF ConstantsKept, next
  <1>6. QueryBehind' BY <1>1, <1>2, <1>3, <1>4 DEF QueryBehind
  <1>7. CurrentIsFree' BY <1>1 DEF CurrentIsFree
  <1>8. IndicesOfThisDraw' BY <1>1, <1>3, <1>4 DEF IndicesOfThisDraw
  <1>9. DrawsSeeTheirData' BY <1>1, <1>3, <1>4 DEF DrawsSeeTheirData
  <1> QED BY <1>5, <1>6, <1>7, <1>8, <1>9

\* The buffer that is entered is free once its query is done, or has none.
LEMMA WaitStep ==
  ASSUME RsxTypeOK, RingInv, clientWait
  PROVE  RingInv'
  <1> USE DEF RsxTypeOK, DrawTypes, RingInv
  <1>1. /\ rsx = "wait" /\ rsx' = "drawn" /\ queried' = queried \ {current}
        /\ current \in queried => \A i \in queries : gpu[i].entry # current
        /\ UNCHANGED <<gpu, current, loaded, elements, indexed>>
    BY DEF clientWait
  <1>2. PICK b \in Buffers :
          (b + 1) % Ring = current /\ entries' = [entries EXCEPT ![current] = entries[b]]
    BY DEF clientWait
  <1>3. \A i \in draws : gpu[i].entry # current BY <1>1 DEF QueryBehind
  <1>4. draws' = draws /\ queries' = queries BY <1>1 DEF draws, queries
  <1>5. ConstantsKept' BY <1>1, <1>2 DEF ConstantsKept
  <1>6. QueryBehind' BY <1>1, <1>3, <1>4 DEF QueryBehind
  <1>7. CurrentIsFree' BY <1>1, <1>3, <1>4 DEF CurrentIsFree
  <1>8. IndicesOfThisDraw' BY <1>1, <1>4 DEF IndicesOfThisDraw
  <1>9. \A i \in draws : gpu[i].entry \in Buffers
    <2>1. \A i \in draws : gpu[i] \in Work BY DEF draws
    <2> QED BY <2>1 DEF Work
  <1>10. DrawsSeeTheirData' BY <1>1, <1>2, <1>3, <1>4, <1>9 DEF DrawsSeeTheirData
  <1> QED BY <1>5, <1>6, <1>7, <1>8, <1>10

\* A draw with indices ends with an idle GPU.
LEMMA DrawnStep ==
  ASSUME RsxTypeOK, RingInv, drawn
  PROVE  RingInv'
  <1> USE DEF RsxTypeOK, DrawTypes, RingInv
  <1>1. /\ rsx = "drawn" /\ rsx' = "loop" /\ (indexed => gpu = <<>>)
        /\ UNCHANGED <<gpu, current, entries, queried, loaded, elements, indexed>>
    BY DEF drawn, waitForIdle, drawState, ringVars
  <1>2. draws' = draws /\ queries' = queries BY <1>1 DEF draws, queries
  <1>3. indexed => draws = {} BY <1>1 DEF draws
  <1>4. ConstantsKept' BY <1>1 DEF ConstantsKept
  <1>5. QueryBehind' BY <1>1, <1>2 DEF QueryBehind
  <1>6. CurrentIsFree' BY <1>1, <1>2 DEF CurrentIsFree
  <1>7. IndicesOfThisDraw' BY <1>1, <1>2, <1>3 DEF IndicesOfThisDraw
  <1>8. DrawsSeeTheirData' BY <1>1, <1>2 DEF DrawsSeeTheirData
  <1> QED BY <1>4, <1>5, <1>6, <1>7, <1>8

\* The GPU takes what is in front, and what was behind a draw stays behind it.
LEMMA GpuStep ==
  ASSUME RsxTypeOK, RingInv, gpuWorks
  PROVE  RingInv'
  <1> USE DEF RsxTypeOK, DrawTypes, RingInv
  <1>1. gpu # <<>> /\ gpu' = Tail(gpu)
        /\ UNCHANGED <<rsx, current, entries, queried, loaded, elements, indexed>>
    BY DEF gpuWorks, drawState, ringVars
  <1>2. \A i \in DOMAIN gpu' : i + 1 \in DOMAIN gpu /\ gpu'[i] = gpu[i + 1] BY <1>1
  <1>3. \A i \in DOMAIN gpu : i > 1 => i - 1 \in DOMAIN gpu' /\ gpu'[i - 1] = gpu[i]
    BY <1>1
  <1>4. DOMAIN gpu \subseteq Int /\ DOMAIN gpu' \subseteq Nat \ {0} BY <1>1
  <1>5. \A i \in draws' : i + 1 \in draws /\ gpu'[i] = gpu[i + 1] BY <1>2 DEF draws
  <1>6. \A i \in draws', j \in queries :
          i + 1 < j => j - 1 \in queries' /\ i < j - 1 /\ gpu'[j - 1] = gpu[j]
    BY <1>3, <1>4 DEF draws, queries
  <1>7. ConstantsKept' BY <1>1 DEF ConstantsKept
  <1>8. QueryBehind'
    <2> SUFFICES ASSUME NEW i \in draws', ~(gpu'[i].entry = current' /\ rsx' = "advance")
                 PROVE  /\ gpu'[i].entry \in queried'
                        /\ \E j \in queries' : i < j /\ gpu'[j].entry = gpu'[i].entry
      BY DEF QueryBehind
    <2>1. gpu[i + 1].entry \in queried BY <1>1, <1>5 DEF QueryBehind
    <2>2. PICK j \in queries : i + 1 < j /\ gpu[j].entry = gpu[i + 1].entry
      BY <1>1, <1>5 DEF QueryBehind
    <2>3. j - 1 \in queries' /\ i < j - 1 /\ gpu'[j - 1] = gpu[j] BY <1>6, <2>2
    <2> QED BY <1>1, <1>5, <2>1, <2>2, <2>3
  <1>9. CurrentIsFree' BY <1>1, <1>5 DEF CurrentIsFree
  <1>10. IndicesOfThisDraw' BY <1>1, <1>5 DEF IndicesOfThisDraw
  <1>11. DrawsSeeTheirData' BY <1>1, <1>5 DEF DrawsSeeTheirData
  <1> QED BY <1>7, <1>8, <1>9, <1>10, <1>11

LEMMA CommandStep ==
  ASSUME RsxTypeOK, RingInv, rsx = "loop", command
  PROVE  RingInv'
  <1>1. CASE TransformConstantLoad BY <1>1, LoadStep
  <1>2. CASE DrawArrays
    <2>1. gives(0) /\ indexed' = FALSE /\ elements' = elements BY <1>2 DEF DrawArrays
    <2> QED BY <2>1, DrawStep, RsxAssumption
  <1>3. CASE DrawIndexArray
    <2>1. PICK v \in Values \ {0} : gives(v) /\ elements' = v /\ indexed' = TRUE
      BY <1>3 DEF DrawIndexArray
    <2> QED BY <2>1, DrawStep
  <1>4. CASE \/ flow \/ SetReference \/ semaphores
             \/ DriverQueue \/ DriverFlip \/ DriverInterrupt
    <2>1. UNCHANGED <<gpu, drawState>>
      BY <1>4 DEF flow, SetReference, semaphores, DriverQueue, DriverFlip, DriverInterrupt
    <2>2. rsx' = rsx
      BY <1>4 DEF flow, SetReference, semaphores, DriverQueue, DriverFlip,
                  DriverInterrupt, moveOn, moveTo
    <2> QED BY <2>1, <2>2, QuietStep
  <1> QED BY <1>1, <1>2, <1>3, <1>4 DEF command

LEMMA RingStep == RsxTypeOK /\ RingInv /\ [RsxNext]_rsxVars => RingInv'
  <1> SUFFICES ASSUME RsxTypeOK, RingInv, [RsxNext]_rsxVars PROVE RingInv' OBVIOUS
  <1>1. CASE initGcm \/ loop \/ caughtUp \/ check \/ ends
    <2>1. UNCHANGED <<gpu, drawState>> BY <1>1 DEF initGcm, loop, caughtUp, check, ends
    <2>2. {rsx, rsx'} \cap {"advance", "wait", "drawn"} = {}
      BY <1>1 DEF initGcm, loop, caughtUp, check, ends
    <2> QED BY <2>1, <2>2, QuietStep
  <1>2. CASE rsx = "loop" /\ command BY <1>2, CommandStep
  <1>3. CASE advance BY <1>3, AdvanceStep
  <1>4. CASE clientWait BY <1>4, WaitStep
  <1>5. CASE drawn BY <1>5, DrawnStep
  <1>6. CASE gpuWorks BY <1>6, GpuStep
  <1>7. CASE \E g \in Guests : Guest(g)
    <2>1. PICK g \in Guests : Guest(g) BY <1>7
    <2>2. UNCHANGED <<gpu, drawState>>
      BY <2>1 DEF Guest, contextAllocate, guestMemory, resetFlipStatus, receive, shuts,
                  rsxApart
    <2>3. rsx' = rsx \/ {rsx, rsx'} \cap {"advance", "wait", "drawn"} = {}
      BY <2>1 DEF Guest, contextAllocate, guestMemory, resetFlipStatus, receive, shuts
    <2> QED BY <2>2, <2>3, QuietStep
  <1>8. CASE UNCHANGED rsxVars BY <1>8, QuietStep DEF rsxVars
  <1> QED BY <1>1, <1>2, <1>3, <1>4, <1>5, <1>6, <1>7, <1>8 DEF RsxNext, RsxThread

LEMMA RingInit == RsxInit => RingInv
  <1> SUFFICES ASSUME RsxInit PROVE RingInv OBVIOUS
  <1>1. draws = {} BY DEF RsxInit, draws
  <1>2. 0 \in Buffers BY RsxAssumption DEF Buffers
  <1>3. ConstantsKept BY <1>2 DEF RsxInit, ConstantsKept
  <1> QED BY <1>1, <1>3 DEF RingInv, QueryBehind, CurrentIsFree, IndicesOfThisDraw,
                            DrawsSeeTheirData

\* Every draw finds the constants and the indices it was given with, for any
\* program, any number of buffers in the ring and however slow the GPU is.
THEOREM DrawsKeepTheirData == RsxSpec => []DrawsSeeTheirData
  <1>1. RsxSpec => [](RsxTypeOK /\ RingInv)
    <2>1. RsxInit => RsxTypeOK /\ RingInv BY InitTypes, RingInit
    <2>2. RsxTypeOK /\ RingInv /\ [RsxNext]_rsxVars => (RsxTypeOK /\ RingInv)'
      BY StepTypes, RingStep
    <2> QED BY <2>1, <2>2, PTL DEF RsxSpec
  <1>2. RingInv => DrawsSeeTheirData BY DEF RingInv
  <1> QED BY <1>1, <1>2, PTL
-----------------------------------------------------------------------------
(* The end of the RSX thread                                               *)

\* Some thread is behind the shutdown in its script.
ShutDown ==
  \E g \in Guests : \E i \in DOMAIN program.scripts[g] :
    i \in Nat /\ i < at[g] /\ program.scripts[g][i] = <<"shutdown">>

\* The loop comes to its end with put read again after the shutdown was seen.
EndInv ==
  /\ program \in Programs /\ at \in [Guests -> Nat]
  /\ shutdown => ShutDown
  /\ rsx = "check" => ret = 0
  /\ rsx \in {"finish", "ended"} => shutdown /\ get = put /\ ret = 0
  /\ rsx = "ended" => gpu = <<>>

\* What the RSX thread and the GPU do.
LEMMA EndRsx ==
  ASSUME EndInv, RsxThread \/ gpuWorks
  PROVE  EndInv'
<1>a. UNCHANGED <<program, at, shutdown>>
  BY DEF RsxThread, gpuWorks, initGcm, loop, caughtUp, check, ends, command, advance, clientWait,
     drawn, flow, moveOn, moveTo, TransformConstantLoad, DrawArrays, DrawIndexArray, gives,
     SetReference, semaphores, DriverQueue, DriverFlip, DriverInterrupt, guestVars
<1>b. shutdown' => ShutDown'
  BY <1>a DEF EndInv, ShutDown
<1>1. CASE rsx' \notin {"check", "finish", "ended"}
  BY <1>a, <1>b, <1>1 DEF EndInv
<1>2. CASE caughtUp \/ check \/ ends
  BY <1>a, <1>b, <1>2 DEF EndInv, caughtUp, check, ends, waitForIdle, registers
<1>3. CASE gpuWorks
  BY <1>a, <1>b, <1>3 DEF EndInv, gpuWorks, registers
<1>4. CASE \/ initGcm \/ loop \/ advance \/ clientWait \/ drawn
           \/ rsx = "loop" /\ command
  <2>1. rsx' \notin {"check", "finish", "ended"}
    BY <1>4 DEF initGcm, loop, advance, clientWait, drawn, command, flow, moveOn, moveTo,
       TransformConstantLoad, DrawArrays, DrawIndexArray, gives, SetReference, semaphores,
       DriverQueue, DriverFlip, DriverInterrupt
  <2>. QED BY <1>1, <2>1
<1>. QED BY <1>2, <1>3, <1>4 DEF RsxThread

\* Nobody who is at a flush finds the shutdown behind it.
LEMMA NoLateFlush ==
  ASSUME EndInv, ShutsDownLast, shutdown, NEW g \in Guests, at[g] \in DOMAIN program.scripts[g],
         NEW p \in Places
  PROVE  ~does(g, <<"flush", p>>)
<1>0. PICK h \in Guests : \E i \in DOMAIN program.scripts[h] :
        i \in Nat /\ i < at[h] /\ program.scripts[h][i] = <<"shutdown">>
  BY DEF EndInv, ShutDown
<1>1. PICK i \in DOMAIN program.scripts[h] :
        i \in Nat /\ i < at[h] /\ program.scripts[h][i] = <<"shutdown">>
  BY <1>0
<1>2. ASSUME program.scripts[g][at[g]] = <<"flush", p>>
      PROVE  h = g /\ at[g] < i
  BY <1>1, <1>2 DEF EndInv, ShutsDownLast
<1>. QED BY <1>1, <1>2 DEF does, EndInv

LEMMA EndGuest ==
  ASSUME EndInv, ShutsDownLast, NEW g \in Guests, Guest(g)
  PROVE  EndInv'
<1>1. /\ at[g] \in DOMAIN program.scripts[g] /\ program' = program
      /\ at' = [at EXCEPT ![g] = @ + 1]
      /\ UNCHANGED <<get, ret, gpu>>
  BY DEF Guest, contextAllocate, guestMemory, resetFlipStatus, receive, shuts, does, rsxApart
<1>2. at' \in [Guests -> Nat] /\ \A h \in Guests : at[h] <= at'[h]
  BY <1>1 DEF EndInv
<1>3. ShutDown => ShutDown'
  <2>1. ASSUME NEW h \in Guests, NEW i \in DOMAIN program.scripts[h], i \in Nat, i < at[h]
        PROVE  i < at'[h]
    BY <1>2, <2>1 DEF EndInv
  <2>. QED BY <1>1, <2>1 DEF ShutDown
<1>4. shutdown' => ShutDown'
  <2>1. CASE shutdown' = shutdown
    BY <1>3, <2>1 DEF EndInv
  <2>2. CASE does(g, <<"shutdown">>)
    <3>1. at[g] \in Nat /\ at[g] < at'[g]
      BY <1>1 DEF EndInv
    <3>. QED BY <1>1, <2>2, <3>1 DEF ShutDown, does
  <2>. QED
    BY <2>1, <2>2 DEF Guest, contextAllocate, guestMemory, resetFlipStatus, receive, shuts
<1>5. shutdown => put' = put
  <2>1. CASE \E p \in Places : does(g, <<"flush", p>>)
    BY <1>1, <2>1, NoLateFlush
  <2>2. CASE ~\E p \in Places : does(g, <<"flush", p>>)
    BY <2>2 DEF Guest, contextAllocate, guestMemory, resetFlipStatus, receive, shuts
  <2>. QED BY <2>1, <2>2
<1>6. /\ rsx' \in {"check", "finish", "ended"} => rsx' = rsx
      /\ shutdown => shutdown'
  BY DEF Guest, contextAllocate, guestMemory, resetFlipStatus, receive, shuts
<1>. QED BY <1>1, <1>2, <1>4, <1>5, <1>6 DEF EndInv

LEMMA EndStep == EndInv /\ ShutsDownLast /\ [RsxNext]_rsxVars => EndInv'
<1>. SUFFICES ASSUME EndInv, ShutsDownLast, [RsxNext]_rsxVars PROVE EndInv'
  OBVIOUS
<1>1. CASE UNCHANGED rsxVars
  BY <1>1 DEF rsxVars, guestVars, registers, EndInv, ShutDown
<1>. QED BY <1>1, EndRsx, EndGuest DEF RsxNext

\* When the RSX thread has ended it has carried out all that was flushed, and the
\* GPU its draws, for any program that flushes nothing after the shutdown: put is
\* read again after _shutdown is seen.
THEOREM NothingIsLeftBehind ==
  ASSUME ShutsDownLast
  PROVE  RsxSpec => []NothingLeftBehind
<1>1. RsxInit => EndInv
  BY DEF RsxInit, EndInv
<1>2. EndInv => NothingLeftBehind
  BY DEF EndInv, NothingLeftBehind
<1>3. EndInv /\ [RsxNext]_rsxVars => EndInv'
  BY EndStep
<1>. QED BY <1>1, <1>2, <1>3, PTL DEF RsxSpec
-----------------------------------------------------------------------------
(* The vertices                                                            *)

\* The steps that a guest thread has made.
Past(g) == 1 .. at[g] - 1
early == rsx \in {"off", "gcm", "registers"}
drawing == rsx \in {"advance", "wait", "drawn"}
isFence(c) ==
  \E v \in Values : c = <<"reference", v>> \/ \E l \in Labels : c = <<"backEndRelease", l, v>>
isWrite(c, l, v) ==
  c \in {<<"release", l, v>>, <<"backEndRelease", l, v>>, <<"acquire", l, v>>}

\* The RSX has carried out the command at q of a straight program.
passed(q) == ~early /\ q < get

\* Before anything is flushed the RSX carries out nothing.
BeforeFlush ==
  (\A g \in Guests, place \in Places : \A i \in Past(g) : program.scripts[g][i] # <<"flush", place>>)
    => gpu = <<>> /\ get = put /\ ret = 0 /\ ~drawing

\* In a straight program get follows put, which is where the guest has flushed to.
PutFlushed ==
  put \in {0, Begin} \/ \E g \in Guests : \E i \in Past(g) :
                          put \in Places /\ program.scripts[g][i] = <<"flush", put>>
GetFollows ==
  IF early THEN gpu = <<>> /\ ref = 0
  ELSE /\ Begin <= get /\ get <= put
       /\ drawing => get < put /\ get \in DOMAIN buffer /\ isDraw(buffer[get])

\* What the reference and the labels say was said by the commands up to get, and
\* so a guest that has passed a fence knows the RSX to be behind it.
RefSaid == ref \in {0, NoRef} \/ \E q \in DOMAIN buffer : passed(q) /\ buffer[q] = <<"reference", ref>>
LabelSaid(l) ==
  \/ label[l] = 0 \/ <<l, label[l]>> = <<3, 1>>
  \/ \E g \in Guests : \E i \in DOMAIN program.scripts[g] :
       program.scripts[g][i] = <<"label", l, label[l]>>
  \/ \E q \in DOMAIN buffer : passed(q) /\ isWrite(buffer[q], l, label[l])
FencesPassed ==
  \A g \in Guests : \A i \in Past(g), q \in DOMAIN buffer :
    Fenced(program, q, program.scripts[g][i]) => passed(q)

\* No draw is left of those before a fence.
IdleSince ==
  ~early /\ ~drawing =>
    \A q \in {Begin - 1} \cup DOMAIN buffer :
      /\ q # Begin - 1 => isFence(buffer[q])
      /\ q < get /\ \A r \in DOMAIN buffer : q < r /\ r < get => ~isDraw(buffer[r])
      => draws = {}

BehindInv ==
  /\ buffer = program.buffer /\ ret = 0
  /\ PutFlushed /\ GetFollows /\ RefSaid /\ (\A l \in Labels : LabelSaid(l))
  /\ FencesPassed /\ IdleSince

ScriptsInv ==
  /\ program \in Programs /\ at \in [Guests -> Nat \ {0}]
  /\ \A g \in Guests : Past(g) \subseteq DOMAIN program.scripts[g]

VerticesInv ==
  /\ ScriptsInv /\ DrawsSeeTheirVertices
  /\ WritesFirst(program) => BeforeFlush
  /\ WritesBehind(program) => BehindInv

\* What is the guest's, the RSX leaves alone.
LEMMA RsxKeeps == ASSUME RsxThread \/ gpuWorks PROVE UNCHANGED guestVars
  BY DEF RsxThread, gpuWorks, initGcm, loop, caughtUp, check, ends, command, advance, clientWait,
     drawn, flow, moveOn, moveTo, TransformConstantLoad, DrawArrays, DrawIndexArray, gives,
     SetReference, semaphores, DriverQueue, DriverFlip, DriverInterrupt

\* A guest's step is the one of its script, and touches nothing of the RSX's own.
LEMMA GuestKeeps ==
  ASSUME ScriptsInv, NEW g \in Guests, Guest(g)
  PROVE  /\ ScriptsInv' /\ program' = program /\ at' = [at EXCEPT ![g] = @ + 1]
         /\ UNCHANGED <<get, ref, ret, gpu>>
         /\ rsx' = rsx \/ {rsx, rsx'} \subseteq {"off", "gcm"}
         /\ Past(g)' = Past(g) \cup {at[g]} /\ at[g] \in DOMAIN program.scripts[g]
         /\ \A h \in Guests \ {g} : Past(h)' = Past(h)
<1>1. /\ at[g] \in DOMAIN program.scripts[g] /\ program' = program
      /\ at' = [at EXCEPT ![g] = @ + 1]
      /\ UNCHANGED <<get, ref, ret, gpu>>
      /\ rsx' = rsx \/ {rsx, rsx'} \subseteq {"off", "gcm"}
  BY DEF Guest, contextAllocate, guestMemory, resetFlipStatus, receive, shuts, does, rsxApart
<1>2. at[g] \in Nat \ {0} /\ at'[g] = at[g] + 1 /\ \A h \in Guests \ {g} : at'[h] = at[h]
  BY <1>1 DEF ScriptsInv
<1>3. Past(g)' = Past(g) \cup {at[g]} /\ \A h \in Guests \ {g} : Past(h)' = Past(h)
  BY <1>2 DEF Past
<1>4. ScriptsInv'
  BY <1>1, <1>2, <1>3 DEF ScriptsInv
<1>. QED BY <1>1, <1>3, <1>4

-----------------------------------------------------------------------------
\* A program that writes its vertices before it flushes.

LEMMA FirstRsx ==
  ASSUME BeforeFlush, RsxThread \/ gpuWorks
  PROVE  BeforeFlush'
<1>1. UNCHANGED <<program, at>>
  BY RsxKeeps DEF guestVars
<1>. SUFFICES ASSUME gpu = <<>>, get = put, ret = 0, ~drawing
              PROVE  gpu' = <<>> /\ get' = put' /\ ret' = 0 /\ ~drawing'
  BY <1>1 DEF BeforeFlush, Past
<1>2. CASE initGcm \/ caughtUp \/ check \/ ends
  BY <1>2 DEF initGcm, caughtUp, check, ends, registers, drawing
<1>3. CASE loop
  BY <1>3 DEF loop, drawing
<1>4. ~command
  BY DEF command, flow, TransformConstantLoad, DrawArrays, DrawIndexArray, SetReference,
     semaphores, DriverQueue, DriverFlip, DriverInterrupt, interpret
<1>5. ~advance /\ ~clientWait /\ ~drawn /\ ~gpuWorks
  BY DEF advance, clientWait, drawn, gpuWorks, drawing
<1>. QED BY <1>2, <1>3, <1>4, <1>5 DEF RsxThread

LEMMA FirstGuest ==
  ASSUME ScriptsInv, BeforeFlush, NEW g \in Guests, Guest(g)
  PROVE  BeforeFlush'
<1>1. CASE \E place \in Places : does(g, <<"flush", place>>)
  <2>1. PICK place \in Places : program.scripts[g][at[g]] = <<"flush", place>>
    BY <1>1 DEF does
  <2>2. at[g] \in Past(g)' /\ program' = program
    BY GuestKeeps
  <2>. QED BY <2>1, <2>2 DEF BeforeFlush
<1>2. CASE ~\E place \in Places : does(g, <<"flush", place>>)
  <2>1. put' = put
    BY <1>2 DEF Guest, contextAllocate, guestMemory, resetFlipStatus, receive, shuts
  <2>2. drawing' <=> drawing
    BY GuestKeeps DEF drawing
  <2>3. \A h \in Guests : Past(h) \subseteq Past(h)'
    BY GuestKeeps
  <2>. QED BY <2>1, <2>2, <2>3, GuestKeeps DEF BeforeFlush
<1>. QED BY <1>1, <1>2

LEMMA FirstWrites ==
  ASSUME ScriptsInv, WritesFirst(program), BeforeFlush, NEW g \in Guests, Guest(g),
         NEW v \in Values, does(g, <<"vertices", v>>)
  PROVE  gpu = <<>>
<1>1. at[g] \in vertexWrites(program, g) /\ at[g] \in Nat
  BY GuestKeeps DEF vertexWrites, does, ScriptsInv
<1>2. ASSUME NEW h \in Guests, NEW place \in Places, NEW i \in Past(h),
             program.scripts[h][i] = <<"flush", place>>
      PROVE  FALSE
  <2>1. i \in flushes(program, h, place)
    BY <1>2 DEF flushes, ScriptsInv
  <2>2. g = h /\ at[g] < i
    BY <1>1, <2>1 DEF WritesFirst
  <2>. QED BY <1>1, <2>2 DEF Past
<1>. QED BY <1>2 DEF BeforeFlush

-----------------------------------------------------------------------------
\* A straight program, whose vertices are written behind fences.

\* A command that is no draw moves get on, and says what the buffer has it say.
Moves ==
  /\ get' = get + 1 /\ rsx' = rsx /\ gpu' = gpu /\ ~isDraw(buffer[get])
  /\ ref' = ref \/ buffer[get] = <<"reference", ref'>>
  /\ \A l \in Labels : label'[l] \in {0, label[l]} \/ isWrite(buffer[get], l, label'[l])
  /\ isFence(buffer[get]) => gpu = <<>>
Gives ==
  /\ get' = get /\ rsx' = "advance" /\ ref' = ref /\ label' = label
  /\ isDraw(buffer[get])

LEMMA StraightCommand ==
  ASSUME RsxTypeOK, Straight(program), buffer = program.buffer, ret = 0, rsx = "loop", command
  PROVE  /\ get # put /\ get \in DOMAIN buffer /\ put' = put /\ ret' = 0
         /\ Moves \/ Gives
<1>. DEFINE c == buffer[get]
<1>1. get # put /\ get \in DOMAIN buffer
  BY DEF command, flow, TransformConstantLoad, DrawArrays, DrawIndexArray, SetReference,
     semaphores, DriverQueue, DriverFlip, DriverInterrupt, interpret
<1>2. CASE flow
  <2>1. c = <<"nop">> /\ moveOn /\ ret' = ret
    BY <1>1, <1>2 DEF flow, Straight, interpret
  <2>2. ~isDraw(c) /\ ~isFence(c)
    BY <2>1 DEF isDraw, isFence
  <2>. QED BY <1>1, <1>2, <2>1, <2>2 DEF flow, moveOn, moveTo, seen, Moves
<1>3. CASE TransformConstantLoad
  <2>1. ~isDraw(c) /\ ~isFence(c)
    BY <1>3 DEF TransformConstantLoad, interpret, isDraw, isFence
  <2>. QED BY <1>1, <1>3, <2>1 DEF TransformConstantLoad, moveOn, moveTo, seen, Moves
<1>4. CASE DrawArrays
  <2>1. isDraw(c)
    BY <1>4 DEF DrawArrays, interpret, isDraw
  <2>. QED BY <1>1, <1>4, <2>1 DEF DrawArrays, gives, registers, Gives
<1>5. CASE DrawIndexArray
  <2>1. isDraw(c)
    BY <1>5 DEF DrawIndexArray, interpret, isDraw
  <2>. QED BY <1>1, <1>5, <2>1 DEF DrawIndexArray, gives, registers, Gives
<1>6. CASE SetReference
  <2>1. c = <<"reference", ref'>> /\ gpu = <<>>
    BY <1>6 DEF SetReference, interpret, waitForIdle
  <2>2. ~isDraw(c)
    BY <2>1 DEF isDraw
  <2>. QED BY <1>1, <1>6, <2>1, <2>2 DEF SetReference, moveOn, moveTo, Moves
<1>7. CASE semaphores
  <2>1. PICK l \in Labels, v \in Values :
          /\ label' = [label EXCEPT ![l] = v]
          /\ \/ c = <<"release", l, v>>
             \/ c = <<"backEndRelease", l, v>> /\ gpu = <<>>
             \/ c = <<"acquire", l, v>>
    BY <1>7 DEF semaphores, interpret, waitForIdle
  <2>2. label'[l] = v /\ \A k \in Labels \ {l} : label'[k] = label[k]
    BY <2>1 DEF RsxTypeOK, SeenTypes
  <2>3. isWrite(c, l, label'[l])
    BY <2>1, <2>2 DEF isWrite
  <2>4. ~isDraw(c)
    BY <2>1 DEF isDraw
  <2>5. isFence(c) => gpu = <<>>
    BY <2>1 DEF isFence
  <2>. QED BY <1>1, <1>7, <2>2, <2>3, <2>4, <2>5 DEF semaphores, moveOn, moveTo, Moves
<1>8. CASE DriverQueue \/ DriverFlip \/ DriverInterrupt
  <2>1. ~isDraw(c) /\ ~isFence(c)
    BY <1>8 DEF DriverQueue, DriverFlip, DriverInterrupt, interpret, isDraw, isFence
  <2>2. moveOn /\ UNCHANGED <<ret, ref, gpu>>
    BY <1>8 DEF DriverQueue, DriverFlip, DriverInterrupt
  <2>3. \A l \in Labels : label'[l] \in {0, label[l]}
    BY <1>8 DEF DriverQueue, DriverFlip, DriverInterrupt, RsxTypeOK, SeenTypes
  <2>. QED BY <1>1, <2>1, <2>2, <2>3 DEF moveOn, moveTo, Moves
<1>. QED BY <1>2, <1>3, <1>4, <1>5, <1>6, <1>7, <1>8 DEF command

\* What was said stays said while the RSX goes on.
LEMMA StillSaid ==
  ASSUME BehindInv, UNCHANGED guestVars, \A q \in DOMAIN buffer : passed(q) => passed(q)'
  PROVE  /\ ref' = ref => RefSaid'
         /\ \A l \in Labels : label'[l] = label[l] => LabelSaid(l)'
         /\ FencesPassed'
<1>. USE DEF BehindInv, guestVars
<1>1. ref' = ref => RefSaid'
  BY DEF RefSaid
<1>2. ASSUME NEW l \in Labels, label'[l] = label[l] PROVE LabelSaid(l)'
  BY <1>2 DEF LabelSaid
<1>3. FencesPassed'
  BY DEF FencesPassed, Past, Fenced
<1>. QED BY <1>1, <1>2, <1>3

LEMMA NumbersOf ==
  ASSUME ScriptsInv, RsxTypeOK, buffer = program.buffer
  PROVE  /\ \A q \in DOMAIN buffer : q \in Places /\ q \in Nat
         /\ get \in Nat /\ put \in Nat
<1>1. \A q \in DOMAIN program.buffer : q \in Places /\ q \in Nat
  BY RsxAssumption DEF ScriptsInv
<1>. QED BY <1>1 DEF RsxTypeOK, RegisterTypes

LEMMA BehindCommand ==
  ASSUME RsxTypeOK, ScriptsInv, Straight(program), BehindInv, rsx = "loop", command
  PROVE  BehindInv'
<1>0. /\ buffer = program.buffer /\ ret = 0 /\ PutFlushed /\ GetFollows /\ IdleSince
  BY DEF BehindInv
<1>1. /\ get # put /\ get \in DOMAIN buffer /\ put' = put /\ ret' = 0
      /\ Moves \/ Gives
  BY <1>0, StraightCommand
<1>2. UNCHANGED guestVars /\ UNCHANGED <<buffer, program, at>>
  BY RsxKeeps DEF RsxThread, guestVars
<1>3. get \in Nat /\ put \in Nat /\ \A q \in DOMAIN buffer : q \in Nat
  BY <1>0, NumbersOf
<1>4. ~early /\ ~drawing /\ ~early' /\ Begin <= get /\ get < put
  BY <1>0, <1>1, <1>3 DEF early, drawing, GetFollows, Moves, Gives
<1>5. PutFlushed'
  BY <1>0, <1>1, <1>2 DEF PutFlushed, Past
<1>6. get' \in {get, get + 1} /\ \A q \in DOMAIN buffer : passed(q) => passed(q)'
  <2>1. get' \in {get, get + 1}
    BY <1>1 DEF Moves, Gives
  <2>2. \A q \in DOMAIN buffer : q < get => q < get'
    BY <1>3, <2>1
  <2>. QED BY <1>4, <2>1, <2>2 DEF passed
<1>7. /\ ref' = ref => RefSaid'
      /\ \A l \in Labels : label'[l] = label[l] => LabelSaid(l)'
      /\ FencesPassed'
  BY <1>2, <1>6, StillSaid
<1>8. CASE Moves
  <2>0. get' = get + 1 /\ gpu' = gpu /\ rsx' = rsx
    BY <1>8 DEF Moves
  <2>1. get < get' /\ get' <= put' /\ Begin <= get' /\ ~drawing'
    BY <1>1, <1>3, <1>4, <2>0 DEF drawing, Begin
  <2>2. RefSaid'
    <3>1. CASE buffer[get] = <<"reference", ref'>>
      BY <1>1, <1>2, <1>4, <2>1, <3>1 DEF RefSaid, passed
    <3>. QED BY <1>7, <1>8, <3>1 DEF Moves
  <2>3. ASSUME NEW l \in Labels PROVE LabelSaid(l)'
    <3>1. CASE label'[l] = 0
      BY <3>1 DEF LabelSaid
    <3>2. CASE isWrite(buffer[get], l, label'[l])
      BY <1>1, <1>2, <1>4, <2>1, <3>2 DEF LabelSaid, passed, isWrite
    <3>. QED BY <1>7, <1>8, <3>1, <3>2 DEF Moves
  <2>4. GetFollows'
    BY <1>4, <2>1 DEF GetFollows
  <2>5. IdleSince'
    <3>. SUFFICES ASSUME NEW q \in {Begin - 1} \cup DOMAIN buffer,
                         q # Begin - 1 => isFence(buffer[q]), q < get',
                         \A r \in DOMAIN buffer : q < r /\ r < get' => ~isDraw(buffer[r])
                  PROVE  draws' = {}
      BY <1>2 DEF IdleSince
    <3>1. q \in Nat
      BY <1>3 DEF Begin
    <3>2. CASE q < get
      <4>1. \A r \in DOMAIN buffer : q < r /\ r < get => ~isDraw(buffer[r])
        <5>1. \A r \in DOMAIN buffer : r < get => r < get'
          BY <1>3, <2>0
        <5>. QED BY <5>1
      <4>2. draws = {}
        BY <1>0, <1>4, <3>2, <4>1 DEF IdleSince
      <4>. QED BY <2>0, <4>2 DEF draws
    <3>3. CASE q = get
      <4>1. isFence(buffer[get])
        BY <1>3, <1>4, <3>3 DEF Begin
      <4>. QED BY <1>8, <2>0, <4>1 DEF Moves, draws
    <3>. QED BY <1>3, <2>0, <3>1, <3>2, <3>3
  <2>. QED BY <1>0, <1>1, <1>2, <1>5, <1>7, <2>2, <2>3, <2>4, <2>5 DEF BehindInv
<1>9. CASE Gives
  <2>1. drawing' /\ get' = get /\ ref' = ref /\ label' = label /\ isDraw(buffer'[get'])
    BY <1>2, <1>9 DEF drawing, Gives, isDraw
  <2>2. GetFollows'
    BY <1>1, <1>2, <1>3, <1>4, <2>1 DEF GetFollows, isDraw
  <2>3. IdleSince'
    BY <2>1 DEF IdleSince
  <2>. QED BY <1>0, <1>1, <1>2, <1>5, <1>7, <2>1, <2>2, <2>3 DEF BehindInv
<1>. QED BY <1>1, <1>8, <1>9

LEMMA BehindDrawn ==
  ASSUME RsxTypeOK, ScriptsInv, BehindInv, advance \/ clientWait \/ drawn
  PROVE  BehindInv'
<1>0. /\ buffer = program.buffer /\ ret = 0 /\ PutFlushed /\ GetFollows
  BY DEF BehindInv
<1>1. /\ UNCHANGED guestVars /\ UNCHANGED <<buffer, program, at>>
      /\ put' = put /\ ret' = ret /\ ref' = ref /\ label' = label
  BY DEF advance, clientWait, drawn, registers, seen, guestVars
<1>2. get \in Nat /\ put \in Nat /\ \A q \in DOMAIN buffer : q \in Nat
  BY <1>0, NumbersOf
<1>3. drawing /\ ~early /\ Begin <= get /\ get < put /\ get \in DOMAIN buffer /\ isDraw(buffer[get])
  BY <1>0 DEF advance, clientWait, drawn, drawing, early, GetFollows
<1>4. \/ drawing' /\ get' = get
      \/ ~drawing' /\ get' = get + 1 /\ rsx' = "loop" /\ gpu' = gpu
  BY DEF advance, clientWait, drawn, registers, drawing
<1>5. ~early'
  BY DEF advance, clientWait, drawn, early
<1>6. PutFlushed'
  BY <1>0, <1>1 DEF PutFlushed, Past
<1>7. \A q \in DOMAIN buffer : passed(q) => passed(q)'
  <2>1. \A q \in DOMAIN buffer : q < get => q < get'
    BY <1>2, <1>4
  <2>. QED BY <1>5, <2>1 DEF passed
<1>8. RefSaid' /\ (\A l \in Labels : LabelSaid(l)') /\ FencesPassed'
  BY <1>1, <1>7, StillSaid
<1>9. CASE drawing' /\ get' = get
  <2>1. GetFollows'
    BY <1>1, <1>2, <1>3, <1>5, <1>9 DEF GetFollows, isDraw
  <2>2. IdleSince'
    BY <1>9 DEF IdleSince
  <2>. QED BY <1>0, <1>1, <1>6, <1>8, <2>1, <2>2 DEF BehindInv
<1>10. CASE ~drawing' /\ get' = get + 1
  <2>1. get < get' /\ get' <= put' /\ Begin <= get'
    BY <1>1, <1>2, <1>3, <1>10 DEF Begin
  <2>2. GetFollows'
    BY <1>5, <1>10, <2>1 DEF GetFollows
  <2>3. IdleSince'
    <3>. SUFFICES ASSUME NEW q \in {Begin - 1} \cup DOMAIN buffer,
                         q # Begin - 1 => isFence(buffer[q]), q < get',
                         \A r \in DOMAIN buffer : q < r /\ r < get' => ~isDraw(buffer[r])
                  PROVE  FALSE
      BY <1>1 DEF IdleSince, isFence, isDraw
    <3>1. q \in Nat
      BY <1>2 DEF Begin
    <3>2. ~(q < get)
      BY <1>3, <2>1
    <3>3. q = get
      BY <1>2, <1>10, <3>1, <3>2
    <3>4. isFence(buffer[get])
      BY <1>2, <1>3, <3>3 DEF Begin
    <3>. QED BY <1>3, <3>4 DEF isFence, isDraw
  <2>. QED BY <1>0, <1>1, <1>6, <1>8, <2>2, <2>3 DEF BehindInv
<1>. QED BY <1>4, <1>9, <1>10

\* The steps of the loop, and the GPU, which only makes the list of draws shorter.
LEMMA BehindLoop ==
  ASSUME RsxTypeOK, ScriptsInv, BehindInv, initGcm \/ loop \/ caughtUp \/ check \/ ends \/ gpuWorks
  PROVE  BehindInv'
<1>0. /\ buffer = program.buffer /\ ret = 0 /\ PutFlushed /\ GetFollows /\ IdleSince
  BY DEF BehindInv
<1>1. /\ UNCHANGED guestVars /\ UNCHANGED <<buffer, program, at, label>>
  BY DEF initGcm, loop, caughtUp, check, ends, gpuWorks, guestVars
<1>2. CASE loop
  <2>1. /\ rsx = "registers" /\ rsx' = "loop" /\ gpu' = gpu
        /\ get' = Begin /\ put' = Begin /\ ref' = NoRef /\ ret' = 0
    BY <1>2 DEF loop
  <2>2. early /\ ~early' /\ ~drawing' /\ gpu = <<>>
    BY <1>0, <2>1 DEF early, drawing, GetFollows
  <2>3. \A q \in DOMAIN buffer : ~passed(q)
    BY <2>2 DEF passed
  <2>4. (\A l \in Labels : LabelSaid(l)') /\ FencesPassed'
    BY <1>1, <2>3, StillSaid
  <2>5. PutFlushed' /\ RefSaid' /\ GetFollows'
    BY <2>1, <2>2 DEF PutFlushed, RefSaid, GetFollows, Begin
  <2>6. IdleSince'
    BY <2>1, <2>2 DEF IdleSince, draws
  <2>. QED BY <1>0, <1>1, <2>1, <2>4, <2>5, <2>6 DEF BehindInv
<1>3. CASE initGcm \/ caughtUp \/ check \/ ends \/ gpuWorks
  <2>1. /\ UNCHANGED <<get, put, ref, ret>>
        /\ early' <=> early
        /\ drawing' <=> drawing
        /\ gpu' = gpu \/ (gpu # <<>> /\ gpu' = Tail(gpu))
    BY <1>3 DEF initGcm, caughtUp, check, ends, gpuWorks, registers, early, drawing
  <2>2. \A q \in DOMAIN buffer : passed(q)' <=> passed(q)
    BY <2>1 DEF passed
  <2>3. RefSaid' /\ (\A l \in Labels : LabelSaid(l)') /\ FencesPassed'
    BY <1>1, <2>1, <2>2, StillSaid
  <2>4. PutFlushed' /\ GetFollows'
    BY <1>0, <1>1, <2>1 DEF PutFlushed, GetFollows, Past, isDraw
  <2>5. draws = {} => draws' = {}
    <3>1. CASE gpu' = gpu
      BY <3>1 DEF draws
    <3>2. CASE gpu # <<>> /\ gpu' = Tail(gpu)
      <4>1. \A i \in DOMAIN gpu' : i + 1 \in DOMAIN gpu /\ gpu'[i] = gpu[i + 1]
        BY <3>2 DEF RsxTypeOK, DrawTypes
      <4>. QED BY <4>1 DEF draws
    <3>. QED BY <2>1, <3>1, <3>2
  <2>6. IdleSince'
    BY <1>0, <1>1, <2>1, <2>5 DEF IdleSince
  <2>. QED BY <1>0, <1>1, <2>1, <2>3, <2>4, <2>6 DEF BehindInv
<1>. QED BY <1>2, <1>3

\* The flush of a guest: put goes on, and get stays behind it.
LEMMA BehindFlush ==
  ASSUME RsxTypeOK, ScriptsInv, WritesBehind(program), BehindInv,
         NEW g \in Guests, Guest(g), NEW place \in Places, does(g, <<"flush", place>>)
  PROVE  early \/ put <= place
<1>. SUFFICES ASSUME ~early PROVE put <= place
  OBVIOUS
<1>1. PICK f \in Guests :
        /\ \A h \in Guests \ {f} : \A p \in Places : flushes(program, h, p) = {}
        /\ \A p \in Places : \A i \in flushes(program, f, p) :
             Begin <= p /\ \A r \in Places : \A j \in flushes(program, f, r) : j < i => r <= p
  BY DEF WritesBehind
<1>2. at[g] \in flushes(program, g, place)
  BY GuestKeeps DEF does, flushes
<1>3. g = f
  BY <1>1, <1>2
<1>4. put \in Nat /\ get \in Nat /\ Begin <= get /\ get <= put /\ place \in Nat
  BY RsxAssumption DEF BehindInv, GetFollows, RsxTypeOK, RegisterTypes
<1>5. CASE put \in {0, Begin}
  BY <1>1, <1>2, <1>3, <1>4, <1>5 DEF Begin
<1>6. ASSUME NEW h \in Guests, NEW i \in Past(h), put \in Places,
             program.scripts[h][i] = <<"flush", put>>
      PROVE  put <= place
  <2>1. i \in flushes(program, h, put)
    BY <1>6 DEF flushes, ScriptsInv
  <2>2. h = g
    BY <1>1, <1>3, <1>6, <2>1
  <2>3. i < at[g]
    BY <2>2 DEF Past, ScriptsInv
  <2>. QED BY <1>1, <1>2, <1>3, <1>6, <2>1, <2>2, <2>3
<1>. QED BY <1>5, <1>6 DEF BehindInv, PutFlushed

\* A fence lets a thread pass only when the RSX has carried it out.
LEMMA FenceWaited ==
  ASSUME RsxTypeOK, ScriptsInv, Straight(program), BehindInv, NEW g \in Guests, Guest(g),
         NEW q \in DOMAIN buffer, Fenced(program, q, program.scripts[g][at[g]])
  PROVE  passed(q)
<1>. DEFINE s == program.scripts[g][at[g]]
<1>0. buffer = program.buffer /\ RefSaid /\ \A l \in Labels : LabelSaid(l)
  BY DEF BehindInv
<1>1. ASSUME NEW v \in Values \ {0, NoRef}, s = <<"awaitRef", v>>,
             \A r \in DOMAIN buffer : buffer[r] = <<"reference", v>> => r = q
      PROVE  passed(q)
  <2>1. ref = v
    BY <1>1 DEF Guest, contextAllocate, guestMemory, resetFlipStatus, receive, shuts, does
  <2>. QED BY <1>0, <1>1, <2>1 DEF RefSaid
<1>2. ASSUME NEW l \in Labels, NEW v \in Values \ {0}, s = <<"awaitLabel", l, v>>,
             \A r \in DOMAIN buffer : isWrite(buffer[r], l, v) => r = q, <<l, v>> # <<3, 1>>,
             \A h \in Guests : \A i \in DOMAIN program.scripts[h] :
               program.scripts[h][i] # <<"label", l, v>>
      PROVE  passed(q)
  <2>1. label[l] = v
    BY <1>2 DEF Guest, contextAllocate, guestMemory, resetFlipStatus, receive, shuts, does
  <2>. QED BY <1>0, <1>2, <2>1 DEF LabelSaid
<1>. QED BY <1>0, <1>1, <1>2 DEF Fenced, isWrite

LEMMA BehindGuest ==
  ASSUME RsxTypeOK, ScriptsInv, WritesBehind(program), BehindInv, NEW g \in Guests, Guest(g)
  PROVE  BehindInv'
<1>. DEFINE s == program.scripts[g][at[g]]
<1>0. /\ buffer = program.buffer /\ ret = 0 /\ PutFlushed /\ GetFollows /\ RefSaid
      /\ (\A l \in Labels : LabelSaid(l)) /\ FencesPassed /\ IdleSince
  BY DEF BehindInv
<1>1. Straight(program)
  BY DEF WritesBehind
<1>2. /\ program' = program /\ UNCHANGED <<get, ref, ret, gpu>>
      /\ early' <=> early
      /\ drawing' <=> drawing
      /\ Past(g)' = Past(g) \cup {at[g]} /\ at[g] \in DOMAIN program.scripts[g]
      /\ \A h \in Guests \ {g} : Past(h)' = Past(h)
  BY GuestKeeps DEF early, drawing
<1>3. \A h \in Guests : Past(h) \subseteq Past(h)'
  BY <1>2
<1>4. buffer' = buffer
  <2>1. \A q \in DOMAIN buffer : s # <<"patch", q>>
    BY <1>0, <1>1, <1>2 DEF Straight
  <2>. QED BY <2>1 DEF Guest, contextAllocate, guestMemory, resetFlipStatus, receive, shuts,
           does, memoryApart
<1>5. \A q \in DOMAIN buffer : passed(q)' <=> passed(q)
  BY <1>2 DEF passed
<1>6. \/ put' = put
      \/ \E place \in Places : does(g, <<"flush", place>>) /\ put' = place
  BY DEF Guest, contextAllocate, guestMemory, resetFlipStatus, receive, shuts
<1>7. PutFlushed' /\ GetFollows'
  <2>1. CASE put' = put
    BY <1>0, <1>2, <1>3, <1>4, <2>1 DEF PutFlushed, GetFollows, isDraw
  <2>2. CASE \E place \in Places : does(g, <<"flush", place>>) /\ put' = place
    <3>1. PICK place \in Places : does(g, <<"flush", place>>) /\ put' = place
      BY <2>2
    <3>2. program'.scripts[g][at[g]] = <<"flush", put'>> /\ at[g] \in Past(g)' /\ put' \in Places
      BY <1>2, <3>1 DEF does
    <3>3. PutFlushed'
      BY <3>2 DEF PutFlushed
    <3>4. early \/ put <= put'
      BY <3>1, BehindFlush
    <3>5. get \in Nat /\ put \in Nat /\ put' \in Nat
      BY <1>0, <3>1, NumbersOf, RsxAssumption
    <3>6. GetFollows'
      BY <1>0, <1>2, <1>4, <3>4, <3>5 DEF GetFollows, isDraw
    <3>. QED BY <3>3, <3>6
  <2>. QED BY <1>6, <2>1, <2>2
<1>8. RefSaid'
  BY <1>0, <1>2, <1>4, <1>5 DEF RefSaid
<1>9. ASSUME NEW l \in Labels PROVE LabelSaid(l)'
  <2>1. \/ label'[l] = label[l]
        \/ <<l, label'[l]>> = <<3, 1>>
        \/ s = <<"label", l, label'[l]>>
    <3>1. CASE label' = label
      BY <3>1
    <3>2. CASE contextAllocate(g)
      BY <3>2 DEF contextAllocate, RsxTypeOK, SeenTypes
    <3>3. ASSUME NEW k \in Labels, NEW v \in Values, s = <<"label", k, v>>,
                 label' = [label EXCEPT ![k] = v]
          PROVE  \/ label'[l] = label[l]
                 \/ s = <<"label", l, label'[l]>>
      BY <3>3 DEF RsxTypeOK, SeenTypes
    <3>. QED BY <3>1, <3>2, <3>3
             DEF Guest, guestMemory, resetFlipStatus, receive, shuts, does
  <2>2. CASE label'[l] = label[l]
    BY <1>0, <1>2, <1>4, <1>5, <2>2 DEF LabelSaid, isWrite
  <2>3. CASE s = <<"label", l, label'[l]>>
    BY <1>2, <2>3 DEF LabelSaid
  <2>. QED BY <2>1, <2>2, <2>3 DEF LabelSaid
<1>10. FencesPassed'
  <2>. SUFFICES ASSUME NEW h \in Guests, NEW i \in Past(h)', NEW q \in DOMAIN buffer,
                       Fenced(program, q, program.scripts[h][i])
                PROVE  passed(q)
    BY <1>2, <1>4, <1>5 DEF FencesPassed
  <2>1. CASE i \in Past(h)
    BY <1>0, <2>1 DEF FencesPassed
  <2>2. CASE h = g /\ i = at[g]
    BY <1>1, <2>2, FenceWaited
  <2>. QED BY <1>2, <2>1, <2>2
<1>11. IdleSince'
  BY <1>0, <1>2, <1>4 DEF IdleSince, draws, isFence, isDraw
<1>. QED BY <1>0, <1>2, <1>4, <1>7, <1>8, <1>9, <1>10, <1>11 DEF BehindInv

\* Where a thread writes vertices the GPU has no draw: the thread has passed a
\* fence behind all the draws it has flushed, and the RSX is not beyond those.
LEMMA BehindWrites ==
  ASSUME RsxTypeOK, ScriptsInv, WritesBehind(program), BehindInv, NEW g \in Guests, Guest(g),
         NEW v \in Values, does(g, <<"vertices", v>>)
  PROVE  draws = {}
<1>. DEFINE i == at[g]
<1>0. /\ buffer = program.buffer /\ PutFlushed /\ GetFollows /\ FencesPassed /\ IdleSince
  BY DEF BehindInv
<1>1. CASE early
  BY <1>0, <1>1 DEF GetFollows, draws
<1>2. CASE ~early
  <2>1. PICK f \in Guests :
          /\ \A h \in Guests \ {f} :
               vertexWrites(program, h) = {} /\ \A p \in Places : flushes(program, h, p) = {}
          /\ \A k \in vertexWrites(program, f) : \E q \in {Begin - 1} \cup DOMAIN program.buffer :
               /\ q # Begin - 1 => \E j \in 1 .. k - 1 : Fenced(program, q, program.scripts[f][j])
               /\ \A p \in Places : \A j \in flushes(program, f, p) : j < k =>
                    \A r \in DOMAIN program.buffer : q < r /\ r < p => ~isDraw(program.buffer[r])
    BY DEF WritesBehind
  <2>2. i \in vertexWrites(program, g) /\ i \in Nat
    BY GuestKeeps DEF does, vertexWrites, ScriptsInv
  <2>3. g = f
    BY <2>1, <2>2
  <2>4. PICK q \in {Begin - 1} \cup DOMAIN buffer :
          /\ q # Begin - 1 => \E j \in 1 .. i - 1 : Fenced(program, q, program.scripts[g][j])
          /\ \A p \in Places : \A j \in flushes(program, g, p) : j < i =>
               \A r \in DOMAIN buffer : q < r /\ r < p => ~isDraw(buffer[r])
    BY <1>0, <2>1, <2>2, <2>3
  <2>5. /\ get \in Nat /\ put \in Nat /\ q \in Nat /\ \A r \in DOMAIN buffer : r \in Nat
        /\ Begin <= get /\ get <= put
    BY <1>0, <1>2, NumbersOf DEF Begin, GetFollows
  <2>6. q # Begin - 1 => isFence(buffer[q]) /\ passed(q)
    <3>. SUFFICES ASSUME q # Begin - 1 PROVE isFence(buffer[q]) /\ passed(q)
      OBVIOUS
    <3>1. PICK j \in Past(g) : Fenced(program, q, program.scripts[g][j])
      BY <2>4 DEF Past
    <3>2. passed(q)
      BY <1>0, <3>1 DEF FencesPassed
    <3>3. isFence(buffer[q])
      BY <1>0, <3>1 DEF Fenced, isFence
    <3>. QED BY <3>2, <3>3
  <2>7. q < get
    BY <2>5, <2>6 DEF passed, Begin
  <2>8. ASSUME NEW r \in DOMAIN buffer, q < r, r < put PROVE ~isDraw(buffer[r])
    <3>1. CASE put \in {0, Begin}
      BY <2>5, <2>8, <3>1 DEF Begin
    <3>2. ASSUME NEW h \in Guests, NEW j \in Past(h), put \in Places,
                 program.scripts[h][j] = <<"flush", put>>
          PROVE  ~isDraw(buffer[r])
      <4>1. j \in flushes(program, h, put)
        BY <3>2 DEF flushes, ScriptsInv
      <4>2. h = g
        BY <2>1, <2>3, <3>2, <4>1
      <4>3. j < i
        BY <2>2, <4>2 DEF Past
      <4>. QED BY <2>4, <2>8, <3>2, <4>1, <4>2, <4>3
    <3>. QED BY <1>0, <3>1, <3>2 DEF PutFlushed
  <2>9. ~drawing
    BY <1>0, <1>2, <2>7, <2>8 DEF GetFollows
  <2>10. \A r \in DOMAIN buffer : q < r /\ r < get => ~isDraw(buffer[r])
    <3>1. \A r \in DOMAIN buffer : r < get => r < put
      BY <2>5
    <3>. QED BY <2>8, <3>1
  <2>. QED BY <1>0, <1>2, <2>6, <2>7, <2>9, <2>10 DEF IdleSince
<1>. QED BY <1>1, <1>2

-----------------------------------------------------------------------------

\* A draw is given with the vertices of that moment, and they stay as they are
\* until it is carried out.
LEMMA VerticesStay ==
  ASSUME RsxTypeOK, DrawsSeeTheirVertices, RsxNext, vertices' = vertices
  PROVE  DrawsSeeTheirVertices'
<1>1. CASE gpu' = gpu
  BY <1>1 DEF DrawsSeeTheirVertices, draws
<1>2. CASE gpu # <<>> /\ gpu' = Tail(gpu)
  <2>1. \A i \in DOMAIN gpu' : i + 1 \in DOMAIN gpu /\ gpu'[i] = gpu[i + 1]
    BY <1>2 DEF RsxTypeOK, DrawTypes
  <2>. QED BY <2>1 DEF DrawsSeeTheirVertices, draws
<1>3. ASSUME NEW kind, NEW indices, gpu' = Append(gpu, work(kind, indices))
      PROVE  DrawsSeeTheirVertices'
  <2>1. \A i \in DOMAIN gpu' : (i \in DOMAIN gpu /\ gpu'[i] = gpu[i]) \/ gpu'[i] = work(kind, indices)
    BY <1>3 DEF RsxTypeOK, DrawTypes
  <2>2. work(kind, indices).vertices = vertices
    BY DEF work
  <2>. QED BY <2>1, <2>2 DEF DrawsSeeTheirVertices, draws
<1>4. CASE RsxThread
  <2>1. \/ gpu' = gpu
        \/ \E kind, indices : gpu' = Append(gpu, work(kind, indices))
    <3>1. CASE advance \/ DrawArrays \/ DrawIndexArray
      BY <3>1 DEF advance, DrawArrays, DrawIndexArray, gives
    <3>2. CASE ~(advance \/ DrawArrays \/ DrawIndexArray)
      BY <1>4, <3>2 DEF RsxThread, initGcm, loop, caughtUp, check, ends, command, clientWait,
         drawn, flow, TransformConstantLoad, SetReference, semaphores, DriverQueue, DriverFlip,
         DriverInterrupt
    <3>. QED BY <3>1, <3>2
  <2>. QED BY <1>1, <1>3, <2>1
<1>5. CASE gpuWorks
  BY <1>2, <1>5 DEF gpuWorks
<1>6. CASE \E g \in Guests : Guest(g)
  BY <1>1, <1>6 DEF Guest, contextAllocate, guestMemory, resetFlipStatus, receive, shuts, rsxApart
<1>. QED BY <1>4, <1>5, <1>6 DEF RsxNext

LEMMA VerticesStep ==
  ASSUME WritesInTime, RsxTypeOK, VerticesInv, [RsxNext]_rsxVars
  PROVE  VerticesInv'
<1>0. ScriptsInv /\ DrawsSeeTheirVertices
  BY DEF VerticesInv
<1>1. ASSUME program' = program
      PROVE  /\ WritesFirst(program)' <=> WritesFirst(program)
             /\ WritesBehind(program)' <=> WritesBehind(program)
  BY <1>1 DEF WritesFirst, WritesBehind, vertexWrites, flushes, Straight, Fenced, isDraw
<1>2. CASE UNCHANGED rsxVars
  <2>1. /\ UNCHANGED guestVars
        /\ UNCHANGED <<program, at, buffer, vertices, get, put, ref, ret, label, gpu, rsx>>
    BY <1>2 DEF rsxVars, registers, guestVars
  <2>2. ScriptsInv' /\ DrawsSeeTheirVertices'
    BY <1>0, <2>1 DEF ScriptsInv, Past, DrawsSeeTheirVertices, draws
  <2>3. WritesFirst(program) => BeforeFlush'
    BY <2>1 DEF VerticesInv, BeforeFlush, Past, drawing
  <2>4. ASSUME BehindInv PROVE BehindInv'
    <3>1. \A q \in DOMAIN buffer : passed(q)' <=> passed(q)
      BY <2>1 DEF passed, early
    <3>2. RefSaid' /\ FencesPassed' /\ \A l \in Labels : LabelSaid(l)'
      BY <2>1, <2>4, <3>1, StillSaid
    <3>3. PutFlushed' /\ GetFollows' /\ IdleSince'
      <4>1. PutFlushed /\ GetFollows /\ IdleSince
        BY <2>4 DEF BehindInv
      <4>2. (early' <=> early) /\ (drawing' <=> drawing) /\ draws' = draws
        BY <2>1 DEF early, drawing, draws
      <4>3. PutFlushed' /\ GetFollows'
        BY <2>1, <4>1, <4>2 DEF PutFlushed, GetFollows, Past, isDraw
      <4>4. IdleSince'
        BY <2>1, <4>1, <4>2 DEF IdleSince
      <4>. QED BY <4>3, <4>4
    <3>. QED BY <2>1, <2>4, <3>2, <3>3 DEF BehindInv
  <2>. QED BY <1>1, <2>1, <2>2, <2>3, <2>4 DEF VerticesInv
<1>3. CASE RsxThread \/ gpuWorks
  <2>1. UNCHANGED guestVars /\ UNCHANGED <<program, at, vertices>>
    BY <1>3, RsxKeeps DEF guestVars
  <2>2. ScriptsInv'
    BY <1>0, <2>1 DEF ScriptsInv, Past
  <2>3. DrawsSeeTheirVertices'
    BY <1>0, <1>3, <2>1, VerticesStay DEF RsxNext
  <2>4. WritesFirst(program) => BeforeFlush'
    BY <1>3, FirstRsx DEF VerticesInv
  <2>5. ASSUME WritesBehind(program) PROVE BehindInv'
    <3>1. BehindInv /\ Straight(program)
      BY <2>5 DEF VerticesInv, WritesBehind
    <3>2. CASE rsx = "loop" /\ command
      BY <1>0, <3>1, <3>2, BehindCommand
    <3>3. CASE advance \/ clientWait \/ drawn
      BY <1>0, <3>1, <3>3, BehindDrawn
    <3>4. CASE initGcm \/ loop \/ caughtUp \/ check \/ ends \/ gpuWorks
      BY <1>0, <3>1, <3>4, BehindLoop
    <3>. QED BY <1>3, <3>2, <3>3, <3>4 DEF RsxThread
  <2>. QED BY <1>1, <2>1, <2>2, <2>3, <2>4, <2>5 DEF VerticesInv
<1>4. ASSUME NEW g \in Guests, Guest(g) PROVE VerticesInv'
  <2>1. ScriptsInv' /\ program' = program /\ gpu' = gpu
    BY <1>0, <1>4, GuestKeeps
  <2>2. DrawsSeeTheirVertices'
    <3>1. CASE vertices' = vertices
      BY <1>0, <1>4, <3>1, VerticesStay DEF RsxNext
    <3>2. CASE \E v \in Values : does(g, <<"vertices", v>>)
      <4>1. draws = {}
        <5>1. CASE WritesFirst(program)
          BY <1>0, <1>4, <3>2, <5>1, FirstWrites DEF VerticesInv, draws
        <5>2. CASE WritesBehind(program)
          BY <1>0, <1>4, <3>2, <5>2, BehindWrites DEF VerticesInv
        <5>. QED BY <1>0, <5>1, <5>2 DEF WritesInTime, ScriptsInv
      <4>. QED BY <2>1, <4>1 DEF DrawsSeeTheirVertices, draws
    <3>. QED BY <1>4, <3>1, <3>2 DEF Guest, contextAllocate, guestMemory, resetFlipStatus, receive,
             shuts, memoryApart
  <2>3. WritesFirst(program) => BeforeFlush'
    BY <1>0, <1>4, FirstGuest DEF VerticesInv
  <2>4. WritesBehind(program) => BehindInv'
    BY <1>0, <1>4, BehindGuest DEF VerticesInv
  <2>. QED BY <1>1, <2>1, <2>2, <2>3, <2>4 DEF VerticesInv
<1>. QED BY <1>2, <1>3, <1>4 DEF RsxNext

LEMMA VerticesBegin == ASSUME RsxInit PROVE VerticesInv
<1>1. ScriptsInv
  BY DEF RsxInit, ScriptsInv, Past
<1>2. DrawsSeeTheirVertices /\ BeforeFlush
  BY DEF RsxInit, DrawsSeeTheirVertices, draws, BeforeFlush, drawing
<1>3. BehindInv
  <2>1. PutFlushed /\ GetFollows /\ RefSaid /\ IdleSince
    BY DEF RsxInit, PutFlushed, GetFollows, RefSaid, IdleSince, early
  <2>2. \A l \in Labels : LabelSaid(l)
    BY DEF RsxInit, LabelSaid
  <2>3. FencesPassed
    BY DEF RsxInit, FencesPassed, Past
  <2>. QED BY <2>1, <2>2, <2>3 DEF RsxInit, BehindInv
<1>. QED BY <1>1, <1>2, <1>3 DEF VerticesInv

\* The vertices of a draw stay in the guest's memory as they were when the draw
\* was given, until the GPU has carried it out, whatever the program draws, and
\* however far the RSX thread is behind the guest and the GPU behind the RSX
\* thread (SetReference and BackEndWriteSemaphoreRelease wait for the GPU before
\* the guest can see them).
THEOREM DrawsKeepTheirVertices ==
  ASSUME WritesInTime
  PROVE  RsxSpec => []DrawsSeeTheirVertices
<1>1. RsxInit => RsxTypeOK /\ VerticesInv
  BY VerticesBegin, InitTypes
<1>2. RsxTypeOK /\ VerticesInv /\ [RsxNext]_rsxVars => (RsxTypeOK /\ VerticesInv)'
  BY VerticesStep, StepTypes
<1>3. VerticesInv => DrawsSeeTheirVertices
  BY DEF VerticesInv
<1>. QED BY <1>1, <1>2, <1>3, PTL DEF RsxSpec
-----------------------------------------------------------------------------
(* The texture cache                                                       *)

TextureTypeOK ==
  /\ cached \subseteq Textures /\ dirty \subseteq Textures
  /\ marked \subseteq Pages /\ todo \subseteq Textures
  /\ stale \subseteq cached \X Pages
  /\ pass \in {"none", "update", "watch", "reset"}
  /\ writing \in [Writers -> SUBSET Pages]

\* A pair is stale because of a page under its texture.
StaleUnder == \A pair \in stale : pair[2] \in Span[pair[1]]

\* The pages that a store has yet to mark are two at most, one after the other.
StoresInPages ==
  \A w \in Stores : \A p, q \in writing[w] : p <= q => q = p \/ q = p + 1

\* What a running writeMemory has yet to write is marked, or its mark was cleared.
CopiesMarked == \A w \in Copies : writing[w] \subseteq marked \cup wiped

\* Once the watch has asked for a texture that is clean, only marks that came
\* after the beginning of the watch are under it.
WatchedIsLate ==
  \A t \in cached \ dirty :
    pass = "reset" \/ (pass = "watch" /\ t \notin todo) => scanned(t) \cap marked \subseteq late

TextureInv == TextureTypeOK /\ StaleUnder /\ StoresInPages /\ CopiesMarked /\ WatchedIsLate

LEMMA PagesAreInts == Pages \subseteq Int
<1>1. Cardinality(Pages) \in Nat
  BY TextureAssumption, FS_CardinalityType
<1> QED BY <1>1, TextureAssumption

LEMMA RangeInPages == ASSUME NEW first, NEW n PROVE range(first, n) \subseteq Pages
BY DEF range

LEMMA ScannedInPages ==
  ASSUME NEW t \in Textures
  PROVE  /\ Span[t] \subseteq Pages /\ Span[t] \subseteq scanned(t)
         /\ scanned(t) \subseteq Pages
BY TextureAssumption DEF scanned

LEMMA WrittenKeeps ==
  ASSUME TextureTypeOK, StaleUnder, NEW pages \in SUBSET Pages, written(pages), cached' = cached
  PROVE  (stale \subseteq cached \X Pages)' /\ StaleUnder'
BY DEF TextureTypeOK, StaleUnder, written

\* A mark is under what is being written, and late if a watch is going on.
LEMMA MarkKeeps ==
  ASSUME TextureInv, NEW pages \in SUBSET Pages, mark(pages),
         UNCHANGED <<cached, pass, todo>>, dirty \subseteq dirty'
  PROVE  /\ (marked \subseteq Pages)' /\ WatchedIsLate'
         /\ marked \cup wiped \subseteq marked' \cup wiped'
<1>1. marked' = marked \cup pages /\ wiped' = wiped \ pages
  BY DEF mark
<1>2. pass \in {"watch", "reset"} => late' = late \cup pages
  BY DEF mark
<1>3. WatchedIsLate'
  <2> SUFFICES ASSUME NEW t \in cached \ dirty,
                      pass = "reset" \/ (pass = "watch" /\ t \notin todo)
               PROVE  scanned(t) \cap marked' \subseteq late'
    BY DEF WatchedIsLate, scanned
  <2> QED BY <1>1, <1>2 DEF TextureInv, WatchedIsLate
<1> QED BY <1>1, <1>3 DEF TextureInv, TextureTypeOK

LEMMA WritersKeep ==
  ASSUME TextureInv, NEW w \in Writers,
         (w \in Stores /\ (store(w) \/ storeMarks(w))) \/ (w \in Copies /\ (writeMemory(w) \/ writesLine(w)))
  PROVE  TextureInv'
<1> USE DEF TextureInv
<1>1. CASE w \in Stores /\ store(w)
  <2>1. PICK p \in Pages, n \in {1, 2} :
          written(range(p, n)) /\ writing' = [writing EXCEPT ![w] = range(p, n)]
    BY <1>1 DEF store
  <2>2. range(p, n) \subseteq Pages
    BY RangeInPages
  <2>3. UNCHANGED <<cached, dirty, marked, pass, todo, late, wiped>>
    BY <1>1 DEF store, cacheVars, drawVars
  <2>4. TextureTypeOK' /\ StaleUnder'
    BY <2>1, <2>2, <2>3, WrittenKeeps DEF TextureTypeOK
  <2>5. StoresInPages'
    <3>1. \A a, b \in range(p, n) : a <= b => b = a \/ b = a + 1
      BY PagesAreInts DEF range
    <3> QED BY <2>1, <3>1 DEF StoresInPages, TextureTypeOK, Writers
  <2>6. CopiesMarked'
    BY <1>1, <2>1, <2>3, TextureAssumption DEF CopiesMarked, TextureTypeOK, Writers
  <2>7. WatchedIsLate'
    BY <2>3 DEF WatchedIsLate, scanned
  <2> QED BY <2>4, <2>5, <2>6, <2>7
<1>2. CASE w \in Stores /\ storeMarks(w)
  <2>1. PICK p \in writing[w] : mark(range(p, 2))
    BY <1>2 DEF storeMarks
  <2>2. writing' = [writing EXCEPT ![w] = {}] /\ UNCHANGED <<cached, dirty, stale, pass, todo>>
    BY <1>2 DEF storeMarks, cacheVars, drawVars
  <2>3. /\ (marked \subseteq Pages)' /\ WatchedIsLate'
        /\ marked \cup wiped \subseteq marked' \cup wiped'
    BY <2>1, <2>2, RangeInPages, MarkKeeps
  <2>4. TextureTypeOK' /\ StaleUnder'
    BY <2>2, <2>3 DEF TextureTypeOK, StaleUnder
  <2>5. StoresInPages' /\ CopiesMarked'
    BY <2>2, <2>3 DEF StoresInPages, CopiesMarked, TextureTypeOK, Writers
  <2> QED BY <2>3, <2>4, <2>5
<1>3. CASE w \in Copies /\ writeMemory(w)
  <2>1. PICK p \in Pages, n \in 1 .. MaxSize :
          mark(range(p, n)) /\ writing' = [writing EXCEPT ![w] = range(p, n)]
    BY <1>3 DEF writeMemory
  <2>2. UNCHANGED <<cached, dirty, stale, pass, todo>>
    BY <1>3 DEF writeMemory, cacheVars, drawVars
  <2>3. /\ (marked \subseteq Pages)' /\ WatchedIsLate'
        /\ marked \cup wiped \subseteq marked' \cup wiped'
    BY <2>1, <2>2, RangeInPages, MarkKeeps
  <2>4. TextureTypeOK' /\ StaleUnder'
    BY <2>1, <2>2, <2>3, RangeInPages DEF TextureTypeOK, StaleUnder
  <2>5. StoresInPages'
    BY <1>3, <2>1, TextureAssumption DEF StoresInPages, TextureTypeOK, Writers
  <2>6. range(p, n) \subseteq marked'
    BY <2>1 DEF mark
  <2>7. CopiesMarked'
    BY <2>1, <2>3, <2>6 DEF CopiesMarked, TextureTypeOK, Writers
  <2> QED BY <2>3, <2>4, <2>5, <2>7
<1>4. CASE w \in Copies /\ writesLine(w)
  <2>1. PICK p \in writing[w] :
          /\ written({p}) /\ writing' = [writing EXCEPT ![w] = @ \ {p}]
          /\ wiped' = wiped \cap UNION {writing'[v] : v \in Copies}
    BY <1>4 DEF writesLine
  <2>2. UNCHANGED <<cached, dirty, marked, pass, todo, late>>
    BY <1>4 DEF writesLine, cacheVars, drawVars
  <2>3. p \in Pages
    BY DEF TextureTypeOK
  <2>4. TextureTypeOK' /\ StaleUnder'
    BY <2>1, <2>2, <2>3, WrittenKeeps DEF TextureTypeOK
  <2>5. StoresInPages'
    BY <1>4, <2>1, TextureAssumption DEF StoresInPages, TextureTypeOK, Writers
  <2>6. \A v \in Copies : writing'[v] \subseteq writing[v]
    BY <2>1 DEF TextureTypeOK, Writers
  <2>7. CopiesMarked'
    <3> SUFFICES ASSUME NEW v \in Copies, NEW q \in writing'[v] PROVE q \in marked \cup wiped'
      BY <2>2 DEF CopiesMarked
    <3>1. q \in marked \cup wiped
      BY <2>6 DEF CopiesMarked
    <3> QED BY <2>1, <3>1
  <2>8. WatchedIsLate'
    BY <2>2 DEF WatchedIsLate, scanned
  <2> QED BY <2>4, <2>5, <2>7, <2>8
<1> QED BY <1>1, <1>2, <1>3, <1>4

LEMMA DrawsKeep == ASSUME TextureInv, RsxDraws PROVE TextureInv'
<1> USE DEF TextureInv
<1>1. UNCHANGED writing /\ StoresInPages'
  BY DEF RsxDraws, beginDraw, getTextureFromCache, beginWatch, watchTextureCache, beginReset,
         resetCacheWatch, endDraw, StoresInPages
<1>2. CASE beginDraw
  BY <1>1, <1>2 DEF beginDraw, cacheVars, TextureTypeOK, StaleUnder, CopiesMarked, WatchedIsLate
<1>3. CASE getTextureFromCache
  <2>1. PICK t \in todo :
          /\ todo' = todo \ {t} /\ cached' = cached \cup {t} /\ dirty' = dirty \ {t}
          /\ stale' = IF t \in cached \ dirty THEN stale ELSE {pair \in stale : pair[1] # t}
    BY <1>3 DEF getTextureFromCache
  <2>2. stale' \subseteq stale /\ pass = "update" /\ UNCHANGED <<marked, pass, wiped>>
    BY <1>3, <2>1 DEF getTextureFromCache
  <2>3. TextureTypeOK'
    BY <1>1, <2>1, <2>2 DEF TextureTypeOK
  <2>4. StaleUnder' /\ CopiesMarked' /\ WatchedIsLate'
    BY <1>1, <2>2 DEF StaleUnder, CopiesMarked, WatchedIsLate
  <2> QED BY <1>1, <2>3, <2>4
<1>4. CASE beginWatch
  <2>1. TextureTypeOK' /\ StaleUnder' /\ CopiesMarked'
    BY <1>1, <1>4 DEF beginWatch, cacheVars, TextureTypeOK, StaleUnder, CopiesMarked
  <2>2. WatchedIsLate'
    BY <1>4 DEF beginWatch, cacheVars, WatchedIsLate
  <2> QED BY <1>1, <2>1, <2>2
<1>5. CASE watchTextureCache
  <2>1. PICK t \in todo :
          /\ todo' = todo \ {t}
          /\ dirty' = IF scanned(t) \cap marked # {} THEN dirty \cup {t} ELSE dirty
    BY <1>5 DEF watchTextureCache
  <2>2. UNCHANGED <<cached, marked, stale, pass, late, wiped>> /\ pass = "watch"
    BY <1>5 DEF watchTextureCache
  <2>3. TextureTypeOK' /\ StaleUnder' /\ CopiesMarked'
    BY <1>1, <2>1, <2>2 DEF TextureTypeOK, StaleUnder, CopiesMarked
  <2>4. WatchedIsLate'
    <3> SUFFICES ASSUME NEW u \in cached \ dirty', u \notin todo'
                 PROVE  scanned(u) \cap marked \subseteq late
      BY <2>2 DEF WatchedIsLate, scanned
    <3>1. CASE u = t
      BY <2>1, <3>1
    <3>2. CASE u # t
      BY <2>1, <2>2, <3>2 DEF WatchedIsLate
    <3> QED BY <3>1, <3>2
  <2> QED BY <1>1, <2>3, <2>4
<1>6. CASE beginReset
  <2>1. TextureTypeOK' /\ StaleUnder' /\ CopiesMarked'
    BY <1>1, <1>6 DEF beginReset, cacheVars, TextureTypeOK, StaleUnder, CopiesMarked
  <2>2. WatchedIsLate'
    BY <1>6 DEF beginReset, cacheVars, WatchedIsLate, scanned
  <2> QED BY <1>1, <2>1, <2>2
<1>7. CASE resetCacheWatch
  <2>1. PICK t \in todo :
          /\ todo' = todo \ {t} /\ marked' = marked \ scanned(t)
          /\ wiped' = wiped \cup (scanned(t) \cap UNION {writing[w] : w \in Copies})
    BY <1>7 DEF resetCacheWatch
  <2>2. UNCHANGED <<cached, dirty, stale, pass, late>> /\ pass = "reset"
    BY <1>7 DEF resetCacheWatch, cacheVars
  <2>3. TextureTypeOK' /\ StaleUnder'
    BY <1>1, <2>1, <2>2 DEF TextureTypeOK, StaleUnder
  <2>4. CopiesMarked'
    <3> SUFFICES ASSUME NEW w \in Copies, NEW p \in writing[w] PROVE p \in marked' \cup wiped'
      BY <1>1 DEF CopiesMarked
    <3>1. p \in marked \cup wiped
      BY DEF CopiesMarked
    <3> HIDE DEF TextureInv
    <3> QED BY <2>1, <3>1
  <2>5. WatchedIsLate'
    BY <2>1, <2>2 DEF WatchedIsLate, scanned
  <2> QED BY <1>1, <2>3, <2>4, <2>5
<1>8. CASE endDraw
  BY <1>1, <1>8 DEF endDraw, cacheVars, TextureTypeOK, StaleUnder, CopiesMarked, WatchedIsLate
<1> QED BY <1>2, <1>3, <1>4, <1>5, <1>6, <1>7, <1>8 DEF RsxDraws

LEMMA CommandsKeep ==
  ASSUME TextureInv, Color \/ transferImage \/ startCopy2d PROVE TextureInv'
<1> USE DEF TextureInv
<1>1. UNCHANGED <<cached, pass, todo, writing>> /\ pass = "none"
  BY DEF Color, transferImage, transfers, startCopy2d, copiesLines, drawVars
<1>2. WatchedIsLate' /\ StoresInPages'
  BY <1>1 DEF WatchedIsLate, StoresInPages
<1>3. ASSUME NEW pages \in SUBSET Pages, written(pages), NEW more, invalidateCaches(more),
             (marked \subseteq Pages)', marked \cup wiped \subseteq marked' \cup wiped'
      PROVE  TextureTypeOK' /\ StaleUnder' /\ CopiesMarked'
  <2>1. (stale \subseteq cached \X Pages)' /\ StaleUnder'
    BY <1>1, <1>3, WrittenKeeps
  <2>2. dirty' \subseteq Textures
    BY <1>3 DEF invalidateCaches, under, TextureTypeOK
  <2> QED BY <1>1, <1>3, <2>1, <2>2 DEF TextureTypeOK, CopiesMarked
<1>4. CASE Color
  <2>1. PICK p \in Pages : mark({p}) /\ written({p}) /\ invalidateCaches({p})
    BY <1>4 DEF Color
  <2>2. dirty \subseteq dirty'
    BY <2>1 DEF invalidateCaches
  <2>3. (marked \subseteq Pages)' /\ marked \cup wiped \subseteq marked' \cup wiped'
    BY <1>1, <2>1, <2>2, MarkKeeps
  <2> QED BY <1>2, <1>3, <2>1, <2>3
<1>5. CASE transferImage
  <2>1. PICK p \in Pages, n \in 1 .. MaxSize : transfers(p, n)
    BY <1>5 DEF transferImage
  <2>2. (marked \subseteq Pages)' /\ marked \cup wiped \subseteq marked' \cup wiped'
    BY <2>1 DEF transfers, TextureTypeOK
  <2> QED BY <1>2, <1>3, <2>1, <2>2, RangeInPages DEF transfers
<1>6. CASE startCopy2d
  <2>1. PICK p \in Pages, n \in 1 .. MaxSize : copiesLines(p, n)
    BY <1>6 DEF startCopy2d
  <2>2. (marked \subseteq Pages)' /\ marked \cup wiped \subseteq marked' \cup wiped'
    BY <2>1 DEF copiesLines, TextureTypeOK
  <2> QED BY <1>2, <1>3, <2>1, <2>2, RangeInPages DEF copiesLines
<1> QED BY <1>4, <1>5, <1>6

LEMMA TextureStep == TextureInv /\ [TextureNext]_textureVars => TextureInv'
<1> SUFFICES ASSUME TextureInv, [TextureNext]_textureVars PROVE TextureInv'
  OBVIOUS
<1>1. CASE TextureNext
  BY <1>1, WritersKeep, DrawsKeep, CommandsKeep DEF TextureNext, Writers
<1>2. CASE UNCHANGED textureVars
  BY <1>2 DEF textureVars, cacheVars, drawVars, TextureInv, TextureTypeOK, StaleUnder,
              StoresInPages, CopiesMarked, WatchedIsLate, scanned
<1> QED BY <1>1, <1>2

LEMMA TextureStart == TextureInit => TextureInv
BY DEF TextureInit, TextureInv, TextureTypeOK, StaleUnder, StoresInPages, CopiesMarked,
       WatchedIsLate, Writers

LEMMA GapsAreKnown ==
  ASSUME TextureInv, [TextureNext]_textureVars, NEW t \in Textures, NEW p \in Pages,
         forgotten(t, p)', ~forgotten(t, p)
  PROVE  knownGap(t, p)
<1>0. /\ <<t, p>> \in stale' /\ t \notin dirty' /\ scanned(t) \cap marked' = {}
      /\ \A w \in Stores : p \notin writing'[w]
  BY DEF forgotten, scanned
<1>t. /\ writing \in [Writers -> SUBSET Pages] /\ Stores \subseteq Writers /\ Copies \subseteq Writers
      /\ stale \subseteq cached \X Pages
  BY DEF TextureInv, TextureTypeOK, Writers
\* The store that marks: what it wrote is a page of those it marks.
<1>1. ASSUME NEW w \in Stores, store(w) PROVE FALSE
  <2>1. PICK q \in Pages, n \in {1, 2} :
          written(range(q, n)) /\ writing' = [writing EXCEPT ![w] = range(q, n)]
    BY <1>1 DEF store
  <2>2. writing[w] = {} /\ UNCHANGED <<dirty, marked>>
    BY <1>1 DEF store, cacheVars
  <2>3. writing'[w] = range(q, n) /\ p \notin range(q, n)
    BY <1>0, <1>t, <2>1
  <2>4. <<t, p>> \in stale
    BY <1>0, <2>1, <2>3 DEF written
  <2>5. \A v \in Stores : p \notin writing[v]
    BY <1>0, <1>t, <2>1, <2>2
  <2> QED BY <1>0, <2>2, <2>4, <2>5 DEF forgotten
<1>2. ASSUME NEW w \in Stores, storeMarks(w) PROVE FALSE
  <2>1. PICK q \in writing[w] : (\A r \in writing[w] : q <= r) /\ mark(range(q, 2))
    BY <1>2 DEF storeMarks
  <2>2. writing' = [writing EXCEPT ![w] = {}] /\ UNCHANGED <<dirty, stale>>
    BY <1>2 DEF storeMarks, cacheVars
  <2>3. p \in writing[w]
    <3>1. scanned(t) \cap marked = {}
      BY <1>0, <2>1 DEF mark
    <3> QED BY <1>0, <1>t, <2>2, <3>1 DEF forgotten
  <2>4. p \in {q, q + 1}
    BY <2>1, <2>3 DEF TextureInv, StoresInPages
  <2>5. p \in range(q, 2)
    BY <1>t, <2>4, PagesAreInts DEF range
  <2>6. p \in scanned(t)
    BY <1>0, <2>2 DEF TextureInv, StaleUnder, scanned
  <2> QED BY <1>0, <2>1, <2>5, <2>6 DEF mark
\* The line of writeMemory: the page is marked, unless a reset wiped the mark.
<1>3. ASSUME NEW w \in Copies, writeMemory(w) PROVE FALSE
  <2>1. PICK q \in Pages, n \in 1 .. MaxSize :
          mark(range(q, n)) /\ writing' = [writing EXCEPT ![w] = range(q, n)]
    BY <1>3 DEF writeMemory
  <2>2. UNCHANGED <<dirty, stale>> /\ scanned(t) \cap marked = {}
    BY <1>0, <1>3, <2>1 DEF writeMemory, cacheVars, mark
  <2>3. \A v \in Stores : writing'[v] = writing[v]
    BY <1>t, <2>1, TextureAssumption
  <2> QED BY <1>0, <2>2, <2>3 DEF forgotten
<1>4. ASSUME NEW w \in Copies, writesLine(w) PROVE knownGap(t, p)
  <2>1. PICK q \in writing[w] : written({q}) /\ writing' = [writing EXCEPT ![w] = @ \ {q}]
    BY <1>4 DEF writesLine
  <2>2. UNCHANGED <<dirty, marked>> /\ \A v \in Stores : writing'[v] = writing[v]
    BY <1>4, <1>t, <2>1, TextureAssumption DEF writesLine, cacheVars
  <2>3. <<t, p>> \in stale' \ stale
    BY <1>0, <2>2 DEF forgotten
  <2>4. p = q /\ p \in Span[t]
    BY <2>1, <2>3 DEF written
  <2>5. p \notin marked
    BY <1>0, <2>2, <2>4 DEF scanned
  <2>6. p \in wiped /\ p \in writing[w] \ writing'[w]
    BY <1>t, <2>1, <2>4, <2>5 DEF TextureInv, CopiesMarked
  <2> QED BY <2>6 DEF knownGap
\* The draw: only the reset takes marks away, and those of clean textures are late.
<1>5. ASSUME beginDraw \/ beginWatch \/ watchTextureCache \/ beginReset \/ endDraw PROVE FALSE
  <2>1. UNCHANGED <<stale, marked, writing>> /\ dirty \subseteq dirty'
    BY <1>5 DEF beginDraw, beginWatch, watchTextureCache, beginReset, endDraw, cacheVars
  <2> QED BY <1>0, <2>1 DEF forgotten
<1>6. ASSUME getTextureFromCache PROVE FALSE
  <2>1. PICK u \in todo :
          /\ dirty' = dirty \ {u}
          /\ stale' = IF u \in cached \ dirty THEN stale ELSE {pair \in stale : pair[1] # u}
    BY <1>6 DEF getTextureFromCache
  <2>2. UNCHANGED <<marked, writing>>
    BY <1>6 DEF getTextureFromCache
  <2>3. <<t, p>> \in stale /\ t \in dirty
    BY <1>0, <2>1, <2>2 DEF forgotten
  <2>4. u = t
    BY <1>0, <2>1, <2>3
  <2> QED BY <1>0, <2>1, <2>3, <2>4
<1>7. ASSUME resetCacheWatch PROVE knownGap(t, p)
  <2>1. pass = "reset" /\ todo' # todo /\ UNCHANGED <<dirty, stale, writing>>
    BY <1>7 DEF resetCacheWatch, cacheVars
  <2>2. scanned(t) \cap marked # {}
    BY <1>0, <2>1 DEF forgotten
  <2>3. t \in cached \ dirty
    BY <1>0, <1>t, <2>1
  <2>4. late \cap scanned(t) # {}
    BY <2>1, <2>2, <2>3 DEF TextureInv, WatchedIsLate
  <2> QED BY <2>1, <2>4 DEF knownGap
\* The commands invalidate what they write, but for what knownGap names.
<1>8. ASSUME Color PROVE FALSE
  <2>1. PICK q \in Pages : mark({q}) /\ written({q}) /\ invalidateCaches({q})
    BY <1>8 DEF Color
  <2>2. t \notin dirty /\ scanned(t) \cap marked = {} /\ writing' = writing
    BY <1>0, <1>8, <2>1 DEF Color, mark, invalidateCaches
  <2>3. <<t, p>> \in stale' \ stale
    BY <1>0, <2>2 DEF forgotten
  <2>4. t \in cached /\ p = q /\ p \in Span[t]
    BY <2>1, <2>3 DEF written
  <2> QED BY <1>0, <2>1, <2>4 DEF invalidateCaches, under
<1>9. ASSUME NEW pages, NEW more, written(pages), invalidateCaches(more), UNCHANGED <<marked, writing>>
      PROVE  p \in pages \ more
  <2>1. t \notin dirty
    BY <1>0, <1>9 DEF invalidateCaches
  <2>2. <<t, p>> \in stale' \ stale
    BY <1>0, <1>9, <2>1 DEF forgotten
  <2>3. t \in cached /\ p \in pages /\ p \in Span[t]
    BY <1>9, <2>2 DEF written
  <2> QED BY <1>0, <1>9, <2>3 DEF invalidateCaches, under
<1>10. ASSUME transferImage PROVE knownGap(t, p)
  <2>1. PICK first \in Pages, n \in 1 .. MaxSize : transfers(first, n)
    BY <1>10 DEF transferImage
  <2>2. p \in range(first, n) \ range(first, Megabyte)
    BY <1>9, <2>1 DEF transfers
  <2>3. p >= first + Megabyte
    BY <2>2, PagesAreInts, TextureAssumption DEF range
  <2> QED BY <2>1, <2>3 DEF knownGap
<1>11. ASSUME startCopy2d PROVE knownGap(t, p)
  <2>1. PICK first \in Pages, n \in 1 .. MaxSize : copiesLines(first, n)
    BY <1>11 DEF startCopy2d
  <2>2. p \in range(first, n) \ range(first + 1, n)
    BY <1>9, <2>1 DEF copiesLines
  <2>3. p = first
    BY <2>2, PagesAreInts, TextureAssumption DEF range
  <2> QED BY <2>1, <2>3 DEF knownGap
<1>12. ASSUME UNCHANGED textureVars PROVE FALSE
  BY <1>0, <1>12 DEF textureVars, cacheVars, forgotten
<1> QED
  BY <1>1, <1>2, <1>3, <1>4, <1>5, <1>6, <1>7, <1>8, <1>10, <1>11, <1>12 DEF TextureNext, RsxDraws

\* For any pages, textures and writers, a write under a cached texture is forgotten in
\* the places that knownGap names and nowhere else.
\* Behaviour: store writes and then marks two pages, the watch asks before the reset
\* clears, getTextureFromCache loads whatever is dirty.
THEOREM WritesAreSeen == TextureSpec => OnlyKnownGaps
<1>1. TextureInv /\ [TextureNext]_textureVars
      => [\A t \in Textures, p \in Pages :
            (forgotten(t, p))' /\ ~forgotten(t, p) => knownGap(t, p)]_textureVars
  BY GapsAreKnown
<1> QED BY <1>1, TextureStart, TextureStep, PTL DEF TextureSpec, OnlyKnownGaps
=============================================================================
