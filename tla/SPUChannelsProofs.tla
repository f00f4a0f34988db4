------------------------- MODULE SPUChannelsProofs -------------------------
(* Proofs about SPUChannels, for any PPU threads and events: the types, the    *)
(* count of SpuEvent, and the word of an interrupt.                            *)
EXTENDS SPUChannels, SequenceTheorems, TLAPS

Step == [op : Ops, arg : SUBSET Events]
Bits == {"M", "T"}

-----------------------------------------------------------------------------
(* Types                                                                   *)

\* The names of accesses make a script.
LEMMA StepsAreScripts ==
  ASSUME NEW ops \in Seq(Ops)
  PROVE  steps(ops) \in Seq(Step)
  <1>1. \A i \in DOMAIN ops : step(ops[i]) \in Step BY DEF step, Step
  <1> QED BY <1>1 DEF steps

\* What is left of a script after its first access is a script.
LEMMA TailIsScript ==
  ASSUME NEW s \in Seq(Step), s # << >>
  PROVE  Head(s) \in Step /\ Tail(s) \in Seq(Step)
  OBVIOUS

\* A thread that is given a script keeps the scripts what they are.
LEMMA RunsTypes ==
  ASSUME ChannelsTypeOK, NEW a \in Actors, NEW s \in Seq(Step), runs(a, s)
  PROVE  script' \in [Actors -> Seq(Step)]
  BY DEF ChannelsTypeOK, runs, Step

\* So does one that has done its access.
LEMMA DoneTypes ==
  ASSUME ChannelsTypeOK, NEW a \in Actors, script[a] # << >>, done(a)
  PROVE  /\ script' \in [Actors -> Seq(Step)]
         /\ stage' \in [Actors -> {"outside", "inside", "leaving", "waiting"}]
         /\ suspended' \in BOOLEAN /\ suspendEnabled' \in BOOLEAN
  <1>1. Tail(script[a]) \in Seq(Step) BY TailIsScript DEF ChannelsTypeOK, Step
  <1> QED BY <1>1, RunsTypes DEF done, ChannelsTypeOK

\* A thread is inside of an access only while that is at the head of its script.
InsideHasScript == \A a \in Actors : stage[a] = "inside" => script[a] # << >>

TypeInv == ChannelsTypeOK /\ InsideHasScript

LEMMA InitTypes == ChannelsInit => TypeInv
  <1> SUFFICES ASSUME ChannelsInit PROVE TypeInv
    OBVIOUS
  <1>1. script \in [Actors -> Seq(Step)] /\ messages \in Seq({"Spu", "Disestablish"})
    BY DEF ChannelsInit
  <1>2. stage \in [Actors -> {"outside", "inside", "leaving", "waiting"}] /\ InsideHasScript
    BY DEF ChannelsInit, InsideHasScript
  <1>3. /\ out \in {0, 1} /\ intr \in {0, 1} /\ in \in 0 .. 4 /\ count \in {0, 1}
        /\ pending \subseteq Events /\ mask \subseteq Events /\ left \subseteq Events
        /\ interrupt \subseteq Bits /\ mask2 \subseteq Bits
    BY DEF ChannelsInit, Bits
  <1>4. /\ raw \in BOOLEAN /\ taken \in BOOLEAN /\ filled \in BOOLEAN /\ established \in BOOLEAN
        /\ suspended \in BOOLEAN /\ suspendEnabled \in BOOLEAN
    BY DEF ChannelsInit
  <1>5. handler \in {"waiting", "handling", "gone"}
    BY DEF ChannelsInit
  <1> QED BY <1>1, <1>2, <1>3, <1>4, <1>5, Zenon DEF TypeInv, ChannelsTypeOK, Step, Bits

LEMMA EnterTypes ==
  ASSUME TypeInv, NEW a \in Actors, Enter(a) \/ Leave(a) \/ Resumed(a)
  PROVE  TypeInv'
  <1> USE DEF TypeInv, ChannelsTypeOK, InsideHasScript, mailboxes, spuEvents, interrupts, suspension
  <1>1. CASE Enter(a) BY <1>1 DEF Enter
  <1>2. CASE Leave(a) BY <1>2 DEF Leave
  <1>3. CASE Resumed(a) BY <1>3 DEF Resumed
  <1> QED BY <1>1, <1>2, <1>3

\* A step of a thread that ends its access.
LEMMA DoneInside ==
  ASSUME TypeInv, NEW a \in Actors, script[a] # << >>, done(a)
  PROVE  InsideHasScript'
  BY DEF TypeInv, InsideHasScript, ChannelsTypeOK, done, runs

LEMMA PerformTypes ==
  ASSUME TypeInv, NEW a \in Actors, Perform(a)
  PROVE  TypeInv'
  <1>1. script[a] # << >>
    BY DEF TypeInv, InsideHasScript, Perform, inside, write_WrOutMbox, mmio_read_Out_MBox,
           mmio_write_In_MBox, read_RdInMbox, silently_write_interrupt_mbox, read_puint_mb,
           read_RdEventStat, write_WrEventAck, write_WrEventMask, write_WrOutIntrMbox
  <1>2. done(a)
    BY DEF Perform, write_WrOutMbox, mmio_read_Out_MBox, mmio_write_In_MBox, read_RdInMbox,
           silently_write_interrupt_mbox, read_puint_mb, read_RdEventStat, write_WrEventAck,
           write_WrEventMask, write_WrOutIntrMbox
  <1>3. /\ script' \in [Actors -> Seq(Step)]
        /\ stage' \in [Actors -> {"outside", "inside", "leaving", "waiting"}]
        /\ suspended' \in BOOLEAN /\ suspendEnabled' \in BOOLEAN
    BY <1>1, <1>2, DoneTypes DEF TypeInv
  <1>4. InsideHasScript' BY <1>1, <1>2, DoneInside
  <1>5. Head(script[a]).arg \subseteq Events
    BY <1>1, TailIsScript DEF TypeInv, ChannelsTypeOK, Step
  <1>a. ASSUME mmio_write_In_MBox(a) PROVE in' \in 0 .. 4
    BY <1>a DEF TypeInv, ChannelsTypeOK, mmio_write_In_MBox, inCapacity
  <1>b. ASSUME read_RdInMbox(a) PROVE in' \in 0 .. 4
    BY <1>b DEF TypeInv, ChannelsTypeOK, read_RdInMbox
  <1> USE <1>3, <1>4, <1>5 DEF TypeInv, ChannelsTypeOK, Step, mailboxes, spuEvents, interrupts
  <1>6. CASE write_WrOutMbox(a) BY <1>6 DEF write_WrOutMbox
  <1>7. CASE mmio_read_Out_MBox(a) BY <1>7 DEF mmio_read_Out_MBox
  <1>8. CASE mmio_write_In_MBox(a) BY <1>8, <1>a DEF mmio_write_In_MBox
  <1>9. CASE read_RdInMbox(a) BY <1>9, <1>b DEF read_RdInMbox
  <1>10. CASE silently_write_interrupt_mbox(a) BY <1>10 DEF silently_write_interrupt_mbox
  <1>11. CASE read_puint_mb(a) BY <1>11 DEF read_puint_mb
  <1>12. CASE read_RdEventStat(a) BY <1>12 DEF read_RdEventStat
  <1>13. CASE write_WrEventAck(a) BY <1>13 DEF write_WrEventAck
  <1>14. CASE write_WrEventMask(a) BY <1>14 DEF write_WrEventMask, updateCount
  <1>15. CASE write_WrOutIntrMbox(a) BY <1>15 DEF write_WrOutIntrMbox
  <1> QED BY <1>6, <1>7, <1>8, <1>9, <1>10, <1>11, <1>12, <1>13, <1>14, <1>15 DEF Perform

\* Scripts that begin to run outside of every access.
LEMMA RunsOutside ==
  ASSUME TypeInv, NEW a \in Actors, NEW s \in Seq(Step), runs(a, s), UNCHANGED stage,
         stage[a] # "inside" \/ s # << >>
  PROVE  script' \in [Actors -> Seq(Step)] /\ InsideHasScript'
  BY RunsTypes DEF TypeInv, InsideHasScript, ChannelsTypeOK, runs

\* The steps that dispatch makes of an interrupt.
LEMMA DispatchSteps ==
  ASSUME NEW op \in Operations
  PROVE  steps(handled) \in Seq(Step) /\ steps(handleInterrupt(op)) \in Seq(Step)
  <1>1. handled \in Seq(Ops) BY DEF handled, Ops, Accesses
  <1>2. /\ <<"intr", "end">> \in Seq(Ops) /\ <<"out", "end">> \in Seq(Ops)
        /\ <<"out", "in", "end", "rdIn">> \in Seq(Ops)
    BY DEF Ops, Accesses
  <1>3. handleInterrupt(op) \in {<<"intr", "end">>, <<"out", "end">>, <<"out", "in", "end", "rdIn">>}
    BY DEF handleInterrupt, Operations
  <1> QED BY <1>1, <1>2, <1>3, StepsAreScripts

LEMMA BetweenTypes ==
  ASSUME TypeInv, Between
  PROVE  TypeInv'
  <1> USE DEF Actors
  <1>1. ASSUME NEW op \in Operations, dispatch(op) PROVE TypeInv'
    <2>1. /\ runs(Spu, steps(handled)) \/ runs(Spu, steps(handleInterrupt(op)))
          /\ stage[Spu] # "inside" /\ UNCHANGED stage
      BY <1>1 DEF dispatch, before
    <2>2. script' \in [Actors -> Seq(Step)] /\ InsideHasScript'
      BY <2>1, RunsOutside, DispatchSteps
    <2> QED BY <1>1, <2>2 DEF dispatch, TypeInv, ChannelsTypeOK, Step, mailboxes, spuEvents, interrupts
  <1>2. ASSUME message \/ stop PROVE TypeInv'
    <2>1. /\ runs(Spu, Tail(script[Spu])) /\ script[Spu] # << >>
          /\ stage[Spu] # "inside" /\ UNCHANGED stage
      BY <1>2 DEF message, stop, before
    <2>2. script' \in [Actors -> Seq(Step)] /\ InsideHasScript'
      BY <2>1, RunsOutside, TailIsScript DEF TypeInv, ChannelsTypeOK, Step
    <2>3. CASE message
      <3>1. messages' \in Seq({"Spu", "Disestablish"})
        BY <2>3 DEF message, TypeInv, ChannelsTypeOK
      <3> QED BY <2>2, <2>3, <3>1
           DEF message, TypeInv, ChannelsTypeOK, Step, mailboxes, spuEvents, suspension
    <2>4. CASE stop
      BY <2>2, <2>4 DEF stop, TypeInv, ChannelsTypeOK, Step, mailboxes, spuEvents, interrupts
    <2> QED BY <1>2, <2>3, <2>4
  <1>3. ASSUME end PROVE TypeInv'
    <2>1. script[Spu] # << >> /\ done(Spu) BY <1>3 DEF end, before
    <2>2. /\ script' \in [Actors -> Seq(Step)]
          /\ stage' \in [Actors -> {"outside", "inside", "leaving", "waiting"}]
          /\ suspended' \in BOOLEAN /\ suspendEnabled' \in BOOLEAN
          /\ InsideHasScript'
      BY <2>1, DoneTypes, DoneInside DEF TypeInv
    <2> QED BY <1>3, <2>2 DEF end, TypeInv, ChannelsTypeOK, Step, mailboxes, spuEvents, interrupts
  <1> QED BY <1>1, <1>2, <1>3 DEF Between

LEMMA ServeTypes ==
  ASSUME TypeInv, Serve
  PROVE  TypeInv'
  <1> USE DEF Actors
  <1>1. ASSUME innerLoop PROVE TypeInv'
    <2>1. <<"rdIntr">> \in Seq(Ops) BY DEF Ops, Accesses
    <2>2. steps(<<"rdIntr">>) \in Seq(Step) BY <2>1, StepsAreScripts
    <2>3. steps(<<"rdIntr">>) # << >> BY DEF steps
    <2>4. script' \in [Actors -> Seq(Step)] /\ InsideHasScript'
      BY <1>1, <2>2, <2>3, RunsOutside DEF innerLoop, TypeInv, ChannelsTypeOK, InsideHasScript, Step
    <2>5. messages' \in Seq({"Spu", "Disestablish"})
      BY <1>1 DEF innerLoop, TypeInv, ChannelsTypeOK
    <2> QED BY <1>1, <2>4, <2>5
         DEF innerLoop, TypeInv, ChannelsTypeOK, Step, mailboxes, spuEvents, suspension
  <1>2. ASSUME sys_interrupt_thread_eoi PROVE TypeInv'
    BY <1>2 DEF sys_interrupt_thread_eoi, TypeInv, ChannelsTypeOK, InsideHasScript, mailboxes,
       spuEvents, suspension
  <1> QED BY <1>1, <1>2 DEF Serve

\* The calls the programs make are scripts.
LEMMA CallsAreScripts ==
  /\ \A ops \in SpuMailboxCalls : steps(ops) \in Seq(Step)
  /\ EventCalls \subseteq Seq(Step)
  /\ \A op \in {"out", "in", "rdIntr"} : steps(<<op>>) \in Seq(Step)
  <1>1. receiveCall \in Seq(Ops) BY DEF receiveCall, Ops, Accesses
  <1>2. /\ <<"wrOut">> \in Seq(Ops) /\ <<"rdIn">> \in Seq(Ops)
        /\ <<"raise", "WriteInterruptMbox">> \in Seq(Ops)
    BY DEF Ops, Accesses, Operations
  <1>3. ASSUME NEW op \in Operations PROVE interruptCall(op) \in Seq(Ops)
    <2>1. <<"raise", op>> \in Seq(Ops) /\ <<"wrOut", "raise", op>> \in Seq(Ops)
      BY DEF Ops, Accesses
    <2> QED BY <2>1 DEF interruptCall
  <1>4. \A ops \in SpuMailboxCalls : ops \in Seq(Ops)
    BY <1>1, <1>2, <1>3 DEF SpuMailboxCalls
  <1>5. ASSUME NEW op \in {"out", "in", "rdIntr"} PROVE <<op>> \in Seq(Ops)
    BY DEF Ops, Accesses
  <1>6. EventCalls \subseteq Seq(Step)
    <2>1. step("rdEvent") \in Step BY DEF step, Step, Ops, Accesses
    <2>2. ASSUME NEW op \in {"ackEvent", "maskEvent"}, NEW bits \in SUBSET Events
          PROVE  [op |-> op, arg |-> bits] \in Step
      BY DEF Step, Ops, Accesses
    <2>3. ASSUME NEW x \in Step PROVE <<x>> \in Seq(Step)
      OBVIOUS
    <2>4. ASSUME NEW c \in EventCalls PROVE \E x \in Step : c = <<x>>
      <3>1. CASE c = <<step("rdEvent")>> BY <2>1, <3>1
      <3>2. CASE \E op \in {"ackEvent", "maskEvent"}, bits \in SUBSET Events :
                   c = <<[op |-> op, arg |-> bits]>>
        BY <2>2, <3>2, Zenon
      <3>3. \/ c = <<step("rdEvent")>>
            \/ \E op \in {"ackEvent", "maskEvent"}, bits \in SUBSET Events :
                  c = <<[op |-> op, arg |-> bits]>>
        BY DEF EventCalls
      <3> QED BY <3>1, <3>2, <3>3
    <2> QED BY <2>3, <2>4
  <1> QED BY <1>4, <1>5, <1>6, StepsAreScripts

LEMMA CallTypes ==
  ASSUME TypeInv, SpuCall \/ \E p \in PPUs : PpuCall(p)
  PROVE  TypeInv'
  <1> USE DEF Actors
  <1>1. PICK a \in Actors, s \in Seq(Step) : runs(a, s) /\ stage[a] # "inside"
    BY CallsAreScripts DEF SpuCall, PpuCall, free
  <1>2. UNCHANGED <<raw, mailboxes, spuEvents, interrupts, suspension, stage>>
    BY DEF SpuCall, PpuCall
  <1>3. script' \in [Actors -> Seq(Step)] /\ InsideHasScript'
    BY <1>1, <1>2, RunsOutside
  <1> QED BY <1>2, <1>3
       DEF TypeInv, ChannelsTypeOK, Step, mailboxes, spuEvents, interrupts, suspension

LEMMA PrivilegedTypes ==
  ASSUME TypeInv, Privileged \/ suspend \/ resume
  PROVE  TypeInv'
  <1>a. ASSUME sys_raw_spu_destroy PROVE messages' \in Seq({"Spu", "Disestablish"})
    BY <1>a DEF sys_raw_spu_destroy, TypeInv, ChannelsTypeOK
  <1> USE DEF TypeInv, ChannelsTypeOK, InsideHasScript, mailboxes, spuEvents, interrupts, suspension
  <1>1. CASE sys_interrupt_thread_establish BY <1>1 DEF sys_interrupt_thread_establish
  <1>2. CASE sys_raw_spu_destroy BY <1>2, <1>a DEF sys_raw_spu_destroy
  <1>3. ASSUME NEW bits \in SUBSET {"M", "T"}, sys_raw_spu_set_int_mask(bits) PROVE TypeInv'
    BY <1>3 DEF sys_raw_spu_set_int_mask
  <1>4. ASSUME NEW bits \in SUBSET {"M", "T"}, sys_raw_spu_set_int_stat(bits) PROVE TypeInv'
    BY <1>4 DEF sys_raw_spu_set_int_stat
  <1>5. CASE suspend BY <1>5 DEF suspend
  <1>6. CASE resume BY <1>6 DEF resume
  <1> QED BY <1>1, <1>2, <1>3, <1>4, <1>5, <1>6 DEF Privileged

LEMMA EventTypes ==
  ASSUME TypeInv, NEW e \in Events, set_or(e)
  PROVE  TypeInv'
  BY DEF TypeInv, ChannelsTypeOK, InsideHasScript, set_or, updateCount, mailboxes, interrupts, suspension

LEMMA NextTypes ==
  ASSUME TypeInv, [ChannelsNext]_channelVars
  PROVE  TypeInv'
  <1>1. CASE UNCHANGED channelVars
    BY <1>1 DEF TypeInv, ChannelsTypeOK, InsideHasScript, channelVars, mailboxes, spuEvents,
       interrupts, suspension
  <1> QED BY <1>1, CallTypes, PrivilegedTypes, EventTypes, EnterTypes, PerformTypes,
             BetweenTypes, ServeTypes DEF ChannelsNext, Advance

\* Every variable of the channels keeps its type, for any events and any PPU threads.
\* Behaviour: the mailboxes, SpuEvent, the interrupt thread and DisableSuspend.
THEOREM ChannelsTypes == ChannelsSpec => []ChannelsTypeOK
  <1>1. ChannelsSpec => []TypeInv BY InitTypes, NextTypes, PTL DEF ChannelsSpec
  <1>2. TypeInv => ChannelsTypeOK BY DEF TypeInv
  <1> QED BY <1>1, <1>2, PTL

-----------------------------------------------------------------------------
(* The count of SpuEvent                                                   *)

\* Every step that changes the events, the mask or the count brings the count up to
\* date, but for an acknowledge, which leaves the events that were there.
LEMMA SilentStep ==
  ASSUME TypeInv, OnlyOldEventsAreSilent, [ChannelsNext]_channelVars
  PROVE  OnlyOldEventsAreSilent'
  <1> USE DEF OnlyOldEventsAreSilent, spuEvents
  <1>1. CASE UNCHANGED spuEvents BY <1>1
  <1>2. ASSUME NEW e \in Events, set_or(e) PROVE OnlyOldEventsAreSilent'
    BY <1>2 DEF set_or, updateCount
  <1>3. ASSUME NEW a \in Actors, write_WrEventAck(a) PROVE OnlyOldEventsAreSilent'
    BY <1>3 DEF write_WrEventAck
  <1>4. ASSUME NEW a \in Actors, write_WrEventMask(a) PROVE OnlyOldEventsAreSilent'
    BY <1>4 DEF write_WrEventMask, updateCount
  <1>5. ASSUME NEW a \in Actors, Advance(a), ~write_WrEventAck(a), ~write_WrEventMask(a)
        PROVE  UNCHANGED spuEvents
    BY <1>5 DEF Advance, Enter, Leave, Resumed, Perform, write_WrOutMbox, mmio_read_Out_MBox,
       mmio_write_In_MBox, read_RdInMbox, silently_write_interrupt_mbox, read_puint_mb,
       read_RdEventStat, write_WrOutIntrMbox
  <1>6. ASSUME Between \/ Serve \/ suspend \/ resume PROVE UNCHANGED spuEvents
    BY <1>6 DEF Between, dispatch, message, stop, end, Serve, innerLoop,
       sys_interrupt_thread_eoi, suspend, resume
  <1>7. ASSUME SpuCall \/ (\E p \in PPUs : PpuCall(p)) \/ Privileged PROVE UNCHANGED spuEvents
    BY <1>7 DEF SpuCall, PpuCall, Privileged, sys_interrupt_thread_establish, sys_raw_spu_destroy,
       sys_raw_spu_set_int_mask, sys_raw_spu_set_int_stat
  <1>8. UNCHANGED channelVars => UNCHANGED spuEvents BY DEF channelVars
  <1> QED BY <1>1, <1>2, <1>3, <1>4, <1>5, <1>6, <1>7, <1>8 DEF ChannelsNext

\* An enabled event lets the SPU sleep only when it was there at the last
\* acknowledge and neither an event nor a mask has come since.
\* Behaviour: SpuEvent::acknowledge, set_or and setMask.
THEOREM AcksAloneSilence == ChannelsSpec => []OnlyOldEventsAreSilent
  <1>1. ChannelsInit => OnlyOldEventsAreSilent
    BY DEF ChannelsInit, OnlyOldEventsAreSilent
  <1>2. ChannelsSpec => []TypeInv BY InitTypes, NextTypes, PTL DEF ChannelsSpec
  <1> QED BY <1>1, <1>2, SilentStep, PTL DEF ChannelsSpec

-----------------------------------------------------------------------------
(* The word of an interrupt                                                *)

\* What a PPU thread may have to do with the registers.
RegisterOps == {"out", "in"} \cup (IF established THEN {} ELSE {"rdIntr"})
PPUScripts == \A p \in PPUs :
  script[p] = << >> \/ \E op \in RegisterOps : script[p] = steps(<<op>>)

\* The rest of the steps of an interrupt once its word is in the mailbox.
told == <<"message", "end">>

SpuScripts ==
  \/ established /\ script[Spu] \in {steps(handled), steps(told)}
  \/ \A i \in DOMAIN script[Spu] : script[Spu][i].op \notin {"message", "rdIntr"}

HandlerScripts ==
  script[Handler] = << >> \/ (script[Handler] = steps(<<"rdIntr">>) /\ handler = "handling")

\* Where an interrupt is whose word has not been read: the SPU is about to send the
\* message, the message is in the queue, or the handler is about to read the word.
atSpu == script[Spu] = steps(told)
inQueue == \E i \in DOMAIN messages : messages[i] = "Spu"
atHandler == script[Handler] # << >>

WordInv ==
  /\ PPUScripts /\ SpuScripts /\ HandlerScripts
  /\ atSpu \/ inQueue \/ atHandler => intr = 1 /\ established
  /\ ~(atSpu /\ inQueue) /\ ~(atSpu /\ atHandler) /\ ~(inQueue /\ atHandler)
  /\ \A i, j \in DOMAIN messages : messages[i] = "Spu" /\ messages[j] = "Spu" => i = j

\* The head and the rest of a script are those of its names.
LEMMA StepsOf ==
  ASSUME NEW ops \in Seq(Ops), ops # << >>
  PROVE  /\ steps(ops) # << >> /\ Head(steps(ops)) = step(Head(ops))
         /\ Tail(steps(ops)) = steps(Tail(ops))
  <1>1. /\ steps(ops) \in Seq(Step) /\ DOMAIN steps(ops) = DOMAIN ops
        /\ \A i \in DOMAIN ops : steps(ops)[i] = step(ops[i])
    BY StepsAreScripts DEF steps
  <1>2. Len(steps(ops)) = Len(ops) /\ Len(ops) \in Nat \ {0} /\ DOMAIN ops = 1 .. Len(ops)
    BY <1>1
  <1>3. Tail(ops) \in Seq(Ops) /\ Len(Tail(ops)) = Len(ops) - 1
        /\ \A i \in 1 .. Len(ops) - 1 : Tail(ops)[i] = ops[i + 1]
    BY <1>2
  <1>4. /\ Tail(steps(ops)) \in Seq(Step) /\ Len(Tail(steps(ops))) = Len(ops) - 1
        /\ \A i \in 1 .. Len(ops) - 1 : Tail(steps(ops))[i] = steps(ops)[i + 1]
    BY <1>1, <1>2
  <1>5. /\ steps(Tail(ops)) \in Seq(Step) /\ Len(steps(Tail(ops))) = Len(ops) - 1
        /\ \A i \in 1 .. Len(ops) - 1 : steps(Tail(ops))[i] = step(Tail(ops)[i])
    <2>1. steps(Tail(ops)) \in Seq(Step) BY <1>3, StepsAreScripts
    <2>2. DOMAIN Tail(ops) = 1 .. Len(ops) - 1 BY <1>2, <1>3
    <2>3. DOMAIN steps(Tail(ops)) = 1 .. Len(ops) - 1
          /\ \A i \in 1 .. Len(ops) - 1 : steps(Tail(ops))[i] = step(Tail(ops)[i])
      BY <2>2 DEF steps
    <2>4. Len(steps(Tail(ops))) = Len(ops) - 1 BY <1>2, <2>1, <2>3
    <2> QED BY <2>1, <2>3, <2>4
  <1>6. ASSUME NEW i \in 1 .. Len(ops) - 1 PROVE Tail(steps(ops))[i] = steps(Tail(ops))[i]
    <2>1. i + 1 \in DOMAIN ops BY <1>2
    <2> QED BY <1>1, <1>3, <1>4, <1>5, <2>1
  <1>7. Tail(steps(ops)) = steps(Tail(ops))
    BY <1>2, <1>4, <1>5, <1>6, SeqEqual
  <1> QED BY <1>1, <1>2, <1>7

\* What is at the head of these scripts, and what they are without it.
LEMMA ScriptShapes ==
  /\ steps(handled) # << >> /\ Head(steps(handled)).op = "intr" /\ Tail(steps(handled)) = steps(told)
  /\ steps(told) # << >> /\ Head(steps(told)).op = "message" /\ Tail(steps(told)) = steps(<<"end">>)
  /\ \A op \in Ops : /\ steps(<<op>>) # << >> /\ Head(steps(<<op>>)).op = op
                     /\ Tail(steps(<<op>>)) = << >>
  <1>1. /\ handled \in Seq(Ops) /\ handled # << >> /\ Head(handled) = "intr" /\ Tail(handled) = told
    BY DEF handled, told, Ops, Accesses
  <1>2. /\ told \in Seq(Ops) /\ told # << >> /\ Head(told) = "message" /\ Tail(told) = <<"end">>
    BY DEF handled, told, Ops, Accesses
  <1>3. ASSUME NEW op \in Ops
        PROVE  <<op>> \in Seq(Ops) /\ <<op>> # << >> /\ Head(<<op>>) = op /\ Tail(<<op>>) = << >>
    OBVIOUS
  <1>4. steps(<< >>) = << >> BY DEF steps
  <1>5. \A op : step(op).op = op BY DEF step
  <1> QED BY <1>1, <1>2, <1>3, <1>4, <1>5, StepsOf

\* What WordInv speaks of.
wordState == <<script, messages, handler, established, intr>>

LEMMA InitWord == ChannelsInit => WordInv
  BY DEF ChannelsInit, WordInv, PPUScripts, SpuScripts, HandlerScripts, atSpu, inQueue, atHandler,
         told, steps, Actors

LEMMA WordKept ==
  ASSUME WordInv, UNCHANGED wordState
  PROVE  WordInv'
  BY DEF WordInv, PPUScripts, RegisterOps, SpuScripts, HandlerScripts, atSpu, inQueue, atHandler,
         wordState

\* An access other than to the interrupt mailbox, and the steps of the SPU other
\* than the message.
LEMMA OtherStep ==
  ASSUME TypeInv, WordInv, NEW a \in Actors, script[a] # << >>, runs(a, Tail(script[a])),
         Head(script[a]).op \notin {"intr", "rdIntr", "message"},
         UNCHANGED <<messages, handler, established, intr>>
  PROVE  WordInv'
  <1>1. script[a] \in Seq(Step) /\ script' = [script EXCEPT ![a] = Tail(script[a])]
    BY DEF TypeInv, ChannelsTypeOK, Step, runs
  <1>2. "rdIntr" \in Ops /\ RegisterOps \subseteq Ops /\ RegisterOps' = RegisterOps
    BY DEF RegisterOps, Ops, Accesses
  <1>3. CASE a \in PPUs
    <2>1. Tail(script[a]) = << >>
      BY <1>2, <1>3, ScriptShapes DEF WordInv, PPUScripts
    <2>2. \A b \in Actors \ {a} : script'[b] = script[b]
      BY <1>1 DEF TypeInv, ChannelsTypeOK
    <2>3. script'[a] = << >> BY <1>1, <2>1 DEF TypeInv, ChannelsTypeOK
    <2>4. script'[Spu] = script[Spu] /\ script'[Handler] = script[Handler]
      BY <1>3, <2>2, ChannelsAssumption DEF Actors
    <2>5. PPUScripts'
      BY <1>2, <2>2, <2>3 DEF WordInv, PPUScripts, Actors
    <2>6. SpuScripts' /\ HandlerScripts' /\ (atSpu' <=> atSpu) /\ (atHandler' <=> atHandler)
          /\ (inQueue' <=> inQueue)
      BY <2>4 DEF WordInv, SpuScripts, HandlerScripts, atSpu, atHandler, inQueue
    <2> QED BY <2>5, <2>6 DEF WordInv
  <1>4. CASE a = Spu
    <2>1. \A i \in DOMAIN script[Spu] : script[Spu][i].op \notin {"message", "rdIntr"}
      BY <1>4, ScriptShapes DEF WordInv, SpuScripts
    <2>2. \A i \in DOMAIN Tail(script[Spu]) : Tail(script[Spu])[i].op \notin {"message", "rdIntr"}
      <3>1. Len(Tail(script[Spu])) = Len(script[Spu]) - 1 /\ Tail(script[Spu]) \in Seq(Step)
        BY <1>1, <1>4
      <3>2. ASSUME NEW i \in DOMAIN Tail(script[Spu])
            PROVE  i + 1 \in DOMAIN script[Spu] /\ Tail(script[Spu])[i] = script[Spu][i + 1]
        BY <1>1, <1>4, <3>1
      <3> QED BY <2>1, <3>2
    <2>3. script'[Spu] = Tail(script[Spu]) /\ \A b \in Actors \ {Spu} : script'[b] = script[b]
      BY <1>1, <1>4 DEF TypeInv, ChannelsTypeOK
    <2>4. ~atSpu'
      <3>1. SUFFICES ASSUME Tail(script[Spu]) = steps(told) PROVE FALSE
        BY <2>3 DEF atSpu
      <3>2. Head(Tail(script[Spu])).op = "message" /\ Tail(script[Spu]) # << >>
        BY <3>1, ScriptShapes
      <3>3. Tail(script[Spu]) \in Seq(Step) BY <1>1, <1>4
      <3>4. 1 \in DOMAIN Tail(script[Spu]) /\ Head(Tail(script[Spu])) = Tail(script[Spu])[1]
        BY <3>2, <3>3
      <3> QED BY <2>2, <3>2, <3>4
    <2>5. SpuScripts' BY <2>2, <2>3 DEF SpuScripts
    <2>6. PPUScripts' BY <1>2, <2>3, ChannelsAssumption DEF WordInv, PPUScripts, Actors
    <2>7. HandlerScripts' /\ (atHandler' <=> atHandler) /\ (inQueue' <=> inQueue)
      BY <2>3, ChannelsAssumption DEF WordInv, HandlerScripts, atHandler, inQueue, Actors
    <2> QED BY <2>4, <2>5, <2>6, <2>7 DEF WordInv
  <1>5. CASE a = Handler
    BY <1>2, <1>5, ScriptShapes DEF WordInv, HandlerScripts
  <1> QED BY <1>3, <1>4, <1>5 DEF Actors

\* No script of the SPU but these two has the message, so a rest without it is no
\* interrupt under way.
LEMMA NotTold ==
  ASSUME NEW s \in Seq(Step), \A i \in DOMAIN s : s[i].op \notin {"message", "rdIntr"}
  PROVE  s # steps(told) /\ s # steps(handled)
  <1>1. SUFFICES ASSUME s = steps(told) \/ s = steps(handled) PROVE FALSE
    OBVIOUS
  <1>2. Tail(s) = steps(told) \/ s = steps(told) BY <1>1, ScriptShapes
  <1>3. ASSUME NEW t \in Seq(Step), t = steps(told)
        PROVE  1 \in DOMAIN t /\ t[1].op = "message"
    <2>1. t # << >> /\ Head(t).op = "message" BY <1>3, ScriptShapes
    <2> QED BY <2>1
  <1>4. CASE s = steps(told) BY <1>3, <1>4
  <1>5. CASE s = steps(handled)
    <2>1. s # << >> BY <1>5, ScriptShapes
    <2>2. Tail(s) \in Seq(Step) BY <2>1
    <2>3. 1 \in DOMAIN Tail(s) /\ Tail(s)[1].op = "message"
      BY <1>3, <1>5, <2>2, ScriptShapes
    <2>4. 2 \in DOMAIN s /\ s[2] = Tail(s)[1] BY <2>1, <2>3
    <2> QED BY <2>3, <2>4
  <1> QED BY <1>1, <1>4, <1>5

\* The SPU fills the interrupt mailbox: no interrupt was under way.
LEMMA IntrStep ==
  ASSUME TypeInv, WordInv, NEW a \in Actors, silently_write_interrupt_mbox(a)
  PROVE  WordInv'
  <1>1. /\ Head(script[a]).op = "intr" /\ script[a] # << >> /\ runs(a, Tail(script[a]))
        /\ intr = 0 /\ intr' = 1 /\ UNCHANGED <<messages, handler, established>>
    BY DEF silently_write_interrupt_mbox, inside, done, interrupts, TypeInv, InsideHasScript
  <1>2. ~atSpu /\ ~inQueue /\ ~atHandler
    BY <1>1 DEF WordInv
  <1>3. a = Spu
    <2>1. \A op \in RegisterOps : op \in Ops /\ op # "intr" BY DEF RegisterOps, Ops, Accesses
    <2>2. ASSUME a \in PPUs PROVE FALSE
      <3>1. PICK op \in RegisterOps : script[a] = steps(<<op>>)
        BY <1>1, <2>2 DEF WordInv, PPUScripts
      <3> QED BY <1>1, <2>1, <3>1, ScriptShapes
    <2>3. a # Handler BY <1>1, <1>2 DEF atHandler
    <2> QED BY <2>2, <2>3 DEF Actors
  <1>4. script[Spu] \in Seq(Step) /\ Tail(script[Spu]) \in Seq(Step)
    <2>1. script[Spu] \in Seq(Step) BY <1>3 DEF TypeInv, ChannelsTypeOK, Step
    <2> QED BY <1>1, <1>3, <2>1, TailIsScript
  <1>5. script'[Spu] = Tail(script[Spu]) /\ \A b \in Actors \ {Spu} : script'[b] = script[b]
    BY <1>1, <1>3 DEF runs, TypeInv, ChannelsTypeOK
  <1>6. PPUScripts' /\ HandlerScripts' /\ ~atHandler' /\ ~inQueue'
    BY <1>1, <1>2, <1>5, ChannelsAssumption
       DEF WordInv, PPUScripts, RegisterOps, HandlerScripts, atHandler, inQueue, Actors
  <1>7. CASE script[Spu] = steps(handled)
    <2>1. script'[Spu] = steps(told) /\ established
      <3>1. ~(\A i \in DOMAIN script[Spu] : script[Spu][i].op \notin {"message", "rdIntr"})
        BY <1>4, <1>7, NotTold
      <3> QED BY <1>5, <1>7, <3>1, ScriptShapes DEF WordInv, SpuScripts
    <2> QED BY <1>1, <1>2, <1>6, <2>1 DEF WordInv, SpuScripts, inQueue
  <1>8. CASE script[Spu] # steps(handled)
    <2>1. \A i \in DOMAIN script[Spu] : script[Spu][i].op \notin {"message", "rdIntr"}
      BY <1>2, <1>8 DEF WordInv, SpuScripts, atSpu
    <2>2. \A i \in DOMAIN Tail(script[Spu]) : i + 1 \in DOMAIN script[Spu]
                                            /\ Tail(script[Spu])[i] = script[Spu][i + 1]
      BY <1>1, <1>3, <1>4
    <2>3. ~atSpu' /\ SpuScripts' BY <1>4, <1>5, <2>1, <2>2, NotTold DEF atSpu, SpuScripts
    <2> QED BY <1>1, <1>2, <1>6, <2>3 DEF WordInv, inQueue
  <1> QED BY <1>7, <1>8

\* The word is read: by the handler, or by a PPU thread while none is established.
LEMMA RdIntrStep ==
  ASSUME TypeInv, WordInv, NEW a \in Actors, read_puint_mb(a)
  PROVE  WordInv'
  <1>1. /\ Head(script[a]).op = "rdIntr" /\ script[a] # << >> /\ runs(a, Tail(script[a]))
        /\ intr = 1 /\ intr' = 0 /\ UNCHANGED <<messages, handler, established>>
    BY DEF read_puint_mb, inside, done, interrupts, TypeInv, InsideHasScript
  <1>2. \A b \in Actors \ {a} : script'[b] = script[b]
    BY <1>1 DEF runs, TypeInv, ChannelsTypeOK
  <1>3. script'[a] = Tail(script[a])
    BY <1>1 DEF runs, TypeInv, ChannelsTypeOK
  <1>4. "rdIntr" \in Ops /\ RegisterOps \subseteq Ops BY DEF RegisterOps, Ops, Accesses
  <1>5. a # Spu
    <2>1. SUFFICES ASSUME a = Spu PROVE FALSE OBVIOUS
    <2>2. script[Spu] \in Seq(Step) /\ script[Spu] # << >> BY <1>1, <2>1 DEF TypeInv, ChannelsTypeOK, Step
    <2>3. 1 \in DOMAIN script[Spu] /\ Head(script[Spu]) = script[Spu][1] BY <2>2
    <2>4. script[Spu] \in {steps(handled), steps(told)}
      BY <1>1, <2>1, <2>3 DEF WordInv, SpuScripts
    <2> QED BY <1>1, <2>1, <2>4, ScriptShapes
  <1>6. script'[Spu] = script[Spu] BY <1>2, <1>5 DEF Actors
  <1>7. CASE a \in PPUs
    <2>1. ~established /\ Tail(script[a]) = << >>
      BY <1>1, <1>4, <1>7, ScriptShapes DEF WordInv, PPUScripts, RegisterOps
    <2>2. script'[Handler] = script[Handler] BY <1>2, <1>7, ChannelsAssumption DEF Actors
    <2>3. PPUScripts' BY <1>1, <1>2, <1>3, <2>1 DEF WordInv, PPUScripts, RegisterOps, Actors
    <2>4. ~atSpu /\ ~inQueue /\ ~atHandler BY <2>1 DEF WordInv
    <2> QED BY <1>1, <1>6, <2>2, <2>3, <2>4
         DEF WordInv, SpuScripts, HandlerScripts, atSpu, inQueue, atHandler
  <1>8. CASE a = Handler
    <2>1. Tail(script[Handler]) = << >> BY <1>1, <1>4, <1>8, ScriptShapes DEF WordInv, HandlerScripts
    <2>2. atHandler BY <1>1, <1>8 DEF atHandler
    <2>3. ~atSpu /\ ~inQueue BY <2>2 DEF WordInv
    <2>4. PPUScripts'
      BY <1>1, <1>2, <1>8, ChannelsAssumption DEF WordInv, PPUScripts, RegisterOps, Actors
    <2>5. ~atSpu' /\ ~inQueue' /\ ~atHandler'
      BY <1>1, <1>3, <1>6, <1>8, <2>1, <2>3 DEF atSpu, inQueue, atHandler
    <2> QED BY <1>1, <1>6, <2>4, <2>5 DEF WordInv, SpuScripts, HandlerScripts, atHandler, inQueue
  <1> QED BY <1>5, <1>7, <1>8 DEF Actors

LEMMA DispatchStep ==
  ASSUME TypeInv, WordInv, NEW op \in Operations, dispatch(op)
  PROVE  WordInv'
  <1>1. /\ script[Spu] # << >> /\ Head(script[Spu]).op = op
        /\ UNCHANGED <<messages, handler, established, intr>>
    BY DEF dispatch, before, interrupts, mailboxes
  <1>2. ~atSpu
    BY <1>1, ScriptShapes DEF atSpu, Operations
  <1>3. /\ steps(handled) \in Seq(Step) /\ steps(handleInterrupt(op)) \in Seq(Step)
    BY DispatchSteps
  <1>4. \A b \in Actors \ {Spu} : script'[b] = script[b]
    BY DEF dispatch, runs, TypeInv, ChannelsTypeOK
  <1>5. PPUScripts' /\ HandlerScripts' /\ (atHandler' <=> atHandler) /\ (inQueue' <=> inQueue)
    BY <1>1, <1>4, ChannelsAssumption
       DEF WordInv, PPUScripts, RegisterOps, HandlerScripts, atHandler, inQueue, Actors
  <1>6. CASE established /\ script'[Spu] = steps(handled)
    <2>1. steps(handled) # steps(told) BY ScriptShapes
    <2> QED BY <1>1, <1>2, <1>5, <1>6, <2>1 DEF WordInv, SpuScripts, atSpu, inQueue
  <1>7. CASE script'[Spu] = steps(handleInterrupt(op))
    <2>1. /\ DOMAIN steps(handleInterrupt(op)) = DOMAIN handleInterrupt(op)
          /\ \A i \in DOMAIN handleInterrupt(op) :
                steps(handleInterrupt(op))[i].op = handleInterrupt(op)[i]
      BY DEF steps, step
    <2>2. \A i \in DOMAIN handleInterrupt(op) : handleInterrupt(op)[i] \notin {"message", "rdIntr"}
      <3>1. CASE op = "WriteInterruptMbox" BY <3>1 DEF handleInterrupt
      <3>2. CASE op = "ThrowEvent" BY <3>2 DEF handleInterrupt
      <3>3. CASE op = "SendEvent" BY <3>3 DEF handleInterrupt
      <3> QED BY <3>1, <3>2, <3>3 DEF Operations
    <2>3. ~atSpu' /\ SpuScripts' BY <1>3, <1>7, <2>1, <2>2, NotTold DEF atSpu, SpuScripts
    <2> QED BY <1>1, <1>2, <1>5, <2>3 DEF WordInv, inQueue
  <1>8. (established /\ script'[Spu] = steps(handled)) \/ script'[Spu] = steps(handleInterrupt(op))
    BY DEF dispatch, runs, TypeInv, ChannelsTypeOK, Actors
  <1> QED BY <1>6, <1>7, <1>8

\* The message is sent, and the SPU has nothing to do with the interrupt any more.
LEMMA MessageStep ==
  ASSUME TypeInv, WordInv, message
  PROVE  WordInv'
  <1>1. /\ script[Spu] # << >> /\ Head(script[Spu]).op = "message"
        /\ messages' = Append(messages, "Spu") /\ UNCHANGED <<handler, established, intr>>
        /\ messages \in Seq({"Spu", "Disestablish"}) /\ script[Spu] \in Seq(Step)
    BY DEF message, before, interrupts, mailboxes, TypeInv, ChannelsTypeOK, Step, Actors
  <1>2. script[Spu] = steps(told) /\ established
    <2>1. 1 \in DOMAIN script[Spu] /\ script[Spu][1].op = "message" BY <1>1
    <2>2. script[Spu] \in {steps(handled), steps(told)} /\ established
      BY <2>1 DEF WordInv, SpuScripts
    <2> QED BY <1>1, <2>2, ScriptShapes
  <1>3. ~inQueue /\ ~atHandler /\ intr = 1 BY <1>2 DEF WordInv, atSpu
  <1>4. /\ script'[Spu] = steps(<<"end">>)
        /\ \A b \in Actors \ {Spu} : script'[b] = script[b]
    BY <1>2, ScriptShapes DEF message, runs, TypeInv, ChannelsTypeOK, Actors
  <1>5. PPUScripts' /\ HandlerScripts' /\ ~atHandler'
    BY <1>1, <1>3, <1>4, ChannelsAssumption
       DEF WordInv, PPUScripts, RegisterOps, HandlerScripts, atHandler, Actors
  <1>6. SpuScripts' /\ ~atSpu'
    <2>1. <<"end">> \in Seq(Ops) /\ \A i \in DOMAIN <<"end">> : <<"end">>[i] = "end"
      BY DEF Ops
    <2>2. /\ steps(<<"end">>) \in Seq(Step) /\ DOMAIN steps(<<"end">>) = DOMAIN <<"end">>
          /\ \A i \in DOMAIN <<"end">> : steps(<<"end">>)[i].op = "end"
      BY <2>1, StepsAreScripts DEF steps, step
    <2> QED BY <1>4, <2>2, NotTold DEF SpuScripts, atSpu
  <1>7. \A i, j \in DOMAIN messages' : messages'[i] = "Spu" /\ messages'[j] = "Spu" => i = j
    <2>1. ASSUME NEW i \in DOMAIN messages', messages'[i] = "Spu"
          PROVE  i = Len(messages) + 1
      <3>1. i \in DOMAIN messages \/ i = Len(messages) + 1 BY <1>1
      <3>2. i \in DOMAIN messages => messages[i] = "Spu" BY <1>1, <2>1
      <3> QED BY <1>3, <3>1, <3>2 DEF inQueue
    <2> QED BY <2>1
  <1> QED BY <1>1, <1>2, <1>3, <1>5, <1>6, <1>7 DEF WordInv

\* The interrupt thread takes a message and its handler sets out to read the word.
LEMMA LoopStep ==
  ASSUME TypeInv, WordInv, innerLoop
  PROVE  WordInv'
  <1>1. /\ messages # << >> /\ messages' = Tail(messages) /\ UNCHANGED <<established, intr>>
        /\ messages \in Seq({"Spu", "Disestablish"}) /\ handler = "waiting"
    BY DEF innerLoop, mailboxes, TypeInv, ChannelsTypeOK
  <1>2. script[Handler] = << >> /\ ~atHandler
    BY <1>1 DEF WordInv, HandlerScripts, atHandler
  <1>3. ASSUME NEW i \in DOMAIN messages'
        PROVE  i + 1 \in DOMAIN messages /\ messages'[i] = messages[i + 1] /\ i \in Nat
    BY <1>1
  <1>4. \A i, j \in DOMAIN messages' : messages'[i] = "Spu" /\ messages'[j] = "Spu" => i = j
    <2>1. ASSUME NEW i \in DOMAIN messages', NEW j \in DOMAIN messages',
                 messages'[i] = "Spu", messages'[j] = "Spu"
          PROVE  i = j
      <3>1. i + 1 = j + 1 BY <1>3, <2>1 DEF WordInv
      <3> QED BY <1>3, <3>1
    <2> QED BY <2>1
  <1>5. 1 \in DOMAIN messages /\ messages[1] = Head(messages) BY <1>1
  <1>6. CASE Head(messages) = "Disestablish"
    <2>1. UNCHANGED script BY <1>6 DEF innerLoop
    <2>2. inQueue' => inQueue BY <1>3 DEF inQueue
    <2> QED BY <1>1, <1>2, <1>4, <2>1, <2>2
         DEF WordInv, PPUScripts, RegisterOps, SpuScripts, HandlerScripts, atSpu, atHandler
  <1>7. CASE Head(messages) # "Disestablish"
    <2>1. Head(messages) = "Spu" BY <1>1, <1>7
    <2>2. inQueue /\ ~atSpu /\ intr = 1 /\ established
      <3>1. inQueue BY <1>5, <2>1 DEF inQueue
      <3> QED BY <3>1 DEF WordInv
    <2>3. ~inQueue'
      <3>1. SUFFICES ASSUME NEW i \in DOMAIN messages', messages'[i] = "Spu" PROVE FALSE
        BY DEF inQueue
      <3>2. i + 1 = 1 BY <1>3, <1>5, <2>1, <3>1 DEF WordInv
      <3>3. i >= 1 BY <1>1
      <3> QED BY <1>3, <3>2, <3>3
    <2>4. /\ script'[Handler] = steps(<<"rdIntr">>) /\ handler' = "handling"
          /\ \A b \in Actors \ {Handler} : script'[b] = script[b]
      BY <1>7 DEF innerLoop, runs, TypeInv, ChannelsTypeOK, Actors
    <2>5. PPUScripts' /\ SpuScripts' /\ HandlerScripts' /\ ~atSpu'
      BY <1>1, <2>2, <2>4, ChannelsAssumption
         DEF WordInv, PPUScripts, RegisterOps, SpuScripts, HandlerScripts, atSpu, Actors
    <2> QED BY <1>1, <1>4, <2>2, <2>3, <2>5 DEF WordInv
  <1> QED BY <1>6, <1>7

\* The calls without a script, and the end of a handler.
LEMMA EstablishStep ==
  ASSUME TypeInv, WordInv, sys_interrupt_thread_establish
  PROVE  WordInv'
  <1>1. ~established /\ established' /\ UNCHANGED <<script, messages, handler, intr>>
        /\ \A p \in PPUs : script[p] # steps(<<"rdIntr">>)
    BY DEF sys_interrupt_thread_establish, mailboxes
  <1>2. ~atSpu /\ ~inQueue /\ ~atHandler BY <1>1 DEF WordInv
  <1>3. PPUScripts' BY <1>1 DEF WordInv, PPUScripts, RegisterOps
  <1> QED BY <1>1, <1>2, <1>3 DEF WordInv, SpuScripts, HandlerScripts, atSpu, inQueue, atHandler

LEMMA DestroyStep ==
  ASSUME TypeInv, WordInv, sys_raw_spu_destroy
  PROVE  WordInv'
  <1>1. /\ messages' = Append(messages, "Disestablish") /\ UNCHANGED <<script, handler, intr, established>>
        /\ messages \in Seq({"Spu", "Disestablish"})
    BY DEF sys_raw_spu_destroy, mailboxes, TypeInv, ChannelsTypeOK
  <1>2. ASSUME NEW i \in DOMAIN messages', messages'[i] = "Spu"
        PROVE  i \in DOMAIN messages /\ messages[i] = "Spu"
    BY <1>1, <1>2
  <1>3. (inQueue' => inQueue) /\ (atSpu' <=> atSpu) /\ (atHandler' <=> atHandler)
    BY <1>1, <1>2 DEF inQueue, atSpu, atHandler
  <1> QED BY <1>1, <1>2, <1>3
       DEF WordInv, PPUScripts, RegisterOps, SpuScripts, HandlerScripts

LEMMA EoiStep ==
  ASSUME WordInv, sys_interrupt_thread_eoi
  PROVE  WordInv'
  BY DEF sys_interrupt_thread_eoi, free, mailboxes, WordInv, PPUScripts, RegisterOps, SpuScripts,
         HandlerScripts, atSpu, inQueue, atHandler

\* A program that makes its next call: none has the message in it.
LEMMA SpuCallStep ==
  ASSUME TypeInv, WordInv, SpuCall
  PROVE  WordInv'
  <1>1. UNCHANGED <<messages, handler, established, intr>>
    BY DEF SpuCall, interrupts, mailboxes
  <1>2. PICK s \in Seq(Step) :
          runs(Spu, s) /\ \A i \in DOMAIN s : s[i].op \notin {"message", "rdIntr"}
    <2>1. ASSUME NEW ops \in SpuMailboxCalls
          PROVE  \A i \in DOMAIN ops : ops[i] \notin {"message", "rdIntr"}
      <3>1. \A i \in DOMAIN receiveCall : receiveCall[i] \notin {"message", "rdIntr"}
        BY DEF receiveCall
      <3>2. ASSUME NEW op \in Operations
            PROVE  \A i \in DOMAIN interruptCall(op) : interruptCall(op)[i] \notin {"message", "rdIntr"}
        BY DEF interruptCall, Operations
      <3> QED BY <3>1, <3>2 DEF SpuMailboxCalls
    <2>2. ASSUME NEW ops \in SpuMailboxCalls
          PROVE  \A i \in DOMAIN steps(ops) : steps(ops)[i].op \notin {"message", "rdIntr"}
      BY <2>1 DEF steps, step
    <2>3. ASSUME NEW call \in EventCalls
          PROVE  \A i \in DOMAIN call : call[i].op \notin {"message", "rdIntr"}
      <3>1. PICK x \in Step : call = <<x>> /\ x.op \in {"rdEvent", "ackEvent", "maskEvent"}
        <4>1. \/ call = <<step("rdEvent")>>
              \/ \E op \in {"ackEvent", "maskEvent"}, bits \in SUBSET Events :
                    call = <<[op |-> op, arg |-> bits]>>
          BY <2>3 DEF EventCalls
        <4> QED BY <4>1 DEF Step, step, Ops, Accesses
      <3> QED BY <3>1
    <2> QED BY <2>2, <2>3, CallsAreScripts DEF SpuCall
  <1>3. script'[Spu] = s /\ \A b \in Actors \ {Spu} : script'[b] = script[b]
    BY <1>2 DEF runs, TypeInv, ChannelsTypeOK, Actors
  <1>4. ~atSpu' /\ SpuScripts' BY <1>2, <1>3, NotTold DEF atSpu, SpuScripts
  <1>5. PPUScripts' /\ HandlerScripts' /\ (atHandler' <=> atHandler) /\ (inQueue' <=> inQueue)
    BY <1>1, <1>3, ChannelsAssumption
       DEF WordInv, PPUScripts, RegisterOps, HandlerScripts, atHandler, inQueue, Actors
  <1> QED BY <1>1, <1>4, <1>5 DEF WordInv

LEMMA PpuCallStep ==
  ASSUME TypeInv, WordInv, NEW p \in PPUs, PpuCall(p)
  PROVE  WordInv'
  <1>1. UNCHANGED <<messages, handler, established, intr>>
    BY DEF PpuCall, interrupts, mailboxes
  <1>2. PICK op \in RegisterOps : runs(p, steps(<<op>>))
    BY DEF PpuCall, RegisterOps
  <1>3. script'[p] = steps(<<op>>) /\ \A b \in Actors \ {p} : script'[b] = script[b]
    BY <1>2 DEF runs, TypeInv, ChannelsTypeOK, Actors
  <1>4. script'[Spu] = script[Spu] /\ script'[Handler] = script[Handler]
    BY <1>3, ChannelsAssumption DEF Actors
  <1>5. PPUScripts' BY <1>1, <1>3 DEF WordInv, PPUScripts, RegisterOps, Actors
  <1> QED BY <1>1, <1>4, <1>5
       DEF WordInv, SpuScripts, HandlerScripts, atSpu, inQueue, atHandler

LEMMA AdvanceStep ==
  ASSUME TypeInv, WordInv, NEW a \in Actors, Advance(a)
  PROVE  WordInv'
  <1>1. CASE Enter(a) \/ Leave(a) \/ Resumed(a)
    BY <1>1, WordKept DEF Enter, Leave, Resumed, wordState, interrupts, mailboxes
  <1>2. CASE Perform(a) /\ ~silently_write_interrupt_mbox(a) /\ ~read_puint_mb(a)
    <2>1. /\ Head(script[a]).op \notin {"intr", "rdIntr", "message"}
          /\ stage[a] = "inside" /\ runs(a, Tail(script[a]))
          /\ UNCHANGED <<messages, handler, established, intr>>
      BY <1>2 DEF Perform, inside, done, interrupts, mailboxes, write_WrOutMbox, mmio_read_Out_MBox,
         mmio_write_In_MBox, read_RdInMbox, read_RdEventStat, write_WrEventAck,
         write_WrEventMask, write_WrOutIntrMbox
    <2> QED BY <2>1, OtherStep DEF TypeInv, InsideHasScript
  <1> QED BY <1>1, <1>2, IntrStep, RdIntrStep DEF Advance, Perform

LEMMA WordStep ==
  ASSUME TypeInv, WordInv, [ChannelsNext]_channelVars
  PROVE  WordInv'
  <1>1. CASE UNCHANGED channelVars
    BY <1>1, WordKept DEF channelVars, wordState, interrupts, mailboxes
  <1>2. CASE Between
    <2>1. CASE stop \/ end
      BY <2>1, OtherStep DEF stop, end, before, done, interrupts, mailboxes, Actors
    <2> QED BY <1>2, <2>1, DispatchStep, MessageStep DEF Between
  <1>3. CASE Privileged
    <2>1. ASSUME NEW bits \in SUBSET {"M", "T"},
                 sys_raw_spu_set_int_mask(bits) \/ sys_raw_spu_set_int_stat(bits)
          PROVE  WordInv'
      BY <2>1, WordKept
         DEF sys_raw_spu_set_int_mask, sys_raw_spu_set_int_stat, wordState, mailboxes
    <2> QED BY <1>3, <2>1, EstablishStep, DestroyStep DEF Privileged
  <1>4. CASE suspend \/ resume \/ \E e \in Events : set_or(e)
    BY <1>4, WordKept DEF suspend, resume, set_or, wordState, interrupts, mailboxes
  <1> QED BY <1>1, <1>2, <1>3, <1>4, SpuCallStep, PpuCallStep, AdvanceStep, LoopStep, EoiStep
       DEF ChannelsNext, Serve

\* The handler of an interrupt never waits for the word of it, whatever the PPU
\* threads do with the other registers and however the SPU is masked or suspended.
\* Behaviour: SPUThread::loop fills the interrupt mailbox before it sends to the
\* interrupt thread, and waits with the next word until the handler has read it.
THEOREM WordsAreThere == ChannelsSpec => []HandlerFindsItsWord
  <1>1. TypeInv /\ WordInv => HandlerFindsItsWord
    BY DEF TypeInv, InsideHasScript, WordInv, atHandler, HandlerFindsItsWord, inside, Actors
  <1> QED BY <1>1, InitTypes, NextTypes, InitWord, WordStep, PTL DEF ChannelsSpec

-----------------------------------------------------------------------------
(* The event calls of the SPU                                              *)

\* The script s is what is left of the call from its place k on.
along(s, call, k) ==
  Len(s) = Len(call) + 1 - k /\ \A i \in 1 .. Len(s) : s[i].op = call[k + i - 1]

\* The word for the handler is in the outbound mailbox, or a PPU thread has it; the
\* inbound one holds n answers, or a PPU thread wrote there.
sent == out = 1 \/ taken
owed(n) == in = n \/ filled

sendSteps == <<"out", "in", "end", "rdIn">>
throwSteps == <<"out", "end">>

Ordinary ==
  /\ \A i \in DOMAIN script[Spu] : script[Spu][i].op \notin {"out", "in", "SendEvent", "ThrowEvent"}
  /\ owed(0)
Receives == \E k \in 1 .. 12 :
  /\ along(script[Spu], receiveCall, k)
  /\ k \in {2, 3} => sent
  /\ owed(IF k <= 4 THEN 0 ELSE IF k <= 8 THEN k - 4 ELSE 12 - k)
SendsAnswer == \E k \in 1 .. 5 :
  along(script[Spu], sendSteps, k) /\ (k = 1 => sent) /\ owed(IF k \in {3, 4} THEN 1 ELSE 0)
Throws == \E k \in 1 .. 3 : along(script[Spu], throwSteps, k) /\ (k = 1 => sent) /\ owed(0)
Raises == \E op \in {"SendEvent", "ThrowEvent"}, k \in 1 .. 3 :
  along(script[Spu], <<"wrOut", "raise", op>>, k) /\ (k # 1 => sent) /\ owed(0)

\* Where the SPU is in an event call, and the words that must be there for it.
CallInv == Ordinary \/ Receives \/ SendsAnswer \/ Throws \/ Raises

LEMMA CallKept ==
  ASSUME CallInv, script'[Spu] = script[Spu], sent => sent', \A n : owed(n) => owed(n)'
  PROVE  CallInv'
  <1>2. CASE Ordinary BY <1>2 DEF Ordinary, CallInv
  <1>3. CASE Receives
    <2>1. Receives' BY <1>3 DEF Receives
    <2> QED BY <2>1 DEF CallInv
  <1>4. CASE SendsAnswer
    <2>1. SendsAnswer' BY <1>4 DEF SendsAnswer
    <2> QED BY <2>1 DEF CallInv
  <1>5. CASE Throws
    <2>1. Throws' BY <1>5 DEF Throws
    <2> QED BY <2>1 DEF CallInv
  <1>6. CASE Raises
    <2>1. Raises' BY <1>6 DEF Raises
    <2> QED BY <2>1 DEF CallInv
  <1> QED BY <1>2, <1>3, <1>4, <1>5, <1>6 DEF CallInv

\* What a step of the SPU does to its place in a call.
LEMMA AlongTail ==
  ASSUME NEW s \in Seq(Step), s # << >>, NEW c, Len(c) \in Nat, NEW k \in 1 .. Len(c) + 1,
         along(s, c, k)
  PROVE  along(Tail(s), c, k + 1) /\ k \in 1 .. Len(c) /\ Head(s).op = c[k]
  <1>2. /\ Len(s) \in Nat \ {0} /\ Head(s) = s[1] /\ Len(Tail(s)) = Len(s) - 1
        /\ \A i \in 1 .. Len(s) - 1 : Tail(s)[i] = s[i + 1]
    OBVIOUS
  <1>3. Len(s) = Len(c) + 1 - k /\ \A i \in 1 .. Len(s) : s[i].op = c[k + i - 1]
    BY DEF along
  <1>4. k \in 1 .. Len(c) BY <1>2, <1>3
  <1>5. Head(s).op = c[k]
    <2>1. 1 \in 1 .. Len(s) /\ k + 1 - 1 = k BY <1>2
    <2> QED BY <1>2, <1>3, <2>1
  <1>6. ASSUME NEW i \in 1 .. Len(Tail(s)) PROVE Tail(s)[i].op = c[(k + 1) + i - 1]
    <2>1. i + 1 \in 1 .. Len(s) /\ i \in 1 .. Len(s) - 1 /\ k + (i + 1) - 1 = (k + 1) + i - 1
      BY <1>2
    <2> QED BY <1>2, <1>3, <2>1
  <1>7. Len(Tail(s)) = Len(c) + 1 - (k + 1) BY <1>2, <1>3
  <1> QED BY <1>4, <1>5, <1>6, <1>7 DEF along

\* A step of the SPU that goes on in its script keeps the words of its call in
\* order, given what the step does to the mailboxes.
LEMMA OwnStep ==
  ASSUME TypeInv, CallInv, script[Spu] # << >>, script'[Spu] = Tail(script[Spu]),
         NEW op, op = Head(script[Spu]).op, op \notin Operations,
         op = "wrOut" => sent', op # "out" => (sent => sent'),
         op = "in" => \A n \in Nat : owed(n) => owed(n + 1)',
         op = "rdIn" => (owed(0) => filled') /\ \A n \in Nat : owed(n + 1) => owed(n)',
         op \notin {"in", "rdIn"} => \A n : owed(n) => owed(n)'
  PROVE  CallInv'
  <1>s. script[Spu] \in Seq(Step) BY DEF TypeInv, ChannelsTypeOK, Step, Actors
  <1>t. script[Spu] # << >> OBVIOUS
  <1>1. CASE Ordinary
    <2>1. /\ 1 \in DOMAIN script[Spu] /\ op = script[Spu][1].op
          /\ \A i \in DOMAIN Tail(script[Spu]) :
               i + 1 \in DOMAIN script[Spu] /\ Tail(script[Spu])[i] = script[Spu][i + 1]
      BY <1>s
    <2>2. op \notin {"out", "in"} BY <1>1, <2>1 DEF Ordinary
    <2>3. owed(0)' BY <1>1, <2>2 DEF Ordinary, owed
    <2> QED BY <1>1, <2>1, <2>3 DEF Ordinary, CallInv
  <1>2. CASE Receives
    <2>0. Len(receiveCall) = 11 BY DEF receiveCall
    <2>1. PICK k \in 1 .. 12 : along(script[Spu], receiveCall, k) /\ (k \in {2, 3} => sent)
                               /\ owed(IF k <= 4 THEN 0 ELSE IF k <= 8 THEN k - 4 ELSE 12 - k)
      BY <1>2 DEF Receives
    <2>2. along(Tail(script[Spu]), receiveCall, k + 1) /\ k \in 1 .. 11 /\ op = receiveCall[k]
      <3>1. k \in 1 .. Len(receiveCall) + 1 /\ Len(receiveCall) \in Nat BY <2>0
      <3>2. along(script[Spu], receiveCall, k) BY <2>1
      <3>3. /\ along(Tail(script[Spu]), receiveCall, k + 1) /\ k \in 1 .. Len(receiveCall)
            /\ Head(script[Spu]).op = receiveCall[k]
        BY ONLY <1>s, <1>t, <3>1, <3>2, AlongTail
      <3> QED BY <2>0, <3>3
    <2>3. CASE k \in {1, 2, 3}
      <3>1. k + 1 \in 1 .. 12 /\ k + 1 <= 4 /\ owed(0) BY <2>1, <2>3
      <3>2. /\ op \notin {"in", "rdIn"} /\ (k = 1 => op = "wrOut")
            /\ (k = 2 => op # "out")
        BY <2>2, <2>3 DEF receiveCall
      <3>3. owed(0)' BY <3>1, <3>2
      <3>4. k + 1 \in {2, 3} => sent' BY <2>1, <2>3, <3>2
      <3> QED BY <2>2, <3>1, <3>3, <3>4 DEF Receives, CallInv
    <2>4. CASE k \in 4 .. 7
      <3>1. op = "in" BY <2>2, <2>4 DEF receiveCall
      <3>2. k - 4 \in Nat /\ owed(k - 4) /\ (k - 4) + 1 = (k + 1) - 4
        BY <2>1, <2>4
      <3>3. owed((k + 1) - 4)' BY <3>1, <3>2
      <3>4. /\ k + 1 \in 1 .. 12 /\ k + 1 \notin {2, 3} /\ ~(k + 1 <= 4) /\ k + 1 <= 8
        BY <2>4
      <3> QED BY <2>2, <3>3, <3>4 DEF Receives, CallInv
    <2>5. CASE k \in 8 .. 11
      <3>1. op = "rdIn" BY <2>2, <2>5 DEF receiveCall
      <3>2. 12 - (k + 1) \in Nat /\ owed((12 - (k + 1)) + 1)
        <4>1. (12 - (k + 1)) + 1 = IF k <= 8 THEN k - 4 ELSE 12 - k BY <2>5
        <4>2. ~(k <= 4) /\ 12 - (k + 1) \in Nat BY <2>5
        <4> QED BY <2>1, <4>1, <4>2
      <3>3. owed(12 - (k + 1))' BY <3>1, <3>2
      <3>4. k + 1 \in 1 .. 12 /\ k + 1 \notin {2, 3} /\ ~(k + 1 <= 4) /\ ~(k + 1 <= 8) BY <2>5
      <3> QED BY <2>2, <3>3, <3>4 DEF Receives, CallInv
    <2>6. k \in {1, 2, 3} \/ k \in 4 .. 7 \/ k \in 8 .. 11 BY <2>2
    <2> QED BY <2>3, <2>4, <2>5, <2>6
  <1>3. CASE SendsAnswer
    <2>0. Len(sendSteps) = 4 BY DEF sendSteps
    <2>1. PICK k \in 1 .. 5 : along(script[Spu], sendSteps, k) /\ (k = 1 => sent)
                              /\ owed(IF k \in {3, 4} THEN 1 ELSE 0)
      BY <1>3 DEF SendsAnswer
    <2>2. along(Tail(script[Spu]), sendSteps, k + 1) /\ k \in 1 .. 4 /\ op = sendSteps[k]
      <3>1. k \in 1 .. Len(sendSteps) + 1 /\ Len(sendSteps) \in Nat BY <2>0
      <3>2. along(script[Spu], sendSteps, k) BY <2>1
      <3>3. /\ along(Tail(script[Spu]), sendSteps, k + 1) /\ k \in 1 .. Len(sendSteps)
            /\ Head(script[Spu]).op = sendSteps[k]
        BY ONLY <1>s, <1>t, <3>1, <3>2, AlongTail
      <3> QED BY <2>0, <3>3
    <2>3. owed(IF k + 1 \in {3, 4} THEN 1 ELSE 0)'
      <3>1. CASE k = 1
        <4>1. op = "out" /\ owed(0) BY <2>1, <2>2, <3>1 DEF sendSteps
        <4> QED BY <3>1, <4>1
      <3>2. CASE k = 2
        <4>1. op = "in" /\ owed(0) BY <2>1, <2>2, <3>2 DEF sendSteps
        <4>2. owed(0 + 1)' BY <4>1
        <4> QED BY <3>2, <4>2
      <3>3. CASE k = 3
        <4>1. op = "end" /\ owed(1) BY <2>1, <2>2, <3>3 DEF sendSteps
        <4> QED BY <3>3, <4>1
      <3>4. CASE k = 4
        <4>1. op = "rdIn" /\ owed(0 + 1) BY <2>1, <2>2, <3>4 DEF sendSteps
        <4>2. owed(0)' BY <4>1
        <4> QED BY <3>4, <4>2
      <3> QED BY <2>2, <3>1, <3>2, <3>3, <3>4
    <2>4. k + 1 \in 1 .. 5 /\ k + 1 # 1 BY <2>2
    <2> QED BY <2>2, <2>3, <2>4 DEF SendsAnswer, CallInv
  <1>4. CASE Throws
    <2>0. Len(throwSteps) = 2 BY DEF throwSteps
    <2>1. PICK k \in 1 .. 3 : along(script[Spu], throwSteps, k) /\ owed(0)
      BY <1>4 DEF Throws
    <2>2. along(Tail(script[Spu]), throwSteps, k + 1) /\ k \in 1 .. 2 /\ op = throwSteps[k]
      <3>1. k \in 1 .. Len(throwSteps) + 1 /\ Len(throwSteps) \in Nat BY <2>0
      <3>2. along(script[Spu], throwSteps, k) BY <2>1
      <3>3. /\ along(Tail(script[Spu]), throwSteps, k + 1) /\ k \in 1 .. Len(throwSteps)
            /\ Head(script[Spu]).op = throwSteps[k]
        BY ONLY <1>s, <1>t, <3>1, <3>2, AlongTail
      <3> QED BY <2>0, <3>3
    <2>3. op \in {"out", "end"} BY <2>2 DEF throwSteps
    <2>4. owed(0)' BY <2>1, <2>3
    <2>5. k + 1 \in 1 .. 3 /\ k + 1 # 1 BY <2>2
    <2> QED BY <2>2, <2>4, <2>5 DEF Throws, CallInv
  <1>5. CASE Raises
    <2>1. PICK e \in {"SendEvent", "ThrowEvent"}, k \in 1 .. 3 :
            along(script[Spu], <<"wrOut", "raise", e>>, k) /\ (k # 1 => sent) /\ owed(0)
      BY <1>5 DEF Raises
    <2>0. Len(<<"wrOut", "raise", e>>) = 3 OBVIOUS
    <2>2. along(Tail(script[Spu]), <<"wrOut", "raise", e>>, k + 1) /\ k \in 1 .. 3 /\ op = <<"wrOut", "raise", e>>[k]
      <3>1. k \in 1 .. Len(<<"wrOut", "raise", e>>) + 1 /\ Len(<<"wrOut", "raise", e>>) \in Nat BY <2>0
      <3>2. along(script[Spu], <<"wrOut", "raise", e>>, k) BY <2>1
      <3>3. /\ along(Tail(script[Spu]), <<"wrOut", "raise", e>>, k + 1) /\ k \in 1 .. Len(<<"wrOut", "raise", e>>)
            /\ Head(script[Spu]).op = <<"wrOut", "raise", e>>[k]
        BY ONLY <1>s, <1>t, <3>1, <3>2, AlongTail
      <3> QED BY <2>0, <3>3
    <2>3. k # 3 BY <2>2 DEF Operations
    <2>4. (k = 1 => op = "wrOut") /\ (k = 2 => op = "raise") BY <2>2
    <2>5. owed(0)' BY <2>1, <2>3, <2>4
    <2>6. sent' BY <2>1, <2>3, <2>4
    <2>7. k + 1 \in 1 .. 3 BY <2>3
    <2> QED BY <2>2, <2>5, <2>6, <2>7 DEF Raises, CallInv
  <1> QED BY <1>1, <1>2, <1>3, <1>4, <1>5 DEF CallInv

\* The PPU threads and the interrupt thread do not read the inbound mailbox.
LEMMA OthersDoNotRead ==
  ASSUME TypeInv, WordInv, NEW a \in Actors \ {Spu}
  PROVE  ~read_RdInMbox(a)
  <1>1. SUFFICES ASSUME script[a] # << >>, Head(script[a]).op = "rdIn" PROVE FALSE
    BY DEF read_RdInMbox, inside, TypeInv, InsideHasScript
  <1>2. CASE a \in PPUs
    <2>1. PICK op \in RegisterOps : script[a] = steps(<<op>>)
      BY <1>1, <1>2 DEF WordInv, PPUScripts
    <2>2. op \in Ops /\ op # "rdIn" BY DEF RegisterOps, Ops, Accesses
    <2> QED BY <1>1, <2>1, <2>2, ScriptShapes
  <1>3. CASE a = Handler
    <2>1. "rdIntr" \in Ops BY DEF Ops, Accesses
    <2> QED BY <1>1, <1>3, <2>1, ScriptShapes DEF WordInv, HandlerScripts
  <1> QED BY <1>2, <1>3 DEF Actors

LEMMA PerformCall ==
  ASSUME TypeInv, WordInv, CallInv, NEW a \in Actors, Perform(a)
  PROVE  CallInv'
  <1>t. out \in {0, 1} /\ in \in 0 .. 4 /\ taken \in BOOLEAN /\ filled \in BOOLEAN
    BY DEF TypeInv, ChannelsTypeOK
  <1>1. /\ stage[a] = "inside" /\ script[a] # << >>
        /\ script' = [script EXCEPT ![a] = Tail(script[a])]
    BY DEF TypeInv, InsideHasScript, Perform, inside, done, runs, write_WrOutMbox,
           mmio_read_Out_MBox, mmio_write_In_MBox, read_RdInMbox, silently_write_interrupt_mbox,
           read_puint_mb, read_RdEventStat, write_WrEventAck, write_WrEventMask, write_WrOutIntrMbox
  <1>2. DOMAIN script = Actors /\ Spu \in Actors BY DEF TypeInv, ChannelsTypeOK, Actors
  <1>3. CASE a # Spu
    <2>1. script'[Spu] = script[Spu] BY <1>1, <1>2, <1>3
    <2>2. ~read_RdInMbox(a) BY <1>3, OthersDoNotRead
    <2>3. /\ (sent => sent') /\ (filled => filled')
          /\ in' = in \/ filled'
      <3>1. CASE write_WrOutMbox(a) BY <3>1 DEF write_WrOutMbox, sent
      <3>2. CASE mmio_read_Out_MBox(a)
        <4>1. taken' = TRUE BY <1>3, <3>2 DEF mmio_read_Out_MBox
        <4> QED BY <3>2, <4>1 DEF mmio_read_Out_MBox, sent
      <3>3. CASE mmio_write_In_MBox(a)
        <4>1. filled' = TRUE BY <1>3, <1>t, <3>3 DEF mmio_write_In_MBox
        <4> QED BY <3>3, <4>1 DEF mmio_write_In_MBox, sent
      <3>4. CASE UNCHANGED <<out, in, taken, filled>> BY <3>4 DEF sent
      <3>5. Perform(a) => \/ write_WrOutMbox(a) \/ mmio_read_Out_MBox(a) \/ mmio_write_In_MBox(a)
                          \/ UNCHANGED <<out, in, taken, filled>>
        BY <2>2 DEF Perform, silently_write_interrupt_mbox, read_puint_mb, read_RdEventStat,
           write_WrEventAck, write_WrEventMask, write_WrOutIntrMbox, mailboxes
      <3> QED BY <3>1, <3>2, <3>3, <3>4, <3>5
    <2>4. \A n : owed(n) => owed(n)' BY <2>3 DEF owed
    <2> QED BY <2>1, <2>3, <2>4, CallKept
  <1>4. CASE a = Spu
    <2>1. script'[Spu] = Tail(script[Spu]) /\ script[Spu] # << >> BY <1>1, <1>2, <1>4
    <2> DEFINE op == Head(script[Spu]).op
    <2>2. /\ op \in Accesses
          /\ (op = "wrOut" => sent') /\ (op # "out" => (sent => sent'))
          /\ op = "in" => (in' = in + 1 /\ filled' = filled)
          /\ op = "rdIn" => (in > 0 /\ in' = in - 1 /\ filled' = filled)
          /\ op \notin {"in", "rdIn"} => (in' = in /\ filled' = filled)
      <3>1. CASE write_WrOutMbox(a)
        BY <1>4, <3>1 DEF write_WrOutMbox, inside, Accesses, sent
      <3>2. CASE mmio_read_Out_MBox(a)
        BY <1>4, <3>2 DEF mmio_read_Out_MBox, inside, Accesses, sent
      <3>3. CASE mmio_write_In_MBox(a)
        BY <1>4, <1>t, <3>3 DEF mmio_write_In_MBox, inside, Accesses, sent
      <3>4. CASE read_RdInMbox(a)
        BY <1>4, <3>4 DEF read_RdInMbox, inside, Accesses, sent
      <3>5. CASE silently_write_interrupt_mbox(a) \/ read_puint_mb(a)
        BY <1>4, <3>5 DEF silently_write_interrupt_mbox, read_puint_mb, inside, Accesses, sent
      <3>6. CASE read_RdEventStat(a) \/ write_WrEventAck(a) \/ write_WrEventMask(a)
        BY <1>4, <3>6
           DEF read_RdEventStat, write_WrEventAck, write_WrEventMask, inside, Accesses, sent, mailboxes
      <3>7. CASE write_WrOutIntrMbox(a)
        BY <1>4, <3>7 DEF write_WrOutIntrMbox, inside, Accesses, sent, mailboxes
      <3> QED BY <3>1, <3>2, <3>3, <3>4, <3>5, <3>6, <3>7 DEF Perform
    <2> HIDE DEF op
    <2>3. op = "in" => \A n \in Nat : owed(n) => owed(n + 1)' BY <2>2 DEF owed
    <2>4. op = "rdIn" => (owed(0) => filled') /\ \A n \in Nat : owed(n + 1) => owed(n)'
      BY <1>t, <2>2 DEF owed
    <2>5. op \notin {"in", "rdIn"} => \A n : owed(n) => owed(n)' BY <2>2 DEF owed
    <2>6. op \notin Operations BY <2>2 DEF Operations, Accesses
    <2>7. op = Head(script[Spu]).op BY DEF op
    <2> QED BY <2>1, <2>2, <2>3, <2>4, <2>5, <2>6, <2>7, OwnStep
  <1> QED BY <1>3, <1>4

\* The names of a call, at their places in its script.
LEMMA CallBegins ==
  ASSUME NEW ops \in Seq(Ops)
  PROVE  along(steps(ops), ops, 1)
  <1>1. /\ steps(ops) \in Seq(Step) /\ DOMAIN steps(ops) = DOMAIN ops
        /\ \A i \in DOMAIN ops : steps(ops)[i] = step(ops[i])
    BY StepsAreScripts DEF steps
  <1>2. Len(ops) \in Nat /\ DOMAIN ops = 1 .. Len(ops) /\ Len(steps(ops)) = Len(ops)
    BY <1>1
  <1>3. \A i \in 1 .. Len(ops) : steps(ops)[i].op = ops[1 + i - 1]
    BY <1>1, <1>2 DEF step
  <1> QED BY <1>2, <1>3 DEF along

LEMMA OrdinarySteps ==
  ASSUME NEW ops \in Seq(Ops), \A i \in DOMAIN ops : ops[i] \notin {"out", "in", "SendEvent", "ThrowEvent"},
         script'[Spu] = steps(ops), owed(0)'
  PROVE  CallInv'
  <1>1. \A i \in DOMAIN steps(ops) :
          steps(ops)[i].op \notin {"out", "in", "SendEvent", "ThrowEvent"}
    BY DEF steps, step
  <1> QED BY <1>1 DEF CallInv, Ordinary

LEMMA DispatchCall ==
  ASSUME TypeInv, CallInv, NEW op \in Operations, dispatch(op)
  PROVE  CallInv'
  <1>1. /\ script[Spu] \in Seq(Step) /\ script[Spu] # << >> /\ Head(script[Spu]).op = op
        /\ \/ script'[Spu] = steps(handled) \/ script'[Spu] = steps(handleInterrupt(op))
        /\ UNCHANGED <<out, in, taken, filled>>
    BY DEF dispatch, before, runs, mailboxes, TypeInv, ChannelsTypeOK, Step, Actors
  <1>2. owed(0) /\ (op # "WriteInterruptMbox" => sent)
    <2>1. CASE Ordinary
      <3>1. 1 \in DOMAIN script[Spu] /\ script[Spu][1].op = op BY <1>1
      <3> QED BY <2>1, <3>1 DEF Ordinary, Operations
    <2>a. ASSUME NEW c, Len(c) \in Nat, NEW k \in 1 .. Len(c) + 1, along(script[Spu], c, k)
          PROVE  k \in 1 .. Len(c) /\ c[k] = op
      BY <1>1, <2>a, AlongTail
    <2>2. CASE Receives
      <3>0. Len(receiveCall) = 11 /\ \A k \in 1 .. 11 : receiveCall[k] \notin Operations
        BY DEF receiveCall, Operations
      <3>1. PICK k \in 1 .. 12 : along(script[Spu], receiveCall, k)
        BY <2>2 DEF Receives
      <3>2. k \in 1 .. Len(receiveCall) + 1 /\ Len(receiveCall) \in Nat BY <3>0
      <3>3. k \in 1 .. Len(receiveCall) /\ receiveCall[k] = op
        BY ONLY <2>a, <3>1, <3>2
      <3> QED BY <3>0, <3>3
    <2>3. CASE SendsAnswer
      <3>0. Len(sendSteps) = 4 /\ \A k \in 1 .. 4 : sendSteps[k] \notin Operations
        BY DEF sendSteps, Operations
      <3>1. PICK k \in 1 .. 5 : along(script[Spu], sendSteps, k)
        BY <2>3 DEF SendsAnswer
      <3>2. k \in 1 .. Len(sendSteps) + 1 /\ Len(sendSteps) \in Nat BY <3>0
      <3>3. k \in 1 .. Len(sendSteps) /\ sendSteps[k] = op
        BY ONLY <2>a, <3>1, <3>2
      <3> QED BY <3>0, <3>3
    <2>4. CASE Throws
      <3>0. Len(throwSteps) = 2 /\ \A k \in 1 .. 2 : throwSteps[k] \notin Operations
        BY DEF throwSteps, Operations
      <3>1. PICK k \in 1 .. 3 : along(script[Spu], throwSteps, k)
        BY <2>4 DEF Throws
      <3>2. k \in 1 .. Len(throwSteps) + 1 /\ Len(throwSteps) \in Nat BY <3>0
      <3>3. k \in 1 .. Len(throwSteps) /\ throwSteps[k] = op
        BY ONLY <2>a, <3>1, <3>2
      <3> QED BY <3>0, <3>3
    <2>5. CASE Raises
      <3>1. PICK e \in {"SendEvent", "ThrowEvent"}, k \in 1 .. 3 :
              along(script[Spu], <<"wrOut", "raise", e>>, k) /\ (k # 1 => sent) /\ owed(0)
        BY <2>5 DEF Raises
      <3>2. /\ k \in 1 .. Len(<<"wrOut", "raise", e>>) + 1 /\ Len(<<"wrOut", "raise", e>>) \in Nat
            /\ k = 1 => <<"wrOut", "raise", e>>[k] \notin Operations
        BY DEF Operations
      <3>3. k \in 1 .. Len(<<"wrOut", "raise", e>>) /\ <<"wrOut", "raise", e>>[k] = op
        BY ONLY <2>a, <3>1, <3>2
      <3> QED BY <3>1, <3>2, <3>3
    <2> QED BY <2>1, <2>2, <2>3, <2>4, <2>5 DEF CallInv
  <1>3. owed(0)' /\ (op # "WriteInterruptMbox" => sent') BY <1>1, <1>2 DEF owed, sent
  <1>4. CASE script'[Spu] = steps(handled)
    <2>1. handled \in Seq(Ops)
          /\ \A i \in DOMAIN handled : handled[i] \notin {"out", "in", "SendEvent", "ThrowEvent"}
      BY DEF handled, Ops, Accesses
    <2> QED BY <1>3, <1>4, <2>1, OrdinarySteps
  <1>5. CASE script'[Spu] = steps(handleInterrupt(op))
    <2>1. CASE op = "WriteInterruptMbox"
      <3> DEFINE ops == <<"intr", "end">>
      <3>1. /\ ops \in Seq(Ops) /\ handleInterrupt(op) = ops
            /\ \A i \in DOMAIN ops : ops[i] \notin {"out", "in", "SendEvent", "ThrowEvent"}
        BY <2>1 DEF handleInterrupt, Ops, Accesses
      <3> QED BY <1>3, <1>5, <3>1, OrdinarySteps
    <2>2. CASE op = "ThrowEvent"
      <3>1. throwSteps \in Seq(Ops) /\ handleInterrupt(op) = throwSteps
        BY <2>2 DEF handleInterrupt, throwSteps, Ops, Accesses
      <3>2. along(script'[Spu], throwSteps, 1) BY <1>5, <3>1, CallBegins
      <3>3. sent' BY <1>3, <2>2
      <3>4. Throws' BY <1>3, <3>2, <3>3 DEF Throws
      <3> QED BY <3>4 DEF CallInv
    <2>3. CASE op = "SendEvent"
      <3>1. sendSteps \in Seq(Ops) /\ handleInterrupt(op) = sendSteps
        BY <2>3 DEF handleInterrupt, sendSteps, Ops, Accesses
      <3>2. along(script'[Spu], sendSteps, 1) BY <1>5, <3>1, CallBegins
      <3>3. sent' BY <1>3, <2>3
      <3>4. SendsAnswer' BY <1>3, <3>2, <3>3 DEF SendsAnswer
      <3> QED BY <3>4 DEF CallInv
    <2> QED BY <2>1, <2>2, <2>3 DEF Operations
  <1> QED BY <1>1, <1>4, <1>5

LEMMA BetweenCall ==
  ASSUME TypeInv, CallInv, message \/ stop \/ end
  PROVE  CallInv'
  <1>1. /\ script[Spu] # << >> /\ script'[Spu] = Tail(script[Spu])
        /\ Head(script[Spu]).op \in {"message", "stop", "end"}
    BY DEF message, stop, end, before, done, runs, TypeInv, ChannelsTypeOK, Actors
  <1>2. UNCHANGED <<out, in, taken, filled>>
    BY DEF message, stop, end, mailboxes
  <1>3. (sent => sent') /\ \A n : owed(n) => owed(n)' BY <1>2 DEF sent, owed
  <1> DEFINE op == Head(script[Spu]).op
  <1>4. op \notin Operations /\ op \notin {"wrOut", "out", "in", "rdIn"}
    BY <1>1 DEF Operations
  <1>5. op = Head(script[Spu]).op OBVIOUS
  <1> HIDE DEF op
  <1> QED BY <1>1, <1>3, <1>4, <1>5, OwnStep

\* The SPU makes its next call: the last one left no answer behind.
LEMMA SpuBegins ==
  ASSUME TypeInv, CallInv, SpuCall
  PROVE  CallInv'
  <1>1. script[Spu] = << >> /\ UNCHANGED <<out, in, taken, filled>>
    BY DEF SpuCall, free, mailboxes
  <1>2. owed(0)
    <2>1. CASE Receives
      <3>1. PICK k \in 1 .. 12 : along(script[Spu], receiveCall, k)
                                 /\ owed(IF k <= 4 THEN 0 ELSE IF k <= 8 THEN k - 4 ELSE 12 - k)
        BY <2>1 DEF Receives
      <3>2. k = 12
        <4>1. Len(receiveCall) = 11 BY DEF receiveCall
        <4> QED BY <1>1, <3>1, <4>1 DEF along
      <3> QED BY <3>1, <3>2
    <2>2. CASE SendsAnswer
      <3>1. PICK k \in 1 .. 5 : along(script[Spu], sendSteps, k)
                                /\ owed(IF k \in {3, 4} THEN 1 ELSE 0)
        BY <2>2 DEF SendsAnswer
      <3>2. k = 5
        <4>1. Len(sendSteps) = 4 BY DEF sendSteps
        <4> QED BY <1>1, <3>1, <4>1 DEF along
      <3> QED BY <3>1, <3>2
    <2> QED BY <2>1, <2>2 DEF CallInv, Ordinary, Throws, Raises
  <1>3. owed(0)' BY <1>1, <1>2 DEF owed
  <1>4. DOMAIN script = Actors /\ Spu \in Actors BY DEF TypeInv, ChannelsTypeOK, Actors
  <1>5. ASSUME NEW ops \in SpuMailboxCalls, runs(Spu, steps(ops)) PROVE CallInv'
    <2>0. script'[Spu] = steps(ops) BY <1>4, <1>5 DEF runs
    <2>1. CASE ops \in {<<"wrOut">>, <<"rdIn">>, <<"raise", "WriteInterruptMbox">>}
      <3>1. ops \in Seq(Ops)
            /\ \A i \in DOMAIN ops : ops[i] \notin {"out", "in", "SendEvent", "ThrowEvent"}
        <4>1. CASE ops = <<"wrOut">> BY <4>1 DEF Ops, Accesses
        <4>2. CASE ops = <<"rdIn">> BY <4>2 DEF Ops, Accesses
        <4>3. CASE ops = <<"raise", "WriteInterruptMbox">>
          <5>1. "raise" \in Ops /\ "WriteInterruptMbox" \in Ops BY DEF Ops, Accesses, Operations
          <5> QED BY <4>3, <5>1
        <4> QED BY <2>1, <4>1, <4>2, <4>3
      <3> QED BY <1>3, <2>0, <3>1, OrdinarySteps
    <2>2. CASE ops = receiveCall
      <3>1. receiveCall \in Seq(Ops) BY DEF receiveCall, Ops, Accesses
      <3>2. along(script'[Spu], receiveCall, 1) BY <2>0, <2>2, <3>1, CallBegins
      <3>3. Receives' BY <1>3, <3>2 DEF Receives
      <3> QED BY <3>3 DEF CallInv
    <2>3. ASSUME NEW e \in {"SendEvent", "ThrowEvent"}, ops = interruptCall(e) PROVE CallInv'
      <3>1. ops = <<"wrOut", "raise", e>> /\ ops \in Seq(Ops)
        <4>1. ops = <<"wrOut", "raise", e>> BY <2>3 DEF interruptCall
        <4>2. "wrOut" \in Ops /\ "raise" \in Ops /\ e \in Ops BY DEF Ops, Accesses, Operations
        <4> QED BY <4>1, <4>2
      <3>2. along(script'[Spu], <<"wrOut", "raise", e>>, 1) BY <2>0, <3>1, CallBegins
      <3>3. Raises' BY <1>3, <3>2 DEF Raises
      <3> QED BY <3>3 DEF CallInv
    <2>4. interruptCall("WriteInterruptMbox") = <<"raise", "WriteInterruptMbox">>
      BY DEF interruptCall
    <2> QED BY <2>1, <2>2, <2>3, <2>4 DEF SpuMailboxCalls, Operations
  <1>6. ASSUME NEW call \in EventCalls, runs(Spu, call) PROVE CallInv'
    <2>1. \/ call = <<step("rdEvent")>>
          \/ \E op \in {"ackEvent", "maskEvent"}, bits \in SUBSET Events :
                call = <<[op |-> op, arg |-> bits]>>
      BY DEF EventCalls
    <2>2. PICK x : call = <<x>> /\ x.op \in {"rdEvent", "ackEvent", "maskEvent"}
      BY <2>1 DEF step
    <2>3. \A i \in DOMAIN call : call[i].op \notin {"out", "in", "SendEvent", "ThrowEvent"}
      BY <2>2
    <2>4. script'[Spu] = call BY <1>4, <1>6 DEF runs
    <2> QED BY <1>3, <2>3, <2>4 DEF CallInv, Ordinary
  <1> QED BY <1>5, <1>6 DEF SpuCall

LEMMA CallStep ==
  ASSUME TypeInv, WordInv, CallInv, [ChannelsNext]_channelVars
  PROVE  CallInv'
  <1>1. ASSUME script'[Spu] = script[Spu], UNCHANGED <<out, in, taken, filled>> PROVE CallInv'
    BY <1>1, CallKept DEF sent, owed
  <1>2. CASE UNCHANGED channelVars BY <1>1, <1>2 DEF channelVars, mailboxes
  <1>3. ASSUME NEW p \in PPUs, PpuCall(p) PROVE CallInv'
    <2>1. script'[Spu] = script[Spu]
      BY <1>3, ChannelsAssumption DEF PpuCall, runs, TypeInv, ChannelsTypeOK, Actors
    <2> QED BY <1>1, <1>3, <2>1 DEF PpuCall, mailboxes
  <1>4. CASE Privileged \/ suspend \/ resume \/ \E e \in Events : set_or(e)
    BY <1>1, <1>4 DEF Privileged, sys_interrupt_thread_establish, sys_raw_spu_destroy,
       sys_raw_spu_set_int_mask, sys_raw_spu_set_int_stat, suspend, resume, set_or, mailboxes
  <1>5. ASSUME NEW a \in Actors, Enter(a) \/ Leave(a) \/ Resumed(a) PROVE CallInv'
    BY <1>1, <1>5 DEF Enter, Leave, Resumed, mailboxes
  <1>6. CASE Serve
    <2>1. script'[Spu] = script[Spu]
      BY <1>6, ChannelsAssumption
         DEF Serve, innerLoop, sys_interrupt_thread_eoi, runs, TypeInv, ChannelsTypeOK, Actors
    <2> QED BY <1>1, <1>6, <2>1 DEF Serve, innerLoop, sys_interrupt_thread_eoi, mailboxes
  <1> QED
    BY <1>2, <1>3, <1>4, <1>5, <1>6, PerformCall, DispatchCall, BetweenCall, SpuBegins
    DEF ChannelsNext, Advance, Between

\* The word that an access to a mailbox is about, or the PPU thread that has it.
LEMMA CallWord ==
  ASSUME TypeInv, CallInv, stage[Spu] = "inside"
  PROVE  /\ Head(script[Spu]).op = "out" => sent
         /\ Head(script[Spu]).op = "in" => filled \/ in # inCapacity
  <1> SUFFICES ASSUME NEW op \in {"out", "in"}, Head(script[Spu]).op = op
               PROVE  (op = "out" => sent) /\ (op = "in" => filled \/ in # inCapacity)
    OBVIOUS
  <1>1. script[Spu] \in Seq(Step) /\ script[Spu] # << >>
    BY DEF TypeInv, ChannelsTypeOK, InsideHasScript, Step, Actors
  <1>a. ASSUME NEW c, Len(c) \in Nat, NEW k \in 1 .. Len(c) + 1, along(script[Spu], c, k)
        PROVE  k \in 1 .. Len(c) /\ c[k] = op
    BY <1>1, <1>a, AlongTail
  <1>2. CASE Ordinary
    <2>1. 1 \in DOMAIN script[Spu] /\ script[Spu][1].op = op BY <1>1
    <2> QED BY <1>2, <2>1 DEF Ordinary
  <1>3. CASE Receives
    <2>0. Len(receiveCall) = 11 BY DEF receiveCall
    <2>1. PICK k \in 1 .. 12 : along(script[Spu], receiveCall, k) /\ (k \in {2, 3} => sent)
                               /\ owed(IF k <= 4 THEN 0 ELSE IF k <= 8 THEN k - 4 ELSE 12 - k)
      BY <1>3 DEF Receives
    <2>2. k \in 1 .. Len(receiveCall) + 1 /\ Len(receiveCall) \in Nat BY <2>0
    <2>3. k \in 1 .. Len(receiveCall) /\ receiveCall[k] = op
      BY ONLY <1>a, <2>1, <2>2
    <2>4. (op = "out" => k = 3) /\ (op = "in" => k \in 4 .. 7)
      BY <2>0, <2>3 DEF receiveCall
    <2>5. CASE op = "out" BY <2>1, <2>4, <2>5
    <2>6. CASE op = "in"
      <3>1. \E n \in 0 .. 3 : owed(n)
        <4>1. k \in 4 .. 7 BY <2>4, <2>6
        <4>2. k = 4 => owed(0) BY <2>1
        <4>3. k # 4 => owed(k - 4) BY <2>1, <4>1
        <4>4. k - 4 \in 0 .. 3 /\ 0 \in 0 .. 3 BY <4>1
        <4> QED BY <4>2, <4>3, <4>4
      <3> QED BY <2>6, <3>1 DEF owed, inCapacity
    <2> QED BY <2>5, <2>6
  <1>4. CASE SendsAnswer
    <2>0. Len(sendSteps) = 4 BY DEF sendSteps
    <2>1. PICK k \in 1 .. 5 : along(script[Spu], sendSteps, k) /\ (k = 1 => sent)
                              /\ owed(IF k \in {3, 4} THEN 1 ELSE 0)
      BY <1>4 DEF SendsAnswer
    <2>2. k \in 1 .. Len(sendSteps) + 1 /\ Len(sendSteps) \in Nat BY <2>0
    <2>3. k \in 1 .. Len(sendSteps) /\ sendSteps[k] = op
      BY ONLY <1>a, <2>1, <2>2
    <2>4. (op = "out" => k = 1) /\ (op = "in" => k = 2)
      BY <2>0, <2>3 DEF sendSteps
    <2>5. op = "in" => owed(0) BY <2>1, <2>4
    <2> QED BY <2>1, <2>4, <2>5 DEF owed, inCapacity
  <1>5. CASE Throws
    <2>0. Len(throwSteps) = 2 BY DEF throwSteps
    <2>1. PICK k \in 1 .. 3 : along(script[Spu], throwSteps, k) /\ (k = 1 => sent)
      BY <1>5 DEF Throws
    <2>2. k \in 1 .. Len(throwSteps) + 1 /\ Len(throwSteps) \in Nat BY <2>0
    <2>3. k \in 1 .. Len(throwSteps) /\ throwSteps[k] = op
      BY ONLY <1>a, <2>1, <2>2
    <2>4. op = "out" /\ k = 1 BY <2>0, <2>3 DEF throwSteps
    <2> QED BY <2>1, <2>4
  <1>6. CASE Raises
    <2>1. PICK e \in {"SendEvent", "ThrowEvent"}, k \in 1 .. 3 :
            along(script[Spu], <<"wrOut", "raise", e>>, k)
      BY <1>6 DEF Raises
    <2>2. /\ k \in 1 .. Len(<<"wrOut", "raise", e>>) + 1 /\ Len(<<"wrOut", "raise", e>>) \in Nat
          /\ <<"wrOut", "raise", e>>[k] \notin {"out", "in"}
      OBVIOUS
    <2>3. k \in 1 .. Len(<<"wrOut", "raise", e>>) /\ <<"wrOut", "raise", e>>[k] = op
      BY ONLY <1>a, <2>1, <2>2
    <2> QED BY <2>2, <2>3
  <1> QED BY <1>2, <1>3, <1>4, <1>5, <1>6 DEF CallInv

\* An event call of the SPU that cannot go on waits for a word that a PPU thread took,
\* or for room that a PPU thread filled, for any PPU threads and whenever they run.
\* Behaviour: handleInterrupt and handleReceiveEvent read the SPU's outbound and
\* write its inbound mailbox with the calls of the PPU.
THEOREM PPUsAloneBlock == ChannelsSpec => []BlocksOnlyOnPPU
  <1>1. ChannelsInit => CallInv
    BY DEF ChannelsInit, CallInv, Ordinary, owed, Actors
  <1>2. TypeInv /\ CallInv => BlocksOnlyOnPPU
    BY CallWord DEF BlocksOnlyOnPPU, inside, sent
  <1> QED BY <1>1, <1>2, InitTypes, NextTypes, InitWord, WordStep, CallStep, PTL DEF ChannelsSpec
=============================================================================
