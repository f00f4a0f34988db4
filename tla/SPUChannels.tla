---------------------------- MODULE SPUChannels ----------------------------
(***************************************************************************)
(* spu/SPUChannels.cpp, the interrupt and stop handlers of                 *)
(* spu/SPUThread.cpp, and ppu/InterruptPPUThread.cpp: one SPU, the PPU     *)
(* threads that access its registers, and the PPU thread that serves its   *)
(* interrupts.                                                             *)
(*                                                                         *)
(* A thread has a script, the channel and register accesses it has yet to  *)
(* make.  Each access is three steps, as the DisableSuspend around it: it  *)
(* enters, it does its work (and waits for that at a full or empty         *)
(* mailbox), and it leaves, which waits while the SPU is suspended,        *)
(* whatever thread it is that leaves.  A raw SPU may have an interrupt     *)
(* thread; an SPU of a group has event queues and may be suspended.        *)
(***************************************************************************)
EXTENDS Naturals, Sequences, SequencesExt

CONSTANTS
  PPUs,          \* the PPU threads that access the registers
  Spu, Handler,  \* the SPU's own thread and the interrupt thread
  Events         \* the events an SPU can enable

Actors == PPUs \cup {Spu, Handler}

ASSUME ChannelsAssumption == Spu # Handler /\ PPUs \cap {Spu, Handler} = {}

VARIABLES
  raw,           \* a raw SPU, or one of a group; for good
  out, intr, in, \* the number of words in each mailbox
  taken,         \* a PPU thread has read the outbound mailbox since the SPU wrote it
  filled,        \* a PPU thread has written the inbound mailbox
  pending, mask, count,          \* SpuEvent
  left,          \* the events that were pending after the last acknowledge, when
                 \* neither an event nor a mask has come since
  interrupt,     \* _interrupt2, of the bits M (mailbox) and T (others)
  established, mask2,            \* _interruptHandler
  messages, handler,             \* the queue of the interrupt thread, and the thread
  suspended, suspendEnabled,     \* of SPUThread
  script,        \* [Actors -> Seq(access)], what a thread has yet to do
  stage          \* [Actors -> where it is in the access at the head of its script]

mailboxes == <<out, intr, in, taken, filled>>
spuEvents == <<pending, mask, count, left>>
interrupts == <<interrupt, established, mask2, messages, handler>>
suspension == <<suspended, suspendEnabled>>
channelVars == <<raw, mailboxes, spuEvents, interrupts, suspension, script, stage>>

ChannelsInit ==
  /\ raw \in BOOLEAN
  /\ out = 0 /\ intr = 0 /\ in = 0 /\ taken = FALSE /\ filled = FALSE
  /\ pending = {} /\ mask = {} /\ count = 0 /\ left = {}
  /\ interrupt = {"T"} /\ established = FALSE /\ mask2 = {}
  /\ messages = << >> /\ handler = "waiting"
  /\ suspended = FALSE /\ suspendEnabled = TRUE
  /\ script = [a \in Actors |-> << >>]
  /\ stage = [a \in Actors |-> "outside"]

Accesses == {"wrOut", "rdIn", "rdIntr", "out", "in", "intr", "raise",
             "rdEvent", "ackEvent", "maskEvent"}
\* SpuInterruptOperation; SetFlag takes the steps of ThrowEvent.
Operations == {"SendEvent", "ThrowEvent", "WriteInterruptMbox"}

step(op) == [op |-> op, arg |-> {}]
steps(ops) == [i \in DOMAIN ops |-> step(ops[i])]

\* Thread a is outside of every access, with op before it; or inside of op.
before(a, op) == stage[a] = "outside" /\ script[a] # << >> /\ Head(script[a]).op = op
inside(a, op) == stage[a] = "inside" /\ Head(script[a]).op = op
free(a) == stage[a] = "outside" /\ script[a] = << >>
runs(a, ops) == script' = [script EXCEPT ![a] = ops]
-----------------------------------------------------------------------------
(* DisableSuspend and the queue between.                                   *)

Enter(a) ==
  /\ stage[a] = "outside" /\ script[a] # << >> /\ Head(script[a]).op \in Accesses
  /\ stage' = [stage EXCEPT ![a] = "inside"]
  /\ suspendEnabled' = FALSE
  /\ UNCHANGED <<raw, mailboxes, spuEvents, interrupts, suspended, script>>

\* The work of the access is done, and enableSuspend called.
done(a) ==
  /\ runs(a, Tail(script[a]))
  /\ stage' = [stage EXCEPT ![a] = "leaving"]
  /\ suspendEnabled' = TRUE /\ UNCHANGED suspended

\* waitSuspended: another thread that is inside hides the suspension.
Leave(a) ==
  /\ stage[a] = "leaving"
  /\ stage' = [stage EXCEPT ![a] = IF suspendEnabled /\ suspended THEN "waiting" ELSE "outside"]
  /\ UNCHANGED <<raw, mailboxes, spuEvents, interrupts, suspension, script>>

\* Mutant: the loop asks for suspendEnabled again.
ResumedEnabled(a) ==
  /\ stage[a] = "waiting" /\ ~suspended /\ suspendEnabled
  /\ stage' = [stage EXCEPT ![a] = "outside"]
  /\ UNCHANGED <<raw, mailboxes, spuEvents, interrupts, suspension, script>>

Resumed(a) ==
  /\ stage[a] = "waiting" /\ ~suspended
  /\ stage' = [stage EXCEPT ![a] = "outside"]
  /\ UNCHANGED <<raw, mailboxes, spuEvents, interrupts, suspension, script>>

\* Mutant: room for three words.
threeWords == 3

inCapacity == 4

\* The mailboxes: the SPU's own accesses, and the registers, which the handlers
\* of SPUThread.cpp use as well as the PPU does.
write_WrOutMbox(a) ==
  /\ inside(a, "wrOut") /\ out = 0
  /\ out' = 1 /\ taken' = FALSE /\ done(a)
  /\ UNCHANGED <<raw, intr, in, filled, spuEvents, interrupts>>

mmio_read_Out_MBox(a) ==
  /\ inside(a, "out") /\ out = 1
  /\ out' = 0 /\ taken' = (a # Spu) /\ done(a)
  /\ UNCHANGED <<raw, intr, in, filled, spuEvents, interrupts>>

mmio_write_In_MBox(a) ==
  /\ inside(a, "in") /\ in < inCapacity
  /\ in' = in + 1 /\ filled' = (filled \/ a # Spu) /\ done(a)
  /\ UNCHANGED <<raw, out, intr, taken, spuEvents, interrupts>>

read_RdInMbox(a) ==
  /\ inside(a, "rdIn") /\ in > 0
  /\ in' = in - 1 /\ done(a)
  /\ UNCHANGED <<raw, out, intr, taken, filled, spuEvents, interrupts>>

silently_write_interrupt_mbox(a) ==
  /\ inside(a, "intr") /\ intr = 0
  /\ intr' = 1 /\ done(a)
  /\ UNCHANGED <<raw, out, in, taken, filled, spuEvents, interrupts>>

read_puint_mb(a) ==
  /\ inside(a, "rdIntr") /\ intr = 1
  /\ intr' = 0 /\ done(a)
  /\ UNCHANGED <<raw, out, in, taken, filled, spuEvents, interrupts>>
-----------------------------------------------------------------------------
(* SpuEvent.  An event comes from a thread that takes the SPU's            *)
(* reservation; it does not go through DisableSuspend.                     *)

updateCount(p, m) == IF p \cap m # {} THEN 1 ELSE 0

\* Mutant: the count is brought up to date before the event is added.
set_orLate(e) ==
  /\ pending' = pending \cup {e}
  /\ count' = updateCount(pending, mask) /\ left' = {}
  /\ UNCHANGED <<raw, mailboxes, mask, interrupts, suspension, script, stage>>

set_or(e) ==
  /\ pending' = pending \cup {e}
  /\ count' = updateCount(pending', mask) /\ left' = {}
  /\ UNCHANGED <<raw, mailboxes, mask, interrupts, suspension, script, stage>>

read_RdEventStat(a) ==
  /\ inside(a, "rdEvent") /\ count = 1 /\ done(a)
  /\ UNCHANGED <<raw, mailboxes, spuEvents, interrupts>>

write_WrEventAck(a) ==
  /\ inside(a, "ackEvent")
  /\ pending' = pending \ Head(script[a]).arg /\ left' = pending'
  /\ count' = 0 /\ done(a)
  /\ UNCHANGED <<raw, mailboxes, mask, interrupts>>

write_WrEventMask(a) ==
  /\ inside(a, "maskEvent")
  /\ mask' = Head(script[a]).arg /\ left' = {}
  /\ count' = updateCount(pending, mask') /\ done(a)
  /\ UNCHANGED <<raw, mailboxes, pending, interrupts>>
-----------------------------------------------------------------------------
(* Interrupts and stops of the SPU.                                        *)

\* write(SPU_WrOutIntrMbox): it ends with the exception that dispatch catches.
write_WrOutIntrMbox(a) ==
  /\ inside(a, "raise")
  /\ interrupt' = interrupt \cup {"M"} /\ done(a)
  /\ UNCHANGED <<raw, mailboxes, spuEvents, established, mask2, messages, handler>>

\* Mutant: the interrupt thread is told before the word is in the mailbox.
handledEarly == <<"message", "intr", "end">>

handled == <<"intr", "message", "end">>

\* handleInterrupt.  After SendEvent the SPU program reads the answer.
handleInterrupt(op) ==
  CASE op = "WriteInterruptMbox" -> <<"intr", "end">>
    [] op = "ThrowEvent" -> <<"out", "end">>
    [] op = "SendEvent" -> <<"out", "in", "end", "rdIn">>

dispatch(op) ==
  /\ before(Spu, op)
  /\ runs(Spu, steps(IF established /\ mask2 \cap interrupt # {}
                     THEN handled ELSE handleInterrupt(op)))
  /\ suspendEnabled' = FALSE
  /\ UNCHANGED <<raw, mailboxes, spuEvents, interrupts, suspended, stage>>

\* The handler that establish installs.
message ==
  /\ before(Spu, "message")
  /\ messages' = Append(messages, "Spu")
  /\ runs(Spu, Tail(script[Spu]))
  /\ UNCHANGED <<raw, mailboxes, spuEvents, interrupt, established, mask2, handler,
                 suspension, stage>>

\* The DisableSuspend of the handlers themselves: a stop's is detached.
stop ==
  /\ before(Spu, "stop")
  /\ runs(Spu, Tail(script[Spu])) /\ suspendEnabled' = FALSE
  /\ UNCHANGED <<raw, mailboxes, spuEvents, interrupts, suspended, stage>>

end ==
  /\ before(Spu, "end") /\ done(Spu)
  /\ UNCHANGED <<raw, mailboxes, spuEvents, interrupts>>
-----------------------------------------------------------------------------
(* InterruptPPUThread.  The program's handler reads the word of the        *)
(* interrupt and ends.                                                     *)

innerLoop ==
  /\ handler = "waiting" /\ messages # << >>
  /\ messages' = Tail(messages)
  /\ IF Head(messages) = "Disestablish"
     THEN handler' = "gone" /\ UNCHANGED script
     ELSE handler' = "handling" /\ runs(Handler, steps(<<"rdIntr">>))
  /\ UNCHANGED <<raw, mailboxes, spuEvents, interrupt, established, mask2, suspension, stage>>

\* Mutant: the exception of eoi does not end the handler.
eoiLost == handler = "handling" /\ free(Handler) /\ UNCHANGED channelVars

sys_interrupt_thread_eoi ==
  /\ handler = "handling" /\ free(Handler) /\ handler' = "waiting"
  /\ UNCHANGED <<raw, mailboxes, spuEvents, interrupt, established, mask2, messages,
                 suspension, script, stage>>

\* By a program that no longer reads the interrupt mailbox itself.
sys_interrupt_thread_establish ==
  /\ raw /\ ~established /\ established' = TRUE
  /\ \A p \in PPUs : script[p] # steps(<<"rdIntr">>)
  /\ UNCHANGED <<raw, mailboxes, spuEvents, interrupt, mask2, messages, handler,
                 suspension, script, stage>>

\* setMask2 establishes the handler again, with the new mask.
sys_raw_spu_set_int_mask(bits) ==
  /\ established /\ mask2' = bits
  /\ UNCHANGED <<raw, mailboxes, spuEvents, interrupt, established, messages, handler,
                 suspension, script, stage>>

sys_raw_spu_set_int_stat(bits) ==
  /\ raw /\ interrupt' = bits
  /\ UNCHANGED <<raw, mailboxes, spuEvents, established, mask2, messages, handler,
                 suspension, script, stage>>

\* The SPU keeps its handler, and sends to a thread that has gone.
sys_raw_spu_destroy ==
  /\ established /\ handler # "gone" /\ ~Contains(messages, "Disestablish")
  /\ messages' = Append(messages, "Disestablish")
  /\ UNCHANGED <<raw, mailboxes, spuEvents, interrupt, established, mask2, handler,
                 suspension, script, stage>>

suspend ==
  /\ ~raw /\ ~suspended /\ suspended' = TRUE
  /\ UNCHANGED <<raw, mailboxes, spuEvents, interrupts, suspendEnabled, script, stage>>

resume ==
  /\ suspended /\ suspended' = FALSE
  /\ UNCHANGED <<raw, mailboxes, spuEvents, interrupts, suspendEnabled, script, stage>>
-----------------------------------------------------------------------------
(* What the programs do: the SPU's with its channels, in one go the        *)
(* sequence that the SPU's library makes of an event call; the PPU's with  *)
(* the registers.  A word for the interrupt thread is left to it.          *)

interruptCall(op) ==
  IF op = "WriteInterruptMbox" THEN <<"raise", op>> ELSE <<"wrOut", "raise", op>>

receiveCall == <<"wrOut", "stop", "out", "in", "in", "in", "in", "rdIn", "rdIn", "rdIn", "rdIn">>

SpuMailboxCalls ==
  {<<"wrOut">>, <<"rdIn">>, <<"raise", "WriteInterruptMbox">>}
    \cup IF raw THEN {} ELSE {receiveCall} \cup {interruptCall(op) : op \in Operations}

EventCalls ==
  {<<step("rdEvent")>>}
    \cup {<<[op |-> op, arg |-> bits]>> : op \in {"ackEvent", "maskEvent"}, bits \in SUBSET Events}

SpuCall ==
  /\ free(Spu)
  /\ \/ \E ops \in SpuMailboxCalls : runs(Spu, steps(ops))
     \/ \E call \in EventCalls : runs(Spu, call)
  /\ UNCHANGED <<raw, mailboxes, spuEvents, interrupts, suspension, stage>>

PpuCall(p) ==
  /\ free(p)
  /\ \E op \in {"out", "in"} \cup (IF established THEN {} ELSE {"rdIntr"}) :
       runs(p, steps(<<op>>))
  /\ UNCHANGED <<raw, mailboxes, spuEvents, interrupts, suspension, stage>>

\* The calls without a script.
Privileged ==
  \/ sys_interrupt_thread_establish \/ sys_raw_spu_destroy
  \/ \E bits \in SUBSET {"M", "T"} : sys_raw_spu_set_int_mask(bits) \/ sys_raw_spu_set_int_stat(bits)

Perform(a) ==
  \/ write_WrOutMbox(a) \/ mmio_read_Out_MBox(a)
  \/ mmio_write_In_MBox(a) \/ read_RdInMbox(a)
  \/ silently_write_interrupt_mbox(a) \/ read_puint_mb(a)
  \/ read_RdEventStat(a) \/ write_WrEventAck(a) \/ write_WrEventMask(a)
  \/ write_WrOutIntrMbox(a)

Between == (\E op \in Operations : dispatch(op)) \/ message \/ stop \/ end

Advance(a) == Enter(a) \/ Perform(a) \/ Leave(a) \/ Resumed(a)
Serve == innerLoop \/ sys_interrupt_thread_eoi

ChannelsNext ==
  \/ SpuCall \/ (\E p \in PPUs : PpuCall(p)) \/ Privileged
  \/ (\E e \in Events : set_or(e)) \/ suspend \/ resume
  \/ (\E a \in Actors : Advance(a)) \/ Between \/ Serve

\* Every thread runs on when it can, and a suspended group is resumed.
ChannelsFairness ==
  /\ \A a \in Actors : WF_channelVars(Advance(a))
  /\ WF_channelVars(Between) /\ WF_channelVars(Serve) /\ WF_channelVars(resume)

ChannelsSpec == ChannelsInit /\ [][ChannelsNext]_channelVars
ChannelsFairSpec == ChannelsSpec /\ ChannelsFairness
-----------------------------------------------------------------------------
(* Correctness.                                                            *)

Ops == Accesses \cup Operations \cup {"message", "stop", "end"}

\* Every variable holds what its declaration says.
ChannelsTypeOK ==
  /\ raw \in BOOLEAN
  /\ out \in {0, 1} /\ intr \in {0, 1} /\ in \in 0 .. 4
  /\ taken \in BOOLEAN /\ filled \in BOOLEAN
  /\ pending \subseteq Events /\ mask \subseteq Events /\ left \subseteq Events
  /\ count \in {0, 1}
  /\ interrupt \subseteq {"M", "T"} /\ mask2 \subseteq {"M", "T"} /\ established \in BOOLEAN
  /\ messages \in Seq({"Spu", "Disestablish"})
  /\ handler \in {"waiting", "handling", "gone"}
  /\ suspended \in BOOLEAN /\ suspendEnabled \in BOOLEAN
  /\ script \in [Actors -> Seq([op : Ops, arg : SUBSET Events])]
  /\ stage \in [Actors -> {"outside", "inside", "leaving", "waiting"}]

\* The handler of an interrupt never waits for the word of it.
\* Behaviour: SPUThread::loop fills the interrupt mailbox before it sends to the
\* interrupt thread, and waits with the next word until the handler has read it.
HandlerFindsItsWord == inside(Handler, "rdIntr") => intr = 1

\* A handler of the SPU's event calls that cannot go on, for its port is gone from
\* the outbound mailbox or its answer has no room in the inbound one, is in the way
\* of a PPU thread that used the same mailbox, and of nothing the SPU did itself.
\* Behaviour: handleInterrupt and handleReceiveEvent read the SPU's outbound and
\* write its inbound mailbox with the calls of the PPU.
BlocksOnlyOnPPU ==
  /\ inside(Spu, "out") /\ out = 0 => taken
  /\ inside(Spu, "in") /\ in = inCapacity => filled

\* An enabled event is pending and would let the SPU sleep only when it was there
\* at the last acknowledge and neither an event nor a mask has come since.
\* Behaviour: acknowledge clears the count, set_or and setMask work it out.
OnlyOldEventsAreSilent == count = 0 => pending \cap mask \subseteq left

\* A register access of a suspended SPU ends, for the PPU threads too, once the
\* group is resumed, whoever else is inside of one.
\* Behaviour: ~DisableSuspend.
AccessReturns == \A a \in Actors : stage[a] \in {"leaving", "waiting"} ~> stage[a] = "outside"

\* An interrupt that was sent to the interrupt thread is served, or the thread has
\* been told to go.
\* Behaviour: InterruptPPUThread::innerLoop receives again after each handler.
InterruptsServed == messages # << >> ~> messages = << >> \/ handler = "gone"
=============================================================================
