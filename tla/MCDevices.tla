----------------------------- MODULE MCDevices -----------------------------
(* What stands beside the PPU, for TLC: a behaviour is one of the RSX's       *)
(* command processor (Rsx), of its texture cache (TextureCache), or of an SPU *)
(* (SPUChannels), and plays says of which.  An SPU of a group plays with its  *)
(* events or its mailboxes, which share no state but the suspension; a raw    *)
(* one, with interrupts.  SpuCalls and PpuCalls bound its calls, Privileges   *)
(* those without a script, Notices its events, Suspensions the suspensions.   *)
EXTENDS Rsx, TextureCache, SPUChannels, TLC

CONSTANTS main, other, st1, cp1,
          p1, SpuCalls, PpuCalls, Privileges, Notices, Suspensions

VARIABLES plays, calls, privileges, notices, suspensions
counts == <<calls, privileges, notices, suspensions>>
channelState == <<channelVars, counts>>
all == <<plays, rsxVars, textureVars, channelState>>

Idle == [buffer |-> <<>>, scripts |-> [g \in Guests |-> <<>>]]

\* Every program of four commands that load or draw and end with a draw.
Loads ==
  {<<"constants", 1>>, <<"constants", 2>>, <<"draw">>, <<"drawIndex", 1>>,
   <<"drawIndex", 2>>}
Begins == <<<<"start">>, <<"initialized">>>>
Ends == <<<<"shutdown">>, <<"join">>>>
Alone(own) == [g \in Guests |-> IF g = main THEN Begins \o own \o Ends ELSE <<>>]
Draws ==
  {[buffer |-> <<a, b, c, d>>, scripts |-> Alone(<<<<"flush", 5>>>>)] :
     a, b, c \in Loads, d \in {<<"draw">>, <<"drawIndex", 1>>}}

\* Vertices that are written over behind a reference and behind a label.
Reuse ==
  [buffer |-> <<<<"draw">>, <<"draw">>, <<"reference", 1>>, <<"draw">>,
                <<"backEndRelease", 2, 1>>, <<"draw">>>>,
   scripts |-> Alone(<<<<"vertices", 1>>, <<"flush", 4>>, <<"awaitRef", 1>>,
     <<"vertices", 2>>, <<"flush", 6>>, <<"awaitLabel", 2, 1>>,
     <<"vertices", 1>>, <<"flush", 7>>>>)]

\* A jump to itself until the guest takes it away, and a subroutine.
Flows ==
  [buffer |-> <<<<"call", 5>>, <<"jump", 2>>, <<"constants", 1>>, <<"jump", 7>>,
                <<"draw">>, <<"ret">>, <<"reference", 2>>>>,
   scripts |-> Alone(<<<<"flush", 8>>, <<"patch", 2>>, <<"awaitRef", 2>>>>)]

\* A semaphore that the guest releases and one that the RSX releases to itself,
\* and a second thread that takes the events of two flips and an interrupt.
Signals ==
  [buffer |-> <<<<"acquire", 2, 1>>, <<"acquire", 3, 1>>, <<"queue">>, <<"flip">>,
                <<"interrupt", 1>>, <<"release", 2, 2>>, <<"flip">>>>,
   scripts |-> [g \in Guests |->
     IF g = main
     THEN Begins \o <<<<"resetFlip">>, <<"flush", 8>>, <<"label", 2, 1>>,
            <<"awaitFlip">>, <<"awaitLabel", 2, 2>>>> \o Ends
     ELSE <<<<"receive">>>>]]

MCPrograms == Draws \cup {Reuse, Flows, Signals, Idle}

\* The programs flush nothing after the shutdown.
ASSUME FlushedBefore == ShutsDownLast

\* They write vertices before they flush, or behind a fence.
ASSUME WrittenInTime == WritesInTime

SpuPlays == {"events", "mailboxes", "interrupts"}

DevicesInit ==
  /\ plays \in {"commands", "textures"} \cup SpuPlays
  /\ RsxInit /\ TextureInit /\ ChannelsInit
  /\ plays = "commands" <=> program # Idle
  /\ plays = "interrupts" <=> raw
  /\ calls = [a \in Actors |-> 0]
  /\ privileges = 0 /\ notices = 0 /\ suspensions = 0

CommandsPlay == plays = "commands" /\ RsxNext /\ UNCHANGED <<textureVars, channelState>>
TexturesPlay == plays = "textures" /\ TextureNext /\ UNCHANGED <<rsxVars, channelState>>

MCSpuCall ==
  /\ calls[Spu] < SpuCalls[plays] /\ SpuCall
  /\ plays = "events" <=> Head(script'[Spu]).op \in {"rdEvent", "ackEvent", "maskEvent"}
  /\ calls' = [calls EXCEPT ![Spu] = @ + 1]
  /\ UNCHANGED <<privileges, notices, suspensions>>

MCPpuCall(p) ==
  /\ calls[p] < PpuCalls[plays] /\ PpuCall(p)
  /\ calls' = [calls EXCEPT ![p] = @ + 1]
  /\ UNCHANGED <<privileges, notices, suspensions>>

MCPrivileged ==
  /\ privileges < Privileges /\ Privileged
  /\ privileges' = privileges + 1
  /\ UNCHANGED <<calls, notices, suspensions>>

MCset_or ==
  /\ plays = "events" /\ notices < Notices
  /\ \E e \in Events : set_or(e)
  /\ notices' = notices + 1
  /\ UNCHANGED <<calls, privileges, suspensions>>

MCsuspend ==
  /\ suspensions < Suspensions /\ suspend
  /\ suspensions' = suspensions + 1
  /\ UNCHANGED <<calls, privileges, notices>>

MCInside ==
  /\ (\E a \in Actors : Advance(a)) \/ Between \/ Serve \/ resume
  /\ UNCHANGED counts

SpuPlay ==
  /\ plays \in SpuPlays
  /\ \/ MCSpuCall \/ (\E p \in PPUs : MCPpuCall(p)) \/ MCPrivileged
     \/ MCset_or \/ MCsuspend \/ MCInside
  /\ UNCHANGED <<rsxVars, textureVars>>

DevicesNext == (CommandsPlay \/ TexturesPlay \/ SpuPlay) /\ UNCHANGED plays

\* RsxFairness and ChannelsFairness, each in the behaviours that are its own.
CommandsFairness ==
  /\ WF_rsxVars(plays = "commands" /\ RsxThread)
  /\ WF_rsxVars(plays = "commands" /\ gpuWorks)
  /\ \A g \in Guests : WF_rsxVars(plays = "commands" /\ Guest(g))
SpuFairness ==
  /\ \A a \in Actors : WF_channelVars(plays \in SpuPlays /\ Advance(a))
  /\ WF_channelVars(plays \in SpuPlays /\ Between)
  /\ WF_channelVars(plays \in SpuPlays /\ Serve)
  /\ WF_channelVars(plays \in SpuPlays /\ resume)

DevicesSpec ==
  DevicesInit /\ [][DevicesNext]_all /\ CommandsFairness /\ SpuFairness

MCSpuCalls == [events |-> 4, mailboxes |-> 2, interrupts |-> 3]
MCPpuCalls == [events |-> 0, mailboxes |-> 2, interrupts |-> 1]
MCPages == 1 .. 3
MCPlaces == 1 .. 8
MCSpan == [t \in Textures |-> IF t = "a" THEN {1} ELSE {2, 3}]
=============================================================================
