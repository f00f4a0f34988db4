--------------------------- MODULE MCMainMemory ---------------------------
(* Instances of MainMemory for TLC: the SPU thread spu, the PPU thread ppu *)
(* and a host thread rsx.  Each makes at most Calls[a] calls, of the kinds *)
(* in Does[a]: the bound of the search.                                    *)
EXTENDS MainMemory, TLC

CONSTANTS spu, ppu, rsx, Calls

VARIABLE calls      \* calls made so far
MCvars == <<vars, calls>>

MCInit == Init /\ calls = [a \in Agents |-> 0]

MCCall(a) == /\ calls[a] < Calls[a]
             /\ Call(a)
             /\ calls' = [calls EXCEPT ![a] = @ + 1]

MCContinue(a) == Continue(a) /\ UNCHANGED calls

MCNext == \E a \in Agents : MCCall(a) \/ MCContinue(a)

\* A thread that is inside a call is scheduled again and again; nobody is made
\* to begin a call.
MCSpec == MCInit /\ [][MCNext]_MCvars
MCFairSpec == MCSpec /\ \A a \in Agents : WF_MCvars(MCContinue(a))

\* Every call returns: no thread spins forever on a line's lock.
\* Behaviour: the lock order of store and the unlocks on every path.
CallsReturn == \A a \in Agents : pc[a] # "idle" ~> pc[a] = "idle"

MCValues == {0, 1}

\* Reserve: on one line of two words, an SPU and a PPU thread reserve and write
\* conditionally against each other and against a host thread's store; the SPU
\* also writes unconditionally, and is destroyed and created again.
ReserveDoes == spu :> {"loadReserve", "writeCond", "writeUncond", "acknowledge", "destroy"} @@
               ppu :> {"loadReserve", "writeCond"} @@
               rsx :> {"store"}
ReserveGives == spu :> {1} @@ ppu :> {1} @@ rsx :> {0}
ReserveCalls == spu :> 3 @@ ppu :> 3 @@ rsx :> 1

\* Blocks: on two lines of one word, an SPU reserves while the PPU and a host
\* thread store across the line boundary and write and read blocks.
BlocksDoes == spu :> {"loadReserve"} @@
              ppu :> {"store", "readMemory"} @@
              rsx :> {"store", "writeMemory"}
BlocksGives == spu :> {1} @@ ppu :> {1} @@ rsx :> {0, 1}
BlocksCalls == spu :> 2 @@ ppu :> 2 @@ rsx :> 1
=============================================================================
