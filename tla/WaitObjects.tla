---------------------------- MODULE WaitObjects ----------------------------
(***************************************************************************)
(* libs/sync/event_flag.cpp and CellSemaphore of libs/sys.cpp: an event    *)
(* flag and a semaphore, each a value under a mutex of its own, and the    *)
(* threads that wait for a value they can use.                             *)
(*                                                                         *)
(* A call holds its mutex from beginning to end but for the sleep, so that *)
(* a wait is one step up to the sleep, and one each time it is awakened.   *)
(* The loop of CellSemaphore::wait ends by its value only: a timeout just  *)
(* awakens it.                                                             *)
(***************************************************************************)
EXTENDS Integers, FiniteSets

CONSTANTS
  Callers,       \* the threads
  Bits,          \* the bits of the event flag
  MaxVal,        \* the semaphore's maximum
  MaxPost        \* the most that one post adds

ASSUME WaitAssumption == MaxPost \in Nat

VARIABLES
  value,         \* EventFlag::value, a set of bits
  val,           \* CellSemaphore::_val
  state,         \* [Callers -> "run", "asleep" or "awake"]
  wants,         \* [Callers -> what the last wait of the thread was for]
  sets,          \* [Bits -> how often the bit was set]
  taken          \* [Bits -> how many waits for the bit, and it alone, cleared it]

flagVars == <<value, sets, taken>>
waitVars == <<flagVars, val, state, wants>>

\* The two bits of the mode that sys_event_flag_wait looks at, and CLEAR_ALL.
FlagWaits == [on : {"flag"}, bits : SUBSET Bits, all : BOOLEAN,
              clear : {"none", "bits", "all"}]
semaphoreWait == [on |-> "semaphore", bits |-> {}, all |-> FALSE, clear |-> "none"]

WaitInit ==
  /\ value = {} /\ val = 0
  /\ state = [t \in Callers |-> "run"]
  /\ wants = [t \in Callers |-> semaphoreWait]
  /\ sets = [b \in Bits |-> 0] /\ taken = sets

\* The condition of a wait w.
holds(w) ==
  IF w.on = "semaphore" THEN val # 0
  ELSE IF w.all THEN w.bits \subseteq value ELSE w.bits \cap value # {}

\* Mutant: the bits are kept and the others cleared, as sys_event_flag_clear does.
clearedKeeps(w) ==
  CASE w.clear = "none" -> value [] w.clear = "bits" -> value \cap w.bits [] w.clear = "all" -> {}

cleared(w) ==
  CASE w.clear = "none" -> value [] w.clear = "bits" -> value \ w.bits [] w.clear = "all" -> {}

\* The wait ends, with what it takes.
take(t, w) ==
  /\ state' = [state EXCEPT ![t] = "run"]
  /\ IF w.on = "semaphore" THEN val' = val - 1 /\ UNCHANGED flagVars
     ELSE /\ value' = cleared(w)
          /\ taken' = [b \in Bits |-> IF w.bits = {b} /\ w.clear = "bits" THEN taken[b] + 1
                                      ELSE taken[b]]
          /\ UNCHANGED <<val, sets>>

sleep(t) == state' = [state EXCEPT ![t] = "asleep"] /\ UNCHANGED <<flagVars, val>>

\* sys_event_flag_wait, sys_semaphore_wait and sys_semaphore_trywait.
wait(t, w) ==
  /\ state[t] = "run"
  /\ wants' = [wants EXCEPT ![t] = w]
  /\ IF holds(w) THEN take(t, w) ELSE sleep(t)

\* Mutant: a semaphore that was waited for is not looked at again.
awakenedBlind(t) ==
  /\ state[t] = "awake"
  /\ IF wants[t].on = "semaphore" \/ holds(wants[t]) THEN take(t, wants[t]) ELSE sleep(t)
  /\ UNCHANGED wants

awakened(t) ==
  /\ state[t] = "awake"
  /\ IF holds(wants[t]) THEN take(t, wants[t]) ELSE sleep(t)
  /\ UNCHANGED wants

\* Mutant: notify_one.
awakenOne(kind) ==
  LET sleepers == {t \in Callers : state[t] = "asleep" /\ wants[t].on = kind}
  IN IF sleepers = {} THEN UNCHANGED state
     ELSE \E t \in sleepers : state' = [state EXCEPT ![t] = "awake"]

\* notify_all of the object.
awaken(kind) ==
  state' = [t \in Callers |-> IF state[t] = "asleep" /\ wants[t].on = kind
                              THEN "awake" ELSE state[t]]

\* The timed_wait of the semaphore runs out; a spurious wake-up of the flag.
awakenAlone(t) ==
  /\ state[t] = "asleep" /\ state' = [state EXCEPT ![t] = "awake"]
  /\ UNCHANGED <<flagVars, val, wants>>

sys_event_flag_set(t, b) ==
  /\ state[t] = "run"
  /\ value' = value \cup {b} /\ sets' = [sets EXCEPT ![b] = @ + 1]
  /\ awaken("flag")
  /\ UNCHANGED <<val, wants, taken>>

sys_event_flag_clear(t, bits) ==
  /\ state[t] = "run" /\ value' = value \cap bits
  /\ UNCHANGED <<val, state, wants, sets, taken>>

\* The value is compared with the maximum before the addition only.
sys_semaphore_post(t, n) ==
  /\ state[t] = "run"
  /\ IF val = MaxVal THEN UNCHANGED <<val, state>> ELSE val' = val + n /\ awaken("semaphore")
  /\ UNCHANGED <<flagVars, wants>>

ObjectCall(t) ==
  \/ \E w \in FlagWaits \cup {semaphoreWait} : wait(t, w)
  \/ \E b \in Bits : sys_event_flag_set(t, b)
  \/ \E bits \in SUBSET Bits : sys_event_flag_clear(t, bits)
  \/ \E n \in 1 .. MaxPost : sys_semaphore_post(t, n)

ObjectNext == \E t \in Callers : ObjectCall(t) \/ awakened(t) \/ awakenAlone(t)
WaitSpec == WaitInit /\ [][ObjectNext]_waitVars
-----------------------------------------------------------------------------
(* Correctness.                                                            *)

WaitTypeOK ==
  /\ value \subseteq Bits /\ val \in Int
  /\ state \in [Callers -> {"run", "asleep", "awake"}]
  /\ wants \in [Callers -> FlagWaits \cup {semaphoreWait}]
  /\ sets \in [Bits -> Nat] /\ taken \in [Bits -> Nat]

\* No thread sleeps while what it waits for is there, although other threads that
\* were awakened with it may have taken it, or it is set again meanwhile.
\* Behaviour: set and post awaken every thread, under the mutex of the waits.
NoneSleepsInVain == \A t \in Callers : state[t] = "asleep" => ~holds(wants[t])

\* A bit that was set once ends one wait that clears it, and a post of n at most n
\* waits: the value that is unsigned in the code is never taken below zero.
\* Behaviour: the predicate is evaluated again by each thread that is awakened.
OnePerSignal == val >= 0 /\ \A b \in Bits : taken[b] <= sets[b]
=============================================================================
