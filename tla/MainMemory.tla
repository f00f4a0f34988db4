---------------------------- MODULE MainMemory ----------------------------
(***************************************************************************)
(* The guest memory of MainMemory.{h,cpp} with the reservations of         *)
(* ReservationMap.h: load-and-reserve, store-conditional, plain stores,    *)
(* block writes and block reads, executed concurrently by PPU and SPU      *)
(* threads (which own a reservation granule) and by host threads such as   *)
(* the RSX thread (whose g_state.granule is null).                         *)
(*                                                                         *)
(* Memory is a set of locations <<line, word>>; a copy of several words is *)
(* one step per word, in any order, so that what a lock protects and what  *)
(* it does not is visible.  A value written by an operation is one member  *)
(* of Values for all the words it writes.  A step ends where the thread    *)
(* takes or gives up a spin lock or touches guest memory; what happens     *)
(* in between under the lock is one step, because only the holder sees it. *)
(***************************************************************************)
EXTENDS GranuleArray, Integers, FiniteSets

CONSTANTS
  Threads,        \* guest threads, identified with their ReservationGranule
  Spus,           \* the guest threads that are SPU threads
  Hosts,          \* host threads without a granule
  NLines,         \* number of 128-byte lines
  NWords,         \* words in a line
  LinesPerPage,   \* lines in a page of the modification map
  Values,         \* what a word can hold
  Zero,           \* what it holds at first
  Does,           \* the operations each thread's program uses
  Gives           \* and the values it writes

Agents == Threads \cup Hosts
Lines  == 0 .. NLines - 1
Words  == 1 .. NWords
Loc    == Lines \X Words
Pages  == 0 .. NLines

Operations == {"loadReserve", "writeCond", "writeUncond", "store",
               "writeMemory", "readMemory", "acknowledge", "destroy"}

ASSUME ConstantsAssumption ==
  /\ Null \notin Agents /\ Null \notin Lines /\ Null \notin Values
  /\ Spus \subseteq Threads
  /\ Threads \cap Hosts = {}
  /\ NLines \in Nat \ {0} /\ NWords \in Nat \ {0} /\ LinesPerPage \in Nat \ {0}
  /\ Zero \in Values
  /\ Does \in [Agents -> SUBSET Operations]
  /\ Gives \in [Agents -> SUBSET Values]

ASSUME ThreadsFinite == IsFiniteSet(Threads)

VARIABLES
  mem,        \* [Loc -> Values], the pages of MainMemory
  lock,       \* [Lines -> Agents or Null], ReservationLine::lock and its owner
  granules,   \* [Lines -> Seq], ReservationLine::granules
  line,       \* [Threads -> Lines or Null], ReservationGranule::line
  notify,     \* [Threads -> BOOLEAN], ReservationGranule::notify is set
  pending,    \* [Threads -> BOOLEAN], MFC_LLR_LOST_EVENT in SpuEvent::_pending
  marked,     \* the marked pages of the ModificationMap
  pc, cur, oth, todo, val, buf,   \* where each thread is, and its locals
  view,       \* history: the words of its reserved line that a thread knows,
              \* from its loadReserve and from its own writes since
  watch       \* history: the line of an SPU's last GETLLAR, until the SPU
              \* gives the reservation up itself or acknowledges the event

shared == <<mem, lock, granules, line, notify, pending, marked>>
local  == <<pc, cur, oth, todo, val, buf>>
vars   == <<shared, local, view, watch>>

LineLocs(l) == {l} \X Words
LinesOf(R)  == {x[1] : x \in R}

\* The locations between two members of a block are members too.
NotAfter(x, y) == x[1] < y[1] \/ (x[1] = y[1] /\ x[2] <= y[2])
Blocks == {R \in SUBSET Loc :
             /\ R # {}
             /\ \A x, y \in R : \A z \in Loc :
                  NotAfter(x, z) /\ NotAfter(z, y) => z \in R}
FirstLine(R) == CHOOSE l \in LinesOf(R) : \A k \in LinesOf(R) : l <= k

\* The locations of a scalar store: one word, or, when it is not aligned, the
\* end of one line and the start of the next.
ScalarLocs == {{x} : x \in Loc} \cup
              {{<<l, NWords>>, <<l + 1, 1>>} : l \in 0 .. NLines - 2}

\* The locations of a reservation: the whole line for an SPU (GETLLAR), one
\* word or doubleword of it for the PPU (lwarx, ldarx).
ReservedLocs(t) == IF t \in Spus THEN {LineLocs(l) : l \in Lines}
                                 ELSE {{x} : x \in Loc}

page(l) == l \div LinesPerPage

\* mark<Len>: the page of the address and the one after it.
markScalar(R) == marked \cup {page(FirstLine(R)), page(FirstLine(R)) + 1}

\* mark(va, size): from the page of va to the page of va + size, included.
blockEnd(R) == LET last == CHOOSE l \in LinesOf(R) : \A k \in LinesOf(R) : k <= l
               IN IF <<last, NWords>> \in R THEN last + 1 ELSE last
markBlock(R) == marked \cup (page(FirstLine(R)) .. page(blockEnd(R)))

Init ==
  /\ mem = [x \in Loc |-> Zero]
  /\ lock = [l \in Lines |-> Null]
  /\ granules = [l \in Lines |-> << >>]
  /\ line = [t \in Threads |-> Null]
  /\ notify = [t \in Threads |-> FALSE]
  /\ pending = [t \in Threads |-> FALSE]
  /\ marked = {}
  /\ pc = [a \in Agents |-> "idle"]
  /\ cur = [a \in Agents |-> Null]
  /\ oth = [a \in Agents |-> Null]
  /\ todo = [a \in Agents |-> {}]
  /\ val = [a \in Agents |-> Zero]
  /\ buf = [a \in Agents |-> [w \in Words |-> Null]]
  /\ view = [t \in Threads |-> [w \in Words |-> Null]]
  /\ watch = [t \in Threads |-> Null]
-----------------------------------------------------------------------------
(* Steps shared by the operations.                                         *)

Goto(a, where) == pc' = [pc EXCEPT ![a] = where]

\* SpinLock::lock and SpinLock::unlock.
Acquire(a, l) == lock[l] = Null /\ lock' = [lock EXCEPT ![l] = a]
Release(a, ls) == lock' = [l \in Lines |-> IF l \in ls THEN Null ELSE lock[l]]

\* Mutant: the event goes to the thread that destroyed the reservation.
ForgetSelfOnly(a, gone) ==
  /\ pending' = [t \in Threads |-> pending[t] \/ (t \in gone /\ notify[t] /\ t = a)]
  /\ notify' = [t \in Threads |-> notify[t] /\ t \notin gone]
  /\ line' = [t \in Threads |-> IF t \in gone THEN Null ELSE line[t]]

\* What happens to the granules that agent a removes from the lines: the lost
\* reservation is reported, except to the thread that caused it, and forgotten.
Forget(a, gone) ==
  /\ pending' = [t \in Threads |-> pending[t] \/ (t \in gone /\ notify[t] /\ t # a)]
  /\ notify' = [t \in Threads |-> notify[t] /\ t \notin gone]
  /\ line' = [t \in Threads |-> IF t \in gone THEN Null ELSE line[t]]

\* g_state.granule of an agent.
granule(a) == IF a \in Threads THEN a ELSE Null

\* ReservationMap::destroySingleLine.
DestroySingleLine(a, l) ==
  /\ granules' = [granules EXCEPT ![l] = clear(@)]
  /\ Forget(a, holders(granules[l]))

\* Mutant: no reservation is destroyed by a plain write.
DestroyExceptNone(a, ls) == UNCHANGED <<granules, pending, notify, line>>

\* ReservationMap::destroyExcept on the line or the two lines of a write.
DestroyExcept(a, ls) ==
  /\ granules' = [l \in Lines |-> IF l \in ls THEN clearExcept(granules[l], granule(a))
                                  ELSE granules[l]]
  /\ Forget(a, (UNION {holders(granules[l]) : l \in ls}) \ {granule(a)})

\* The end of an operation: the locals go out of scope.
Return(a) ==
  /\ Goto(a, "idle")
  /\ cur' = [cur EXCEPT ![a] = Null]
  /\ oth' = [oth EXCEPT ![a] = Null]
  /\ todo' = [todo EXCEPT ![a] = {}]
  /\ val' = [val EXCEPT ![a] = Zero]
  /\ buf' = [buf EXCEPT ![a] = [w \in Words |-> Null]]

Begin(a, op, where, l, second, R, v) ==
  /\ pc[a] = "idle" /\ op \in Does[a]
  /\ Goto(a, where)
  /\ cur' = [cur EXCEPT ![a] = l]
  /\ oth' = [oth EXCEPT ![a] = second]
  /\ todo' = [todo EXCEPT ![a] = R]
  /\ val' = [val EXCEPT ![a] = v]
  /\ UNCHANGED buf

\* One word of a memcpy into guest memory; the words of the line in hand.
Copying == {"wc_copy", "uc_copy", "st_copy", "wm_copy"}
Hand(a) == IF pc[a] = "st_copy" THEN {cur[a], oth[a]} \ {Null} ELSE {cur[a]}
Left(a) == {x \in todo[a] : x[1] \in Hand(a)}

WriteWord(a) ==
  /\ pc[a] \in Copying
  /\ \E x \in Left(a) :
       /\ mem' = [mem EXCEPT ![x] = val[a]]
       /\ todo' = [todo EXCEPT ![a] = @ \ {x}]
       /\ view' = IF a \in Threads /\ line[a] = x[1]
                  THEN [view EXCEPT ![a][x[2]] = val[a]] ELSE view
  /\ UNCHANGED <<lock, granules, line, notify, pending, marked,
                 pc, cur, oth, val, buf, watch>>

\* One word of a memcpy out of guest memory.
ReadWord(a) ==
  /\ pc[a] \in {"lr_copy", "rm_copy"}
  /\ \E x \in todo[a] :
       /\ x[1] = FirstLine(todo[a])
       /\ buf' = [buf EXCEPT ![a][x[2]] = mem[x]]
       /\ todo' = [todo EXCEPT ![a] = @ \ {x}]
  /\ UNCHANGED <<shared, pc, cur, oth, val, view, watch>>
-----------------------------------------------------------------------------
(* loadReserve: give up the old reservation, then copy the line and        *)
(* register the new one under the line's lock.                             *)

LoadReserve(t, R) ==
  /\ IF line[t] # Null
     THEN Begin(t, "loadReserve", "lr_old", line[t], FirstLine(R), R, Zero)
     ELSE Begin(t, "loadReserve", "lr_lock", FirstLine(R), Null, R, Zero)
  /\ watch' = [watch EXCEPT ![t] = Null]
  /\ UNCHANGED <<shared, view>>

LrLockOld(t) ==
  /\ pc[t] = "lr_old" /\ Acquire(t, cur[t])
  /\ Goto(t, "lr_drop")
  /\ UNCHANGED <<mem, granules, line, notify, pending, marked,
                 cur, oth, todo, val, buf, view, watch>>

\* The reservation may have been lost while the thread waited for the lock.
LrDropOld(t) ==
  /\ pc[t] = "lr_drop"
  /\ IF line[t] # Null
     THEN /\ granules' = [granules EXCEPT ![line[t]] = clearOne(@, t)]
          /\ Forget(t, {t})
     ELSE UNCHANGED <<granules, line, notify, pending>>
  /\ Release(t, {cur[t]})
  /\ Goto(t, "lr_lock")
  /\ cur' = [cur EXCEPT ![t] = oth[t]]
  /\ oth' = [oth EXCEPT ![t] = Null]
  /\ UNCHANGED <<mem, marked, todo, val, buf, view, watch>>

LrLock(t) ==
  /\ pc[t] = "lr_lock" /\ Acquire(t, cur[t])
  /\ Goto(t, "lr_copy")
  /\ UNCHANGED <<mem, granules, line, notify, pending, marked,
                 cur, oth, todo, val, buf, view, watch>>

LrReserve(t) ==
  /\ pc[t] = "lr_copy" /\ todo[t] = {}
  /\ line' = [line EXCEPT ![t] = cur[t]]
  /\ notify' = [notify EXCEPT ![t] = t \in Spus]
  /\ granules' = [granules EXCEPT ![cur[t]] = insert(@, t)]
  /\ view' = [view EXCEPT ![t] = buf[t]]
  /\ watch' = [watch EXCEPT ![t] = IF t \in Spus THEN cur[t] ELSE Null]
  /\ Release(t, {cur[t]})
  /\ Return(t)
  /\ UNCHANGED <<mem, pending, marked>>
-----------------------------------------------------------------------------
(* writeCond, conditional (stwcx, PUTLLC) and unconditional (PUTLLUC).     *)

WriteCond(t, R, v) ==
  /\ Begin(t, "writeCond", "wc_lock", FirstLine(R), Null, R, v)
  /\ UNCHANGED <<shared, view, watch>>

WriteUncond(t, R, v) ==
  /\ t \in Spus
  /\ Begin(t, "writeUncond", "uc_lock", FirstLine(R), Null, R, v)
  /\ UNCHANGED <<shared, view, watch>>

WcLock(t) ==
  /\ pc[t] \in {"wc_lock", "uc_lock"} /\ Acquire(t, cur[t])
  /\ Goto(t, IF pc[t] = "uc_lock" THEN "uc_copy" ELSE "wc_check")
  /\ UNCHANGED <<mem, granules, line, notify, pending, marked,
                 cur, oth, todo, val, buf, view, watch>>

\* Mutant: the reservation is not looked up.
WcReservedUnchecked(t) ==
  /\ pc[t] = "wc_check"
  /\ Goto(t, "wc_copy")
  /\ UNCHANGED <<shared, cur, oth, todo, val, buf, view, watch>>

WcReserved(t) ==
  /\ pc[t] = "wc_check" /\ exists(granules[cur[t]], t)
  /\ Goto(t, "wc_copy")
  /\ UNCHANGED <<shared, cur, oth, todo, val, buf, view, watch>>

WcFail(t) ==
  /\ pc[t] = "wc_check" /\ ~exists(granules[cur[t]], t)
  /\ Release(t, {cur[t]})
  /\ Return(t)
  /\ UNCHANGED <<mem, granules, line, notify, pending, marked, view, watch>>

\* Mutant: a conditional write clears only the writer's own reservation.
WcCommitOwn(t) ==
  /\ pc[t] \in {"wc_copy", "uc_copy"} /\ todo[t] = {}
  /\ granules' = [granules EXCEPT ![cur[t]] = clearOne(@, t)]
  /\ Forget(t, holders(granules[cur[t]]) \cap {t})
  /\ Release(t, {cur[t]})
  /\ watch' = [watch EXCEPT ![t] = IF @ = cur[t] THEN Null ELSE @]
  /\ Goto(t, "mark")
  /\ UNCHANGED <<mem, marked, cur, oth, todo, val, buf, view>>

WcCommit(t) ==
  /\ pc[t] \in {"wc_copy", "uc_copy"} /\ todo[t] = {}
  /\ DestroySingleLine(t, cur[t])
  /\ Release(t, {cur[t]})
  /\ watch' = [watch EXCEPT ![t] = IF @ = cur[t] THEN Null ELSE @]
  /\ Goto(t, "mark")
  /\ UNCHANGED <<mem, marked, cur, oth, todo, val, buf, view>>
-----------------------------------------------------------------------------
(* store, of one word or across a line boundary, and its late mark.        *)

Store(a, R, v) ==
  /\ LET f == FirstLine(R)
         nextLine == IF LinesOf(R) = {f} THEN Null ELSE f + 1
     IN Begin(a, "store", "st_lock", f, nextLine, R, v)
  /\ UNCHANGED <<shared, view, watch>>

StLock(a) ==
  /\ pc[a] = "st_lock" /\ Acquire(a, cur[a])
  /\ Goto(a, IF oth[a] = Null THEN "st_copy" ELSE "st_next")
  /\ UNCHANGED <<mem, granules, line, notify, pending, marked,
                 cur, oth, todo, val, buf, view, watch>>

StLockNext(a) ==
  /\ pc[a] = "st_next" /\ Acquire(a, oth[a])
  /\ Goto(a, "st_copy")
  /\ UNCHANGED <<mem, granules, line, notify, pending, marked,
                 cur, oth, todo, val, buf, view, watch>>

\* Mutant: only the first line is unlocked.
StCommitFirst(a) ==
  /\ pc[a] = "st_copy" /\ todo[a] = {}
  /\ DestroyExcept(a, Hand(a))
  /\ Release(a, {cur[a]})
  /\ Goto(a, "mark")
  /\ UNCHANGED <<mem, marked, cur, oth, todo, val, buf, view, watch>>

StCommit(a) ==
  /\ pc[a] = "st_copy" /\ todo[a] = {}
  /\ DestroyExcept(a, Hand(a))
  /\ Release(a, Hand(a))
  /\ Goto(a, "mark")
  /\ UNCHANGED <<mem, marked, cur, oth, todo, val, buf, view, watch>>

\* _mmap.mark<Len>(va), after the locks are gone.
Mark(a) ==
  /\ pc[a] = "mark"
  /\ marked' = markScalar({<<cur[a], 1>>})
  /\ Return(a)
  /\ UNCHANGED <<mem, lock, granules, line, notify, pending, view, watch>>
-----------------------------------------------------------------------------
(* writeMemory marks first, then writes line by line; readMemory reads     *)
(* without a lock.                                                         *)

WriteMemory(a, R, v) ==
  /\ Begin(a, "writeMemory", "wm_lock", FirstLine(R), Null, R, v)
  /\ marked' = markBlock(R)
  /\ UNCHANGED <<mem, lock, granules, line, notify, pending, view, watch>>

WmLock(a) ==
  /\ pc[a] = "wm_lock" /\ Acquire(a, cur[a])
  /\ Goto(a, "wm_copy")
  /\ UNCHANGED <<mem, granules, line, notify, pending, marked,
                 cur, oth, todo, val, buf, view, watch>>

WmCommit(a) ==
  /\ pc[a] = "wm_copy" /\ Left(a) = {}
  /\ DestroyExcept(a, {cur[a]})
  /\ Release(a, {cur[a]})
  /\ IF todo[a] = {}
     THEN Return(a)
     ELSE /\ Goto(a, "wm_lock")
          /\ cur' = [cur EXCEPT ![a] = FirstLine(todo[a])]
          /\ UNCHANGED <<oth, todo, val, buf>>
  /\ UNCHANGED <<mem, marked, view, watch>>

ReadMemory(a, R) ==
  /\ Begin(a, "readMemory", "rm_copy", Null, Null, R, Zero)
  /\ UNCHANGED <<shared, view, watch>>

RmReturn(a) ==
  /\ pc[a] = "rm_copy" /\ todo[a] = {}
  /\ Return(a)
  /\ UNCHANGED <<shared, view, watch>>
-----------------------------------------------------------------------------
(* The SPU acknowledges the lost-reservation event; a thread object is     *)
(* destroyed with its granule, by a host thread, once its thread has       *)
(* ended, and a new one may take its place.                                *)

Acknowledge(t) ==
  /\ pc[t] = "idle" /\ "acknowledge" \in Does[t] /\ t \in Spus
  /\ pending' = [pending EXCEPT ![t] = FALSE]
  /\ watch' = [watch EXCEPT ![t] = Null]
  /\ UNCHANGED <<mem, lock, granules, line, notify, marked, local, view>>

\* Mutant: the granule goes without leaving its line.
DestroyLinked(t) ==
  /\ Begin(t, "destroy", "gone", Null, Null, {}, Zero)
  /\ watch' = [watch EXCEPT ![t] = Null]
  /\ UNCHANGED <<shared, view>>

Destroy(t) ==
  /\ IF line[t] # Null
     THEN Begin(t, "destroy", "rg_lock", line[t], Null, {}, Zero)
     ELSE Begin(t, "destroy", "gone", Null, Null, {}, Zero)
  /\ watch' = [watch EXCEPT ![t] = Null]
  /\ UNCHANGED <<shared, view>>

RgLock(t) ==
  /\ pc[t] = "rg_lock" /\ Acquire(t, cur[t])
  /\ Goto(t, "rg_clear")
  /\ UNCHANGED <<mem, granules, line, notify, pending, marked,
                 cur, oth, todo, val, buf, view, watch>>

RgClear(t) ==
  /\ pc[t] = "rg_clear"
  /\ DestroySingleLine(Null, cur[t])
  /\ Release(t, {cur[t]})
  /\ Goto(t, "gone")
  /\ cur' = [cur EXCEPT ![t] = Null]
  /\ UNCHANGED <<mem, marked, oth, todo, val, buf, view, watch>>

Create(t) ==
  /\ pc[t] = "gone"
  /\ Goto(t, "idle")
  /\ line' = [line EXCEPT ![t] = Null]
  /\ notify' = [notify EXCEPT ![t] = FALSE]
  /\ pending' = [pending EXCEPT ![t] = FALSE]
  /\ UNCHANGED <<mem, lock, granules, marked, cur, oth, todo, val, buf, view, watch>>
-----------------------------------------------------------------------------
Call(a) ==
  \/ /\ a \in Threads
     /\ \/ \E R \in ReservedLocs(a) : LoadReserve(a, R)
        \/ \E R \in ReservedLocs(a), v \in Gives[a] : WriteCond(a, R, v)
        \/ \E l \in Lines, v \in Gives[a] : WriteUncond(a, LineLocs(l), v)
        \/ Acknowledge(a)
        \/ Destroy(a)
  \/ \E R \in ScalarLocs, v \in Gives[a] : Store(a, R, v)
  \/ \E R \in Blocks, v \in Gives[a] : WriteMemory(a, R, v)
  \/ \E R \in Blocks : ReadMemory(a, R)

Continue(a) ==
  \/ WriteWord(a) \/ ReadWord(a) \/ Mark(a) \/ RmReturn(a)
  \/ StLock(a) \/ StLockNext(a) \/ StCommit(a)
  \/ WmLock(a) \/ WmCommit(a)
  \/ /\ a \in Threads
     /\ \/ LrLockOld(a) \/ LrDropOld(a) \/ LrLock(a) \/ LrReserve(a)
        \/ WcLock(a) \/ WcReserved(a) \/ WcFail(a) \/ WcCommit(a)
        \/ RgLock(a) \/ RgClear(a) \/ Create(a)

Next == \E a \in Agents : Call(a) \/ Continue(a)

Spec == Init /\ [][Next]_vars
-----------------------------------------------------------------------------
(* Correctness.                                                            *)

Writing(a, l) == pc[a] \in Copying /\ l \in Hand(a)

\* Every variable holds what its declaration says.
TypeOK ==
  /\ mem \in [Loc -> Values]
  /\ lock \in [Lines -> Agents \cup {Null}]
  /\ granules \in [Lines -> Seq(Threads \cup {Null})]
  /\ line \in [Threads -> Lines \cup {Null}]
  /\ notify \in [Threads -> BOOLEAN]
  /\ pending \in [Threads -> BOOLEAN]
  /\ marked \subseteq Nat
  /\ pc \in [Agents -> {"idle", "lr_old", "lr_drop", "lr_lock", "lr_copy",
                        "wc_lock", "uc_lock", "wc_check", "wc_copy", "uc_copy",
                        "st_lock", "st_next", "st_copy", "mark",
                        "wm_lock", "wm_copy", "rm_copy",
                        "rg_lock", "rg_clear", "gone"}]
  /\ cur \in [Agents -> Lines \cup {Null}]
  /\ oth \in [Agents -> Lines \cup {Null}]
  /\ todo \in [Agents -> SUBSET Loc]
  /\ val \in [Agents -> Values]
  /\ buf \in [Agents -> [Words -> Values \cup {Null}]]
  /\ view \in [Threads -> [Words -> Values \cup {Null}]]
  /\ watch \in [Threads -> Lines \cup {Null}]

\* A granule is in the vector of exactly the line it points to: no operation
\* leaves a pointer to a granule that does not know of it (a destroyed thread's
\* granule included), and no granule claims a line that has forgotten it.
\* Behaviour: loadReserve, clear, clearOne, clearExcept, ~ReservationGranule.
ReservationLinked ==
  \A t \in Threads, l \in Lines : exists(granules[l], t) <=> line[t] = l

Unchanged(t) ==
  \A w \in Words :
    /\ line[t] # Null
    /\ view[t][w] # Null
    /\ \A a \in Agents \ {t} : ~Writing(a, line[t])
    => mem[<<line[t], w>>] = view[t][w]

\* A thread that still has its reservation knows the line: nobody else has
\* changed a word it loaded or wrote, except a writer that is at work under the
\* line's lock and has yet to clear the reservations.
\* Behaviour: what makes the success of writeCond mean "unchanged since the load".
ReservationMeansUnchanged == \A t \in Threads : Unchanged(t)

\* An SPU that loaded a line with GETLLAR and waits for MFC_LLR_LOST_EVENT is
\* not left waiting: once another thread's write to the line is complete, the
\* event is pending.  Behaviour: ReservationGranuleArray::notify and
\* SPUChannels::handleGranuleNotification.
NoMissedLostEvent ==
  \A t \in Spus :
    /\ watch[t] # Null
    /\ \A a \in Agents \ {t} : ~Writing(a, watch[t])
    /\ \E w \in Words : mem[<<watch[t], w>>] # view[t][w]
    => pending[t]

\* The vectors do not grow with the number of reservations made: a line never
\* has more slots than there are granules.  Behaviour: insert reuses the slots
\* that clearOne and clearExcept leave empty.
SlotsBounded == \A l \in Lines : Len(granules[l]) <= Cardinality(Threads)
-----------------------------------------------------------------------------
(* The inductive invariant behind the safety properties.                   *)

Unlocked == {"idle", "gone", "rm_copy"}
HoldsOne == {"lr_drop", "lr_copy", "wc_check", "wc_copy", "uc_copy",
             "st_next", "wm_copy", "rg_clear"}
HostPcs  == {"idle", "st_lock", "st_next", "st_copy", "mark",
             "wm_lock", "wm_copy", "rm_copy"}

Holds(a, l) == \/ pc[a] \in HoldsOne /\ l = cur[a]
               \/ pc[a] = "st_copy" /\ l \in Hand(a)

\* The locals of a thread at each point of an operation.
LocalsShaped(a) ==
  /\ pc[a] \notin Unlocked => cur[a] \in Lines
  /\ a \in Hosts => pc[a] \in HostPcs
  /\ pc[a] \in {"lr_old", "lr_drop"} => oth[a] \in Lines /\ todo[a] \subseteq LineLocs(oth[a])
  /\ pc[a] \in {"st_lock", "st_next"} => oth[a] # cur[a]
  /\ pc[a] = "st_next" => oth[a] \in Lines
  /\ pc[a] \in {"lr_lock", "lr_copy", "wc_lock", "uc_lock", "wc_check", "wc_copy", "uc_copy"}
       => todo[a] \subseteq LineLocs(cur[a])
  /\ pc[a] \in {"idle", "rg_lock", "rg_clear", "gone"} => todo[a] = {}

\* A thread owns a line's lock exactly while its operation is between lock and
\* unlock of that line.
LockHeld(a) == \A l \in Lines : lock[l] = a <=> Holds(a, l)

\* Where a thread's own reservation can be while it reserves or is destroyed;
\* it does not wait for the event then.
ReservationPlaced(t) ==
  /\ pc[t] \in {"lr_old", "lr_drop", "rg_lock", "rg_clear"} => line[t] \in {Null, cur[t]}
  /\ pc[t] \in {"lr_lock", "lr_copy", "gone"} => line[t] = Null
  /\ pc[t] \in {"lr_old", "lr_drop", "rg_lock", "rg_clear", "gone"} => watch[t] = Null

\* What loadReserve has copied is still in the line; an SPU copies all of it.
BufferFaithful(t) ==
  \A w \in Words :
    /\ pc[t] \notin {"lr_copy", "rm_copy"} => buf[t][w] = Null
    /\ pc[t] = "lr_copy" => buf[t][w] \in {Null, mem[<<cur[t], w>>]}
    /\ t \in Spus /\ pc[t] \in {"lr_old", "lr_drop"} => <<oth[t], w>> \in todo[t]
    /\ t \in Spus /\ pc[t] = "lr_lock" => <<cur[t], w>> \in todo[t]
    /\ t \in Spus /\ pc[t] = "lr_copy" => <<cur[t], w>> \in todo[t] \/ buf[t][w] # Null

\* An SPU that waits for the lost event either has it or still has the
\* reservation, on the line it waits for and with the callback set.
Watched(t) ==
  watch[t] # Null =>
    /\ t \in Spus
    /\ \/ pending[t]
       \/ line[t] = watch[t] /\ notify[t] /\ \A w \in Words : view[t][w] # Null

OwnInv(a) ==
  /\ LocalsShaped(a)
  /\ LockHeld(a)
  /\ a \in Threads => /\ ReservationPlaced(a)
                      /\ BufferFaithful(a)
                      /\ Unchanged(a)
                      /\ Watched(a)

Inv ==
  /\ TypeOK
  /\ ReservationLinked
  /\ \A a \in Agents : OwnInv(a)
-----------------------------------------------------------------------------
(* The memory implements the atomic LLSC: an operation takes effect when   *)
(* it starts to copy, with the lock of its line (or of its two lines).     *)

committed(x) == {a \in Agents : pc[a] \in Copying /\ x \in Left(a)}
doomed(t) == \E a \in Agents : /\ Writing(a, line[t])
                               /\ a # t \/ pc[a] \in {"wc_copy", "uc_copy"}

abstractMem == [x \in Loc |-> IF committed(x) # {} THEN val[CHOOSE a \in committed(x) : TRUE]
                                                   ELSE mem[x]]
abstractReserved == [t \in Threads |-> IF line[t] # Null /\ doomed(t) THEN Null ELSE line[t]]
abstractView == [t \in Threads |-> [w \in Words |->
                   IF line[t] # Null /\ t \in committed(<<line[t], w>>)
                   THEN val[t] ELSE view[t][w]]]

abstractStoring == {t \in Threads : pc[t] = "wc_copy"}

Atomic == INSTANCE LLSC WITH mem <- abstractMem, reserved <- abstractReserved,
                             view <- abstractView, storing <- abstractStoring

\* Behaviour: loadReserve, writeCond, store and writeMemory are atomic on a line.
ImplementsLLSC == Atomic!Spec
=============================================================================
