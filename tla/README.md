# ps3emu: a verification development

TLA+ models of the concurrent core of the ps3emu emulator, checked by TLC on
small instances and, where it matters most, proved by TLAPS for every value of
the constants. `PROJECT.json` maps each definition to the lines it models.

Run everything from this directory, for example

    tlc -workers 2 -config MCMainMemory_Reserve.cfg MCMainMemory
    tlapm MainMemoryProofs.tla

## 1. The system

ps3emu runs programs of the PlayStation 3 on a PC. Each guest thread is a thread
of the host: PPU threads interpret or run rewritten PowerPC code, SPU threads run
the code of the co-processors out of a local store, and one host thread plays the
graphics processor (RSX). They share the guest's main memory and the objects of
the guest kernel (lv2), which the emulator implements itself in C++. There is no
global lock, so every behaviour the guest counts on (an atomic store-conditional,
a fair queue, a condition variable, a label that says the graphics processor is
done) has to come out of the emulator's locks and of the order it does things in.

### Inventory

| Component (main files) | State | Operations | Talks to | What is hard | What makes it correct |
|---|---|---|---|---|---|
| Guest memory and reservations (`MainMemory`, `ReservationMap.h`, `ModificationMap.h`, `SpinLock.h`) | pages; per 128-byte line a spin lock and a vector of granules; per thread a granule with its line; the modification map | loadReserve, writeCond, store, writeMemory, readMemory, destruction of a thread's granule | every thread; the callback of a lost reservation raises an SPU event | spin locks on one or two lines, a line pointer read without a lock, callbacks under a lock | a conditional write never loses an update; a lost reservation is reported; nothing dangles; no deadlock |
| SPU thread groups (`SPUGroupManager`, `SPUThread`, `sysSpu.cpp`) | four lists of groups; causes; per thread a suspension flag, a group pointer, a host thread | create, initialize, start, suspend, resume, join, destroy; thread start, stop, fault; raw SPUs | PPU system calls, SPU threads that stop, SPU channel operations (suspension points) | threads of a group begin before the group is dispatched; preemption by rank; ends that meet suspends | lists, flags and SPUs agree; no assertion fails; join returns, and returns what the threads said |
| SPU channels and interrupts (`SPUChannels`, `SPUThread.cpp`, `InterruptPPUThread`) | mailboxes of 1, 1 and 4 words; pending and enabled events with a count; interrupt status and mask; the suspension flag; the queue of the interrupt thread | channel reads and writes, register accesses of PPU threads, SendEvent, ThrowEvent, receive, establish, mask, eoi | SPU threads, PPU threads, the reservation callback, the group manager | blocking accesses around a suspension, a word and a message that are two steps, a count that acknowledge clears | no event slept through, no word missing in a handler, every access returns |
| Event queue (`ConcurrentQueue.h`) | events; waiting receivers; one condition variable | send, receive, tryReceive, drain | event queues, interrupt threads, SPU ports | one condition variable for senders, receivers and the order among receivers | bounded, no lost wake-up, served in order |
| Event queues, ports and SPU event ports (`sync/queue.cpp`, `SPUThread.cpp`) | queues, two port tables per SPU, a list of connections per queue | connect, disconnect, bind, unbind, connect all, destroy, SPU send and receive | PPU system calls, SPU interrupts, `ConcurrentQueue` | tables kept in two places; an SPU's mutex held over a blocking call | an event goes to the queue that was meant; every call returns |
| Mutexes and condition variables (`sync/mutex.cpp`, `sync/cond.cpp`) | a pthread mutex; lists waiters and next; one host condition variable | lock, trylock, unlock, wait, signal, signal_all, signal_to | PPU threads; `lwmutex` and `lwcond` go through them | a wait is five steps with others between them; timeouts | no signal lost or taken twice; the mutex is held again on return |
| Event flags, semaphores, rwlocks (`sync/event_flag.cpp`, `sys.cpp`, `sync/rwlock.cpp`) | bits, a value; a host mutex and condition variable each | wait in five modes, set, clear, post | PPU threads | a waiter that clears what another was woken for | nobody sleeps through what it waits for; nothing is taken twice |
| Processes, PPU threads, identifiers (`Process`, `PPUThread`, `IDMap.h`, `sys.cpp`) | thread objects and ids; the event queue of the process, of one place; per thread an exit flag | create, start, join, exit, fault, process exit; the loop of Process::run | everything that starts or ends threads | ids are used again at once; objects are removed while others use them | a join reaches its thread; an object outlives its thread; the process ends |
| RSX command processor (`RsxLoop`, `Rsx.cpp`, `RingBuffer`) | get, put, reference, labels, flip status, events; a ring of buffers with queries; what the GPU was given | commands of the stream; init, shutdown | the guest through put, labels and events; the GPU through OpenGL | the GPU runs behind; buffers used again; a guest that flushes while the loop starts or ends | draws see the data they were given with; what the guest is told is true; nothing flushed is left |
| Texture cache (`rsx/Cache.h`, `ModificationMap.h`) | cached and dirty textures; marked pages | load, watch, reset, invalidate; commands that write guest memory | every thread that stores | marks are set and cleared without a lock, before or after the write | no stale texture stays |
| Rewriter (`ps3tool-core/Rewriter.cpp`, `GraphTools.cpp`) | breaks, basic blocks, jump tables | discover blocks, remove what leads to bad ones, split, emit C++ | offline | searches on a graph that changes | blocks are entered at their start; only what leads to nothing bad is kept |
| Memory allocation (`HeapMemoryAlloc`, `InternalMemoryManager`, `utils.h`) | page map, heaps | allocate, free | PPU and loader | bounds of the page search | allocations are disjoint |
| Instruction semantics, shader translation, OpenGL objects, ELF, files, save data, audio, input, network, log, tools, user interfaces | | | | mostly sequential, or pure input and output | |

The list in `PROJECT.json` ("components") names the sources of each, and why a
part that is not modelled is not. "hazards" lists what is hard to test in this
code, at the line where it bites, with the properties that would catch it.

## 2. Modules

    GranuleArray <--- MainMemory --implements--> LLSC
    SPUGroupManager                           Rewriter

    Cond                                      Rsx
    ConcurrentQueue --implements-->           TextureCache
    WaitObjects         BlockingQueue         SPUChannels
    ThreadLife             |
      \___ MCLv2        SPUEvents               \___ MCDevices

    MainMemoryProofs     GranuleArray, MainMemory
    MemoryRefinement     MainMemory implements LLSC
    SPUGroupManagerProofs, SPUChannelsProofs, SPUEventsProofs, RewriterProofs
    SyncProofs           Cond, WaitObjects, ConcurrentQueue, ThreadLife
    RsxProofs            Rsx, TextureCache

A module named `MC...` bounds the calls and gives the constants values for TLC;
the module it extends has no bounds but those of the guest program. `MCLv2`
and `MCDevices` hold several components that share no state of the code: a
behaviour is one component's, and its variable `plays` says which. `MCCond` and
`MCThreadLife` also check one component alone. `SPUEvents` takes its queues from
what `BlockingQueue` promises, by their length.

### MainMemory, GranuleArray, LLSC

`GranuleArray` is `ReservationGranuleArray`: a vector with empty slots and its
insert, clear, clearExcept and clearOne as operators on sequences. `MainMemory`
has the lines with their locks and vectors, each thread's granule, the SPU's
lost-reservation event and the marks of the modification map. A call is a program
counter and a few steps, cut where another thread may run in between: at each
lock that is taken and given back, at the unlocked read of `granule->line`
(MainMemory.h:171), and between the words a block read or write copies. The
callback of a lost reservation is part of the step that clears the reservation,
as in the code. `Destroy` and `Create` are the end of a thread object
and a new one in its place.

`LLSC` is what the guest is promised: load-reserve, conditional write, store and
block write of a line are each one step, a write takes every other reservation of
the lines it touches, and a conditional write succeeds only with the reservation
in place. A reservation may be lost at any time, as the architecture has it.
`ImplementsLLSC` maps the detailed memory to it: an operation takes effect when it
starts to copy, with the lock of its line or lines.

### SPUGroupManager

The lists are sets, the threads of a group a sequence; `spus` is the sum over
groups that the code keeps taking. Each group is driven by
the PPU thread that owns it (create, initialize, start, join, destroy) and
suspended or resumed by any other. `Start` keeps the manager's mutex over all the
threads it starts; every other critical section is one step with `Dispatch` at
its end where the code calls it. An SPU thread is created, signals that it
exists, waits while it is suspended, runs, meets suspension points, stops, tells
the manager, and ends. A thread in `MayFault` may end without telling. `_group` of
a raw thread starts as any of {null, garbage}, since nothing initialises it.

### SPUChannels

One SPU, the PPU threads that access its registers, and the thread that serves
its interrupts. A thread has a script, the accesses it has yet to make, and each
access is three steps as the `DisableSuspend` around it is: `Enter`, the work (a
mailbox access waits there until there is room or a word), and `Leave`, which
waits while the SPU is suspended, whichever thread leaves. The SPU's library calls
(SendEvent and its four answers, ThrowEvent, an interrupt) are sequences of
accesses, and `dispatch`, `message`, `stop` and `end` what the emulator does
between them. A mailbox is the number of its words, with a flag that says whether
a PPU thread has touched it. `left` remembers which events were pending at the last
acknowledge.

### ConcurrentQueue, BlockingQueue

A critical section of `_mutex` is one step; a thread that waits is `asleep` until
a notify_all or a spurious wake-up. `byPriority` is chosen when the queue is
created. `_waiting.top()` of the priority order is any of the greatest priority, as
`std::priority_queue` promises no more. `BlockingQueue` is a bounded queue
with calls that wait: it knows nothing of sleeping and waking, and its fairness
says that a call that can proceed does.

### Cond

`sys_cond_wait` is five steps: the id is queued; the mutex is released;
`waitersMutex` is taken and next is searched, or, with a timeout, not; after each
wake-up next is searched again; the mutex is taken again. The model has one mutex,
recursive or not, and one condition variable, which live on. `gaveUp` is a history
variable: how many waits of each thread have timed out. A timed lock of a
mutex that its caller owns and that is not recursive fails an assertion
(mutex.cpp:102); the emulator ends there, and the model has no step for it.

### WaitObjects

The event flag and the semaphore. A call holds the object's mutex but for the
sleep, so that a wait is one step up to the sleep and one for each time the thread
is awakened. The flag's value is a set of bits; the modes are those the code looks
at. `sets` and `taken` count, for the property that a bit is cleared by one waiter
for each time it was set.

### ThreadLife

The `PPUThread` objects, the ids of `IDMap` (the smallest free id is used next), and
the loop of `Process::run`, which takes an event (`dequeue`), releases the sender
with it, and handles it (`handle`): the two are separate steps as in the code.
`handles` and `means` are what the guest program remembers of the ids it was given. An
object that was removed is still memory someone may read: `joinReturns` then gives
"anything".

### SPUEvents

The two port tables of each SPU, the list of connections of each queue, and the
length of each queue. An SPU keeps `_eventQueuesMutex` from its search to the end
of its wait on the queue. `program` and `bound` are what the guest program has
connected and bound (the model's record of the program's intent, not of the
code); the program sends on what it has connected, and does not disconnect a
port it is using. One PPU thread connects and disconnects, as in
the programs under `src/tests`; others send and receive. `Reuses` says whether the
program may give a port it has disconnected from one queue to another queue. The
answers that SendEvent puts into the SPU's own mailbox are in SPUChannels.

### Rsx

The RSX thread from `init` to its end. A command buffer has one command in each
place; the thread goes from get to put and may be overtaken at each read of put and
`_shutdown` (`loop`, `caughtUp`, `check`). Draws and queries go to `gpu`, a
sequence that is carried out from its head at any pace; a draw keeps what it was
given with in the record, and the properties compare that with the buffers
at the time it is carried out. `constants` stands for all a draw finds in a
buffer of the ring. Three commands of the loop that are one critical stretch of the
ring are steps of their own (`advance`, `clientWait`, `drawn`). The guest is a
script for each thread: flushes, labels, vertices, patches of the command buffer,
and waits for what the RSX tells it. Each program comes from the constant
`Programs`.

### TextureCache

Which textures have a copy, which are dirty, which pages are marked, and for each
copy the pages that were written since (`stale`). Stores mark after they write,
`writeMemory` before; the RSX thread loads, watches and resets page by page, with
writers between any two steps. `late` and `wiped` record marks that were set or
cleared at an unlucky time: `OnlyKnownGaps` says that nothing else makes a
copy stale for good.

### Rewriter

`discoverBasicBlocks` in its seven phases, on segments whose instructions carry only
what the disassembler and `analyze` tell of them. The searches (`DiscoverBreaks`, the
removal of what leads to bad blocks) are least fixed points computed as the code
does; `KeepsTheGreatest` compares them with a definition that does not search.

## 3. The runs

A "pass" run ends with no error; a "violation" run shows a place where the code
does not do what the repository says of it.

| Run | Instance | What it shows |
|---|---|---|
| memory_reserve | one line of two words; an SPU (3 calls) and a PPU thread (3) reserve and write conditionally, a host thread stores (1); the SPU is also destroyed and created again | a reservation means an unchanged line (`ReservationMeansUnchanged`), a lost one is reported (`NoMissedLostEvent`), granules and lines name each other (`ReservationLinked`), vectors stay short (`SlotsBounded`), the operations are atomic (`ImplementsLLSC`) |
| memory_blocks | two lines; stores across the boundary, block writes and reads against reservations, under fairness | the same for operations that touch two lines, and every call returns (`CallsReturn`) |
| groups_share | two groups, of two threads and of one, on two SPUs; one suspend; a raw thread; one thread may fault | lists, flags and SPUs agree (`OneList`, `SpusShared`, `FlagsFollowLists`) |
| groups_join | the same groups, the one that goes first is started twice; a thread of the other may fault | no assertion fails but the one at the end of a faulted group's join (`AssertionsHold`), join returns what the threads said and answers for no faulted group (`JoinAgrees`), and it returns where no fault keeps SPUs that the group needs (`JoinReturns`) |
| groups_raw | the raw thread alone matters | violation, finding 1 |
| lv2_threads | a condition variable with three threads (3, 1 and 3 calls, the third with timeouts), or an event queue of one slot with three (2, 2 and 1), or an event flag of two bits and a semaphore with three (1, 1 and 2), or three PPU threads (5, 2 and 1 calls); a spurious wake-up | the lists hold an id once for a wait and once for each timeout (`ListsAreTheWaiters`), no signal to a thread without timeouts is lost (`NoLostSignal`), it gets out (`SignalledLeaves`) with its mutex as deep as before (`ReturnsWithMutex`); the queue loses no wake-up, serves in order and is `BlockingQueue` with its fairness (`NoLostWakeup`, `ServedInOrder`, `Implements`); `NoneSleepsInVain` and `OnePerSignal` of flag and semaphore; joins, objects and the end of the process (`JoinReachesItsThread`, `ObjectsOutliveTheirThreads`, `ProcessEnds`) |
| cond_timed_out | two threads with timeouts | violation, finding 2 |
| events_ports | two SPUs, two queues of one event, two ports; four connecting calls, an event from each SPU | ports find the queue that was meant (`AssertionsHold`, `RightQueue`), and no call waits for ever (`CallsReturn`) |
| events_stale | one SPU, two queues, one port, used again | violation, finding 3 |
| thread_join | three PPU threads | violation, finding 4 |
| devices | an SPU with two events (4 calls, 2 events, a suspension), or with its mailboxes against a PPU thread (2 calls each, a suspension), or a raw one with an interrupt thread (3 calls against 1 and 3 of the calls that establish, mask and destroy); or the RSX with 254 programs, a ring of two buffers and an event queue of one; or two textures on three pages, with a thread that stores and one that writes blocks, without end | `HandlerFindsItsWord`, `BlocksOnlyOnPPU`, `OnlyOldEventsAreSilent`, `AccessReturns`, `InterruptsServed` of the SPU; `DrawsSeeTheirData`, `DrawsSeeTheirVertices`, `NothingLeftBehind`, `Served` of the RSX; `OnlyKnownGaps` of the textures |
| rewriter_blocks | every PPU segment of four words with branches of any kind; SPU segments of six words with loaded addresses, branches through a register, tables and data | what is kept is the greatest set that leads to nothing bad (`KeepsTheGreatest`), and blocks are entered at their start (`EntersAtStarts`) |

**Why the bounds are enough.** The protocols compare a thread with another that
comes between two of its steps, and in memory with a third that comes between
these. The instances have the pairs and the third: two threads that reserve
one line and a writer that reserves none; a group that is preempted and the
group that preempts it; two receivers of one rank, one of a lower one and a queue
that is full with one event; a signaller, the thread it means and one that
competes for the signal and the mutex; a thread that joins, the one it means and the
one that gets the id next. The second call of a thread is there
where state is left over from the first (a reservation, a cause, an id, a
connection), and the third where two reservations come before it. An SPU that
masks, acknowledges and reads its events, and reads again, takes four calls. The
250 programs of draws are all those of four commands that load constants or draw
and end with a draw: in a ring of two buffers the third use of a buffer is in
them. Three more hold references, labels, semaphores, flips, interrupts, jumps and
calls, each with a guest that waits for them. Of two textures one has a
page to itself and one has two, which takes in a store and a copy across pages.
Line length, ports, SPUs and values are symmetric in the code; in
events_ports the first call is therefore about one SPU and one queue, or about all.
What the proofs cover (section 5) needs no bound.
In lv2_threads a thread waits on the condition variable only with its mutex, as
programs do (`OwnedWaits`).
`CHECK_DEADLOCK FALSE` stands in every cfg since a system whose bounded calls are
made is done; that nobody waits for ever is what the liveness properties say.

**Mutants.** Each property of a passing run has a mutant: an operator that changes
a definition as a plausible bug would, defined beside it under the comment
"Mutant". With it in the definition's place TLC finds the property violated.

### Fairness

- `MCMainMemory`: a thread inside a call is scheduled (weak fairness of its
  steps). A spinning thread has no step until the lock is free; with finitely many
  calls it becomes free for good, so that weak fairness is enough and the result
  is about deadlock, not about starvation by an endless stream of others.
- `MCSPUGroupManager`: the host schedules every thread, a guest that suspends
  a group resumes it, and SPU programs end once they run (the step Stop). The
  latter two are about the guest; without them join rightly waits.
- `SPUEvents`: every thread runs, and the PPU threads at the other end of a queue
  go on receiving from it or sending to it; without them a send to a full queue
  rightly waits.
- `MCLv2`: `Cond`'s fairness is that a thread inside `sys_cond_wait` runs, except for
  taking the mutex again, which the program may keep from it; `SignalledLeaves` is
  about leaving the condition variable, and needs no more. A woken thread of the
  queue runs; nobody is made to call. `ThreadLife` has threads inside a call and
  the thread of `Process::run` go on. The queue of one place serves every sender
  because calls are bounded.
- `MCDevices`: `ChannelsFairness` has threads that can go on do so, and a
  suspended group resumed, which is the guest's part; `RsxFairness` has the RSX
  thread and the guest's threads run and the driver carry out what it is given.
  The texture cache has no liveness property.
- In `MCLv2` and `MCDevices` each condition is restricted to the behaviours of its
  component.

## 4. Findings

1. `groups_raw`: `SPUThread::_group` (SPUThread.h:133) has no initial value and
   only `sys_spu_thread_initialize` sets it. A raw SPU thread that stops passes
   what was in that memory to `notifyThreadStopped`, which expects null for one
   ("// raw thread", SPUGroupManager.cpp:216).
2. `cond_timed_out`: a wait with a timeout sleeps before it looks at next
   (cond.cpp:106). A signal between the release of the mutex and the sleep is
   missed and the thread returns `CELL_ETIMEDOUT`, where
   tests/RunnerTests.cpp:2848 expects every one of four timed waiters to be woken.
3. `events_stale`: `sys_spu_thread_disconnect_event` leaves the port in
   `connectedSpuThreads` of its queue; the queue's destruction then disconnects
   whatever is connected to that port by that time (queue.cpp:101), and the next
   event of the SPU fails the assertion of SPUThread.cpp:297.
4. `thread_join`: `Process::run` releases the sender of an event before it handles
   it (Process.cpp:317), and its handling of Joined removes the thread object
   (line 311). `PPUThread::join` has sent Joined and goes on to read the exit code
   from that object (PPUThread.cpp:213), where tests/RunnerTests.cpp:239 expects
   "exitstatus: 3".

Other things met while reading, which no run of their own is about:

- The id of a waiter that timed out stays in `waiters` and takes a later
  `sys_cond_signal` away from a thread that waits, or ends a later wait of its own
  thread at once (why `NoLostSignal` and `SignalledLeaves` speak of threads without
  timeouts only). `ListsAreTheWaiters` counts these ids for every thread: one for
  each timeout, for good.
- A priority queue of threads serves the greatest number first, while the SPU
  groups put the smallest first.
- A thread that faults does not tell the manager: its group keeps its SPUs, its
  join fails an assertion, and the groups that go behind it wait for good. The
  properties name this case (`faulted`) and say that it goes no further: no join
  answers for the group, no other assertion fails, and the groups that go before it
  get their SPUs.
- The semaphore compares its value with the maximum before a post is added only, so
  that a post of more than one goes beyond it.
- Four gaps of the texture cache (`knownGap` in TextureCache): a page that is
  written between the watch and the reset loses its mark; `writeMemory` marks
  before it writes; `startCopy2d` moves on a line before it invalidates;
  `transferImage` invalidates one megabyte whatever its size. A draw also
  uses the textures as they were before the watch that follows their loading, so
  that the first draw after a write may show the old one, and `TextureCacheKey`
  ignores pitch and mipmaps.
- `RsxLoop`'s loop sets put after init has let the guest go on: a flush between the
  two is overwritten (`overtaken`, the exception in `Served`). A "ret" outside of a
  call tests get instead of `_ret`.
- The word that says why an RSX event was sent is overwritten by the next event, and
  the result of `sys_event_port_send` is not looked at. `ChannelSemaphoreAcquire` never
  looks at `_shutdown`; `TextureReadSemaphoreRelease` does not wait for the GPU, and
  WAIT_FOR_IDLE is not implemented.
- `findGap` (utils.h:66-89) tests the first page of a gap again and again and not
  the pages behind it: with page 0 free and page 1 used, two pages
  are given at page 0. A legal free then throws "bad dealloc" (HeapMemoryAlloc.cpp:37).
- The second branch of `writeSpuThreadVa` repeats the test of the first
  (MainMemory.cpp:284).
- The rewriter: `discoverIndirectLocations` never looks at a block's first
  instruction; lonely stops are removed without what leads to them; a block that ends
  without a branch has no edge to the next one; a lead beyond the end of the code fails
  an assertion of `CodeMap::mark`. `KeepsTheGreatest` and `EntersAtStarts` are stated
  as far as these leave them true.

## 5. The proofs

Every theorem is about the module's specification, for any constants that meet its
ASSUME. Where a theorem has a hypothesis of its own it is named below. The type
invariants of groups, queue, condition variable, threads, RSX and channels are
proved and in no run.

- **MainMemoryProofs**: first what insert, clear, clearExcept and clearOne do to the
  set of granules in a vector; the rest uses the vectors through these only. Then
  `MemoryTypes`, `ReservationsLinked`, `ReservationsMeanUnchanged` and
  `LostEventsArrive`, for any number of threads, lines and words. None of these is
  inductive alone: that the line is unchanged while it is reserved rests on the
  reservation being in the line's vector, or else about to be dropped or inserted by
  a thread that has the lock. `Inv` therefore says, for each step of each call,
  which locks the thread has, which granule it is about to insert or drop, and
  that a lock has one owner. The proof has a lemma for each action. `SlotsStayBounded`
  adds that a granule is in one slot at most: insert takes an empty slot where
  there is one, so that a vector that grows is full of other threads' granules.
  `SpinLocksDoNotDeadlock` says that no set of threads spins on locks which they hold
  themselves. Only a store that crosses a line asks for a lock while it holds one, and
  it asks for the next line's (`AscendInv`): of the lines that such a set waits for, the
  thread that holds the greatest waits for a greater one. It is a theorem and in no run; the
  liveness of `CallsReturn` is what the runs check of it.
- **MemoryRefinement**: `MemoryImplementsLLSC`, that every step of the detailed
  memory is one of `LLSC` or a stutter. The abstract memory is the detailed one
  with the words that are still to be copied already there, and with the reservations gone
  that are still to be taken. No two writers put the same word, since each
  has the lock of its line; and a writer that waits for a lock has something to write on
  that line (`AimInv`), so that taking it is a step of the abstract memory.
  `LLSC` has no fairness, so this is the whole of `ImplementsLLSC`.
- **SPUGroupManagerProofs**: `GroupTypes`, `GroupsInOneList` and `FlagsFollow`, for any
  groups, sizes, ranks and number of SPUs. `Inv` adds where the owner of a group is (it
  finds the group initialized until it has started it, and has the mutex while it
  starts it) and that the threads of two groups are disjoint, without which a
  dispatch would reach another group's flags. `LifeInvariant` is the invariant
  behind `NoAssertionFails` and `JoinIsRight`, for any set of threads that may
  fault: at each step of its owner, which threads of a group have been started, have
  ended, with the manager told or by a fault, and have been collected. What a
  fault leaves is in it too: the thread's cause stays at StillRunning until
  the group is started again, so that the group stays out of `initialized` and its join
  does not get past the assertion. For `SpusAreShared`, `Dispatch` takes
  groups by rank as long as they fit; the sum of the sizes is the number of
  threads, since no thread is in two groups or twice in one, and so the
  library's facts about cardinalities replace an induction over the sum.
- **SyncProofs**, condition variable: `WaitersRegistered`, `WaitersOnce`, `SignalsKept`
  and `WaitReturnsMutex`, for any number of threads. `ListsInv` counts, at each step of a
  wait, where the thread's id may be in the two lists; what a search for the
  first place of an id finds comes from the library's well-foundedness
  theorems. `WaitersOnce` counts the ids themselves, as cardinalities of sets of places:
  what a signal moves and a search takes out is one place of one id, a timeout takes
  out none, so that `gaveUp` says how many are too many. `MutexInv` ties the depth of the mutex to what the thread that waits
  had of it.
- **SyncProofs**, event flag and semaphore: `NobodySleepsInVain` and `OneWaitPerSignal`,
  for any number of threads, bits and posts. `ObjectInv` is close to the properties
  themselves: what was taken stays behind what was set or posted, and a
  sleeper whose condition holds is one that a notify_all has awakened.
- **SyncProofs**, event queue: `QueueBounded`, `NobodySleepsOn`, `TopOfWaiting`,
  `NobodyOvertaken`, and `QueueImplements`, the safety half of `Implements`. `QueueInv`
  adds that a waiting sender has an event, that arrivals are not ahead of the
  clock, and that the top is one of the best: a receiver that sleeps behind
  another is no lost wake-up only if that other is still there to be served.
- **SyncProofs**, threads: `JoinsReach` and `ObjectsOutlive`, for any number of threads.
  The argument is ownership: a thread that is to be joined belongs to one handle of
  the program, then to one thread that joins it, then to one Joined event.
  `LifeInv` says so up to the time when the process ends, since its end removes a
  thread that others may join.
- **RsxProofs**: `RsxTypes` and `DrawsKeepTheirData`, for any program, ring and pace of
  the GPU. `RingInv` adds that a buffer which is not the current one has its query
  behind the draws that use it, that the current one is free of draws when it is
  written, and that the index buffer holds the indices of the draw under way only.
  `NothingIsLeftBehind` assumes `ShutsDownLast`: in a program that shuts the RSX down,
  whatever is flushed is flushed before, by the same thread of the script. `Process.cpp:346` calls
  `_rsx->shutdown()` when the threads of the process are gone; a flush after that
  would be left. MCDevices states the hypothesis as an
  ASSUME, so that TLC evaluates it on the programs it runs. `DrawsKeepTheirVertices`
  has the hypothesis `WritesInTime`: a program's vertices are written before anything is
  flushed, or one thread flushes ever further into a command buffer without jumps and
  has, before it writes a vertex, waited for a reference or a back-end label that the
  buffer gives behind all draws flushed before (a fence). The code gives the guest no other
  protection: `updateVertexDataArrays` gives the GPU a pointer into the guest's own memory. What a
  fence says is in `BehindInv`: `get` is never beyond what was flushed, what `ref`
  and the labels hold was given by a command that `get` has passed, and at a fence
  no draw is on the GPU (`IdleSince`). MCDevices ASSUMEs this one too. `WritesAreSeen` proves the action
  property `OnlyKnownGaps` for any number of textures and pages, whichever
  overlap. `TextureInv` says that a store has two neighbouring pages to mark at most, that
  what a writeMemory has yet to write is marked unless a reset cleared it, and that once
  the watch has asked for a texture and found it clean, only marks that came later are
  under it.
- **SPUChannelsProofs**: `ChannelsTypes`, `AcksAloneSilence` (from the types alone, an
  action at a time) and `WordsAreThere`. `WordInv` says of which accesses each
  script can consist, and that at most one interrupt is under way: with the SPU,
  in the queue, or at the handler, and its word in the mailbox all the time.
  `PPUsAloneBlock` follows the SPU's library calls through the accesses that are left
  of them (`CallInv`): the word for the handler and the answers are in their mailboxes
  whenever the rest of a call needs them, unless a PPU thread has touched these.
- **SPUEventsProofs**: `NoPortIsMissing` and `EventsGoToTheRightQueue`, for any number of
  SPUs, ports and queues, with `~Reuses`, which says that no program connects a port
  again that an older queue remembers; finding 3 is what happens otherwise.
  `PortInv` relates an SPU's tables, a queue's list of connections and the
  connections that are under way. What `erase` leaves of a list is proved of the
  recursive function by a least counterexample. `QueuesAreThere` has no hypothesis: no
  port of an SPU leads to a queue that was destroyed, and no SPU waits in one. `LiveInv`
  follows a queue's destruction: what leads to the queue is among the ports left to
  erase, and an SPU that waits in it keeps the mutex that the erasing needs. So finding
  3 is of ports that lead nowhere, never of ports that lead to a queue that is gone.
- **RewriterProofs**: `GreatestIsKept` and `BlocksEnterAtStarts`, for any segment. The
  first is the correctness of a search on a graph with cycles: what
  `removeVertices` computes, round by round, ends (each round that is not the last
  takes a block away from finitely many) and is the union of all sets without bad
  blocks that nothing leads out of. The second follows the starts of blocks through the
  phases (`EntryInv`): the search for breaks marks whatever is branched to, a
  split cuts at whatever a register or a table may hold, and what is loaded at the end
  of a block is what the scan of its words found.

The library's induction theorems take an operator, which no installed prover can
instantiate. Facts about recursive functions are therefore proved from sets: the set of
counterexamples has a least element, or the set of numbers up to which a function is
defined, or a claim holds, is all of them.

**Model-checked only**: liveness under fairness (`CallsReturn`, `JoinReturns`,
`SignalledLeaves`, `ProcessEnds`, `AccessReturns`, `InterruptsServed`, `Served`, and the
fairness half of `Implements`), which the prover cannot do. Every safety property that a
passing run checks, invariant or action property, is a theorem, with the hypotheses named
above.

## 6. Not modelled

The components marked so in `PROJECT.json`, and of those that are modelled:

- memory: page allocation, `MEMORY_PROTECTION` and the memory-mapped SPU registers;
- SPUs: exit statuses and names of groups, signal registers, the decrementer,
  the registers of the DMA unit, the loading of images;
- lv2: creation by key, port objects of the PPU, the destruction of a queue that
  threads wait at (none of them is woken, as the TODO in queue.cpp says) and of
  mutexes and condition variables; `lwmutex` and `lwcond`, which call these;
- RSX: the methods that set the state of the next draw, shaders, replay and capture;
- rewriter: the partition by METIS and the C++ that is emitted.

Of operations that are modelled, these details are left out or taken together; no
property tells the difference:

- `RawJoin` of SPUGroupManager: `sys_raw_spu_destroy` gives up after 200 ms and leaves a
  thread that has not ended (sysSpu.cpp:354-360), which changes nothing in the model.
  `SPUThreadFinishedException`, which the loop catches (SPUThread.cpp:131-135), is
  thrown nowhere.
- `handle` of ThreadLife: when the process finishes, the SPU threads are joined, the
  thread is removed and `_processFinished` set, which are one step here
  (Process.cpp:327-347); no other thread reads `_processFinished`, and what the others do in
  between they may also do before or after.
- the queue of the interrupt thread in SPUChannels has no bound, where the code's has
  1000 places and a sender waits at a full one.
- `DriverFlip` of Rsx: the flip status, label 1 and the event are one step
  (Rsx.cpp:730-735), and a process without a queue for callbacks, which gets no event
  (line 651), is left out.
- `leads` of Rewriter counts in words, so that `label % 4` and `align_up` have nothing
  to do.

Most of the repository's lines hold little control and much data, and a model of
them would be a copy: the tables of PPU and SPU instructions in the disassemblers
and interpreters, the loader of OpenGL functions, the translation of
shaders, pixel formats, the user interfaces. The lines that `PROJECT.json` maps are
therefore a small share of the whole, and a large one of those that synchronise.

## 7. Plan

Done: memory first, for every guarantee of the guest rests on it; then groups,
queues, condition variables and events; then threads, channels, the
RSX, its textures and the rewriter. What is left, in this order:

1. Proofs: two threads of the guest that flush, in the hypothesis of
   `DrawsKeepTheirVertices`, and buffers with jumps.
2. Destruction of a queue with waiters and creation by key, in ConcurrentQueue and
   SPUEvents.
3. The page map of HeapMemoryAlloc with `findGap`, as an algorithm against a
   definition of disjoint allocations.
4. The memory-mapped registers of raw SPUs, composed with SPUChannels, and the ring
   of blocks that audio playback shares with the guest.
