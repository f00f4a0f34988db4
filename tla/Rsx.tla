-------------------------------- MODULE Rsx --------------------------------
(***************************************************************************)
(* rsx/RsxLoop.cpp, RingBuffer.cpp and the commands of Rsx.cpp that other  *)
(* threads can notice: the RSX thread goes through the command buffer of   *)
(* the guest from get to put.                                              *)
(*                                                                         *)
(* It gives draws to the GPU, which carries them out in order and at its   *)
(* own pace.  A draw finds the shader constants in one of a ring of        *)
(* buffers, its indices in a buffer of their own, and its vertices in the  *)
(* memory of the guest, all when it is carried out and not when it is      *)
(* given.  The guest learns how far the RSX is from the reference, from    *)
(* labels, from the flip status and from events.                           *)
(*                                                                         *)
(* A command takes one place in the command buffer.  The constants stand   *)
(* for all that is kept in a buffer of the ring: what updateTextures,      *)
(* updateShaders and updateVertexDataArrays write there is written again   *)
(* for each draw, in the buffer that the constants are in.                 *)
(***************************************************************************)
EXTENDS Integers, Sequences, FiniteSets

CONSTANTS
  Values,        \* constants, indices, vertices, references, values of labels
  Labels,        \* the labels; 1 and 3 have a meaning
  OwnLabels,     \* those that ChannelSemaphoreAcquire releases itself when it waits for 1
  Ring,          \* how many buffers the ring has
  QueueSize,     \* how many events the queue of the RSX takes
  Places,        \* the places in a command buffer
  Guests,        \* the threads of the guest
  Programs       \* records of a command buffer and a script for each thread

\* The place after the reset commands, where the program begins.
Begin == 1
NoRef == -1

ASSUME RsxAssumption ==
  /\ Ring \in Nat \ {0} /\ QueueSize \in Nat \ {0}
  /\ Places \subseteq Nat /\ \A p \in Programs : DOMAIN p.buffer \subseteq Places
  /\ {0, 1} \subseteq Values /\ {1, 3} \subseteq Labels

VARIABLES
  buffer,        \* the command buffer, in the memory of the guest
  get, put, ref, \* the control registers
  ret,           \* Rsx::_ret, 0 when no call is under way
  label,         \* [Labels -> value]
  flipping,      \* the flip status says that a flip is under way
  events,        \* the queue of the RSX's events
  cause,         \* the word that says why the last event was sent
  rsx,           \* where the RSX thread is
  shutdown,      \* Rsx::_shutdown
  gpu,           \* the draws and queries given to the GPU and not carried out
  current,       \* RingBuffer::_currentIndex
  entries,       \* [Buffers -> the constants in the buffer]
  queried,       \* the buffers with a query that was not waited for
  elements,      \* elementArrayIndexBuffer
  indexed,       \* the draw under way is one of DrawIndexArray
  vertices,      \* the vertices in the memory of the guest
  loaded,        \* what the last constant command of the program loaded
  flushed,       \* the last put that the program wrote, 0 before it did
  program,       \* the program the guest runs
  at             \* [Guests -> the step of its script]

registers == <<get, put, ref, ret>>
seen == <<ref, label, flipping, events, cause>>
ringVars == <<current, entries, queried, loaded>>
drawState == <<ringVars, elements, indexed>>
guestVars == <<program, at, buffer, vertices, flushed>>
rsxVars ==
  <<registers, label, flipping, events, cause, rsx, shutdown, gpu, drawState,
    guestVars>>

Buffers == 0 .. Ring - 1
next == (current + 1) % Ring

Work == [kind : {"draw", "query"}, entry : Buffers, constants : Values,
         indices : Values, vertices : Values]
work(kind, indices) ==
  [kind |-> kind, entry |-> current, constants |-> loaded, indices |-> indices,
   vertices |-> vertices]
draws == {i \in DOMAIN gpu : gpu[i].kind = "draw"}
queries == {i \in DOMAIN gpu : gpu[i].kind = "query"}

RsxInit ==
  /\ program \in Programs
  /\ buffer = program.buffer /\ at = [g \in Guests |-> 1]
  /\ get = 0 /\ put = 0 /\ ref = 0 /\ ret = 0 /\ flushed = 0
  /\ label = [l \in Labels |-> 0]
  /\ flipping = FALSE /\ events = <<>> /\ cause = 0
  /\ rsx = "off" /\ shutdown = FALSE /\ gpu = <<>>
  /\ current = 0 /\ entries = [b \in Buffers |-> 0] /\ queried = {} /\ loaded = 0
  /\ elements = 0 /\ indexed = FALSE /\ vertices = 0

\* What each variable may hold (the types of the members of Rsx, RsxContext and
\* RingBuffer, and of the control registers).
RegisterTypes ==
  /\ get \in Nat /\ put \in Nat /\ ret \in Nat /\ flushed \in Nat
  /\ ref \in Values \cup {NoRef}
SeenTypes ==
  /\ label \in [Labels -> Values] /\ flipping \in BOOLEAN /\ shutdown \in BOOLEAN
  /\ events \in Seq({"flip", "user"}) /\ Len(events) <= QueueSize
  /\ cause \in Values
DrawTypes ==
  /\ rsx \in {"off", "gcm", "registers", "loop", "check", "finish", "ended",
              "advance", "wait", "drawn"}
  /\ gpu \in Seq(Work)
  /\ current \in Buffers /\ entries \in [Buffers -> Values]
  /\ queried \in SUBSET Buffers /\ loaded \in Values
  /\ elements \in Values /\ indexed \in BOOLEAN /\ vertices \in Values
RsxTypeOK == RegisterTypes /\ SeenTypes /\ DrawTypes

-----------------------------------------------------------------------------
(* The loop                                                                *)

\* The last step of initGcm: init returns from here on.
initGcm ==
  /\ rsx = "gcm" /\ rsx' = "registers"
  /\ UNCHANGED <<registers, label, flipping, events, cause, shutdown, gpu,
                 drawState, guestVars>>

\* loop sets the registers when the guest may have been using them for a while.
loop ==
  /\ rsx = "registers" /\ rsx' = "loop"
  /\ get' = Begin /\ put' = Begin /\ ref' = NoRef /\ ret' = 0
  /\ UNCHANGED <<label, flipping, events, cause, shutdown, gpu, drawState, guestVars>>

caughtUp ==
  /\ rsx = "loop" /\ get = put /\ ret = 0
  /\ rsx' = "check"
  /\ UNCHANGED <<registers, label, flipping, events, cause, shutdown, gpu,
                 drawState, guestVars>>

\* Mutant: put is not read again.
checkShutdownOnly ==
  /\ rsx = "check"
  /\ rsx' = IF shutdown THEN "finish" ELSE "loop"
  /\ UNCHANGED <<registers, label, flipping, events, cause, shutdown, gpu,
                 drawState, guestVars>>

\* put is read again: the guest may have moved it after the inner loop ended.
check ==
  /\ rsx = "check"
  /\ rsx' = IF shutdown /\ get = put THEN "finish" ELSE "loop"
  /\ UNCHANGED <<registers, label, flipping, events, cause, shutdown, gpu,
                 drawState, guestVars>>

waitForIdle == gpu = <<>>

ends ==
  /\ rsx = "finish" /\ waitForIdle
  /\ rsx' = "ended"
  /\ UNCHANGED <<registers, label, flipping, events, cause, shutdown, gpu,
                 drawState, guestVars>>

\* The command at get is c, and the RSX is to carry it out.
interpret(c) ==
  /\ get # put \/ ret # 0
  /\ get \in DOMAIN buffer /\ buffer[get] = c

moveTo(place) == get' = place /\ UNCHANGED <<put, rsx, shutdown, guestVars>>
moveOn == moveTo(get + 1)

\* Mutant: a call that is returned from and stays in _ret.
flowKeepsRet ==
  /\ \/ interpret(<<"nop">>) /\ moveOn /\ UNCHANGED ret
     \/ \E p \in Places : interpret(<<"jump", p>>) /\ moveTo(p) /\ UNCHANGED ret
     \/ \E p \in Places : interpret(<<"call", p>>) /\ moveTo(p) /\ ret' = get + 1
     \/ interpret(<<"ret">>) /\ moveTo(ret) /\ UNCHANGED ret
  /\ UNCHANGED <<seen, gpu, drawState>>

flow ==
  /\ \/ interpret(<<"nop">>) /\ moveOn /\ UNCHANGED ret
     \/ \E p \in Places : interpret(<<"jump", p>>) /\ moveTo(p) /\ UNCHANGED ret
     \/ \E p \in Places : interpret(<<"call", p>>) /\ moveTo(p) /\ ret' = get + 1
     \/ interpret(<<"ret">>) /\ moveTo(ret) /\ ret' = 0
  /\ UNCHANGED <<seen, gpu, drawState>>

-----------------------------------------------------------------------------
(* Draws                                                                   *)

TransformConstantLoad ==
  /\ \E v \in Values :
       /\ interpret(<<"constants", v>>)
       /\ entries' = [entries EXCEPT ![current] = v]
       /\ loaded' = v
  /\ moveOn
  /\ UNCHANGED <<ret, seen, gpu, current, queried, elements, indexed>>

\* The draw is given to the GPU; the command ends when the ring has advanced.
gives(indices) ==
  /\ gpu' = Append(gpu, work("draw", indices))
  /\ rsx' = "advance"
  /\ UNCHANGED <<registers, label, flipping, events, cause, shutdown, ringVars,
                 guestVars>>

DrawArrays ==
  /\ interpret(<<"draw">>) /\ gives(0)
  /\ indexed' = FALSE /\ UNCHANGED elements

DrawIndexArray ==
  \E v \in Values \ {0} :
    /\ interpret(<<"drawIndex", v>>) /\ gives(v)
    /\ elements' = v /\ indexed' = TRUE

\* RingBuffer::advance: a query behind the draws of the buffer that is left ...
advance ==
  /\ rsx = "advance" /\ rsx' = "wait"
  /\ gpu' = Append(gpu, work("query", 0))
  /\ queried' = queried \cup {current}
  /\ current' = next
  /\ UNCHANGED <<registers, label, flipping, events, cause, shutdown, entries,
                 loaded, elements, indexed, guestVars>>

\* Mutant: the query is not waited for.
clientWaitNot ==
  /\ rsx = "wait"
  /\ queried' = queried \ {current}
  /\ \E prev \in Buffers :
       /\ (prev + 1) % Ring = current
       /\ entries' = [entries EXCEPT ![current] = entries[prev]]
  /\ rsx' = "drawn"
  /\ UNCHANGED <<registers, label, flipping, events, cause, shutdown, gpu,
                 current, loaded, elements, indexed, guestVars>>

\* ... a wait for the query of the one that is entered, and a copy.
clientWait ==
  /\ rsx = "wait"
  /\ current \in queried => \A i \in queries : gpu[i].entry # current
  /\ queried' = queried \ {current}
  /\ \E prev \in Buffers :
       /\ (prev + 1) % Ring = current
       /\ entries' = [entries EXCEPT ![current] = entries[prev]]
  /\ rsx' = "drawn"
  /\ UNCHANGED <<registers, label, flipping, events, cause, shutdown, gpu,
                 current, loaded, elements, indexed, guestVars>>

\* DrawIndexArray waits for the GPU, as there is only one buffer of indices.
drawn ==
  /\ rsx = "drawn" /\ (indexed => waitForIdle)
  /\ rsx' = "loop" /\ get' = get + 1
  /\ UNCHANGED <<put, ret, seen, shutdown, gpu, drawState, guestVars>>

\* The GPU carries out what was given to it first.
gpuWorks ==
  /\ gpu # <<>> /\ gpu' = Tail(gpu)
  /\ UNCHANGED <<registers, label, flipping, events, cause, rsx, shutdown,
                 drawState, guestVars>>

-----------------------------------------------------------------------------
(* What the guest sees                                                     *)

\* Mutant: the reference is set before the GPU is done.
SetReferenceAtOnce ==
  /\ \E v \in Values : interpret(<<"reference", v>>) /\ ref' = v
  /\ moveOn
  /\ UNCHANGED <<ret, label, flipping, events, cause, gpu, drawState>>

SetReference ==
  /\ \E v \in Values : interpret(<<"reference", v>>) /\ ref' = v
  /\ waitForIdle
  /\ moveOn
  /\ UNCHANGED <<ret, label, flipping, events, cause, gpu, drawState>>

\* SemaphoreRelease and TextureReadSemaphoreRelease do not wait for the GPU.
semaphores ==
  /\ \E l \in Labels, v \in Values :
       \/ interpret(<<"release", l, v>>) /\ label' = [label EXCEPT ![l] = v]
       \/ /\ interpret(<<"backEndRelease", l, v>>) /\ waitForIdle
          /\ label' = [label EXCEPT ![l] = v]
       \/ /\ interpret(<<"acquire", l, v>>)
          /\ label[l] = v \/ (l \in OwnLabels /\ v = 1)
          /\ label' = [label EXCEPT ![l] = v]
  /\ moveOn
  /\ UNCHANGED <<ret, ref, flipping, events, cause, gpu, drawState>>

\* The result of sys_event_port_send is not looked at.
invokeHandler(num, arg) ==
  /\ cause' = arg
  /\ events' = IF Len(events) < QueueSize THEN Append(events, num) ELSE events

DriverQueue ==
  /\ interpret(<<"queue">>) /\ flipping' = TRUE
  /\ moveOn
  /\ UNCHANGED <<ret, ref, label, events, cause, gpu, drawState>>

DriverFlip ==
  /\ interpret(<<"flip">>)
  /\ flipping' = FALSE /\ label' = [label EXCEPT ![1] = 0]
  /\ invokeHandler("flip", 0)
  /\ moveOn
  /\ UNCHANGED <<ret, ref, gpu, drawState>>

DriverInterrupt ==
  /\ \E v \in Values : interpret(<<"interrupt", v>>) /\ invokeHandler("user", v)
  /\ moveOn
  /\ UNCHANGED <<ret, ref, label, flipping, gpu, drawState>>

command ==
  \/ flow \/ TransformConstantLoad \/ DrawArrays \/ DrawIndexArray
  \/ SetReference \/ semaphores \/ DriverQueue \/ DriverFlip \/ DriverInterrupt

RsxThread ==
  \/ initGcm \/ loop \/ caughtUp \/ check \/ ends
  \/ rsx = "loop" /\ command
  \/ advance \/ clientWait \/ drawn

-----------------------------------------------------------------------------
(* The guest                                                               *)

\* The thread is at the step s of its script, and goes on.
does(g, s) ==
  /\ program.scripts[g][at[g]] = s
  /\ at' = [at EXCEPT ![g] = @ + 1]
  /\ UNCHANGED program

rsxApart == <<get, ref, ret, gpu, drawState>>
memoryApart == <<buffer, vertices, flushed>>

\* sys_rsx_context_allocate: Rsx::init, and a label.
contextAllocate(g) ==
  /\ \/ /\ does(g, <<"start">>) /\ rsx = "off"
        /\ rsx' = "gcm" /\ UNCHANGED label
     \/ /\ does(g, <<"initialized">>) /\ rsx \notin {"off", "gcm"}
        /\ label' = [label EXCEPT ![3] = 1] /\ UNCHANGED rsx
  /\ UNCHANGED <<rsxApart, put, flipping, events, cause, shutdown, memoryApart>>

\* The guest's own loads and stores.
guestMemory(g) ==
  /\ \/ /\ \E p \in Places : does(g, <<"flush", p>>) /\ put' = p /\ flushed' = p
        /\ UNCHANGED <<label, vertices, buffer>>
     \/ /\ \E l \in Labels, v \in Values :
             does(g, <<"label", l, v>>) /\ label' = [label EXCEPT ![l] = v]
        /\ UNCHANGED <<put, flushed, vertices, buffer>>
     \/ /\ \E v \in Values : does(g, <<"vertices", v>>) /\ vertices' = v
        /\ UNCHANGED <<put, flushed, label, buffer>>
     \/ /\ \E p \in DOMAIN buffer :
             does(g, <<"patch", p>>) /\ buffer' = [buffer EXCEPT ![p] = <<"nop">>]
        /\ UNCHANGED <<put, flushed, label, vertices>>
     \/ /\ \/ \E v \in Values : does(g, <<"awaitRef", v>>) /\ ref = v
           \/ \E l \in Labels, v \in Values :
                does(g, <<"awaitLabel", l, v>>) /\ label[l] = v
           \/ does(g, <<"awaitFlip">>) /\ ~flipping
        /\ UNCHANGED <<put, flushed, label, vertices, buffer>>
  /\ UNCHANGED <<rsxApart, flipping, events, cause, rsx, shutdown>>

\* cellGcmResetFlipStatus, in sys_rsx_context_attribute.
resetFlipStatus(g) ==
  /\ does(g, <<"resetFlip">>) /\ flipping' = TRUE
  /\ UNCHANGED <<rsxApart, put, label, events, cause, rsx, shutdown, memoryApart>>

\* The thread that libgcm has for events receives one.
receive(g) ==
  /\ does(g, <<"receive">>)
  /\ events # <<>> /\ events' = Tail(events)
  /\ UNCHANGED <<rsxApart, put, label, flipping, cause, rsx, shutdown, memoryApart>>

\* Rsx::shutdown, when the process ends.
shuts(g) ==
  /\ \/ does(g, <<"shutdown">>) /\ shutdown' = TRUE
     \/ does(g, <<"join">>) /\ rsx = "ended" /\ UNCHANGED shutdown
  /\ UNCHANGED <<rsxApart, put, label, flipping, events, cause, rsx, memoryApart>>

Guest(g) ==
  /\ at[g] \in DOMAIN program.scripts[g]
  /\ \/ contextAllocate(g) \/ guestMemory(g) \/ resetFlipStatus(g) \/ receive(g)
     \/ shuts(g)

RsxNext == RsxThread \/ gpuWorks \/ \E g \in Guests : Guest(g)

\* The RSX thread and the threads of the guest are threads of the host, which
\* run, and the driver carries out what it is given.
RsxFairness ==
  /\ WF_rsxVars(RsxThread) /\ WF_rsxVars(gpuWorks)
  /\ \A g \in Guests : WF_rsxVars(Guest(g))

RsxSpec == RsxInit /\ [][RsxNext]_rsxVars

-----------------------------------------------------------------------------
(* Properties                                                              *)

\* Whatever the program loads after a draw, and however far behind the GPU is,
\* the draw finds the constants and the indices it was given with (the comment
\* in DrawArrays, and RingBuffer::advance).
DrawsSeeTheirData ==
  \A i \in draws :
    /\ entries[gpu[i].entry] = gpu[i].constants
    /\ gpu[i].indices # 0 => elements = gpu[i].indices

\* A guest that writes over vertices after it has seen a reference, or a label of
\* the back end, from behind the draws that use them disturbs no draw.
DrawsSeeTheirVertices == \A i \in draws : vertices = gpu[i].vertices

\* When the RSX thread has ended, it has carried out all that was flushed before
\* the shutdown, however the flush, the shutdown and the loop's looks at put and
\* _shutdown fell together, and the GPU has carried out all of its draws.
NothingLeftBehind ==
  rsx = "ended" => get = put /\ ret = 0 /\ gpu = <<>>

\* Every flush comes before the shutdown, in the thread that calls it.
ShutsDownLast ==
  \A p \in Programs : \A g, h \in Guests :
    \A i \in DOMAIN p.scripts[g], j \in DOMAIN p.scripts[h] :
      p.scripts[g][i] = <<"shutdown">> /\ (\E place \in Places : p.scripts[h][j] = <<"flush", place>>)
        => g = h /\ j < i

\* What a guest program has to keep to if its draws are to see their vertices: it
\* writes them before it flushes anything, or behind a fence.  A fence is a
\* command that waits for the GPU before the guest can see it.
vertexWrites(p, g) ==
  {i \in DOMAIN p.scripts[g] : \E v \in Values : p.scripts[g][i] = <<"vertices", v>>}
flushes(p, g, place) == {i \in DOMAIN p.scripts[g] : p.scripts[g][i] = <<"flush", place>>}
isDraw(c) == c = <<"draw">> \/ \E v \in Values : c = <<"drawIndex", v>>

WritesFirst(p) ==
  \A g, h \in Guests : \A i \in vertexWrites(p, g), place \in Places :
    \A j \in flushes(p, h, place) : g = h /\ i < j

\* Nothing but the command at q lets a thread pass the step s of its script.
Fenced(p, q, s) ==
  \/ \E v \in Values \ {0, NoRef} :
       /\ s = <<"awaitRef", v>> /\ p.buffer[q] = <<"reference", v>>
       /\ \A r \in DOMAIN p.buffer : p.buffer[r] = <<"reference", v>> => r = q
  \/ \E l \in Labels, v \in Values \ {0} :
       /\ s = <<"awaitLabel", l, v>> /\ p.buffer[q] = <<"backEndRelease", l, v>>
       /\ \A r \in DOMAIN p.buffer :
            p.buffer[r] \in {<<"release", l, v>>, <<"backEndRelease", l, v>>, <<"acquire", l, v>>}
              => r = q
       /\ <<l, v>> # <<3, 1>>
       /\ \A g \in Guests : \A i \in DOMAIN p.scripts[g] : p.scripts[g][i] # <<"label", l, v>>

\* The commands are carried out one after the other.
Straight(p) ==
  /\ \A q \in DOMAIN p.buffer :
       /\ p.buffer[q] # <<"ret">>
       /\ \A r \in Places : p.buffer[q] \notin {<<"jump", r>>, <<"call", r>>}
  /\ \A g \in Guests : \A i \in DOMAIN p.scripts[g], q \in DOMAIN p.buffer :
       p.scripts[g][i] # <<"patch", q>>

\* One thread flushes, further each time.  Where it writes vertices it has waited
\* for a fence behind all the draws it has flushed by then, if there are any.
WritesBehind(p) ==
  /\ Straight(p)
  /\ \E g \in Guests :
       /\ \A h \in Guests \ {g} :
            vertexWrites(p, h) = {} /\ \A place \in Places : flushes(p, h, place) = {}
       /\ \A place \in Places : \A i \in flushes(p, g, place) :
            Begin <= place /\ \A r \in Places : \A j \in flushes(p, g, r) : j < i => r <= place
       /\ \A i \in vertexWrites(p, g) : \E q \in {Begin - 1} \cup DOMAIN p.buffer :
            /\ q # Begin - 1 => \E j \in 1 .. i - 1 : Fenced(p, q, p.scripts[g][j])
            /\ \A place \in Places : \A j \in flushes(p, g, place) : j < i =>
                 \A r \in DOMAIN p.buffer : q < r /\ r < place => ~isDraw(p.buffer[r])

WritesInTime == \A p \in Programs : WritesFirst(p) \/ WritesBehind(p)

\* The loop set put after the guest had, and the guest's value is gone (init lets
\* the guest go on before loop has set the registers).
overtaken == flushed # 0 /\ put # flushed

\* Every thread of the guest comes to the end of its script, the join of the RSX
\* thread included: each reference, label, flip and event it waits for comes.
\* The exception is a flush that was overtaken, and never made good by another.
Served ==
  <>[](\/ \A g \in Guests : at[g] = Len(program.scripts[g]) + 1
       \/ overtaken)
=============================================================================
