-------------------------- MODULE SPUEventsProofs --------------------------
(***************************************************************************)
(* Theorems about SPUEvents, for any SPUs, queues, ports and capacity, and *)
(* for programs that do not connect a port to a second queue while the     *)
(* first one remembers it (Reuses = FALSE; with it, the assertion fails,   *)
(* as the run of MCSPUEvents_Stale shows).  First the lists of ports: what *)
(* the code finds in them, and what it takes out of them.  At the end,     *)
(* what holds for every program: that no port leads to a destroyed queue.  *)
(***************************************************************************)
EXTENDS SPUEvents, SequenceTheorems, FiniteSetTheorems, WellFoundedInduction, TLAPS

\* A nonempty set of naturals has a least element.
LEMMA LeastNatural ==
  ASSUME NEW F, F \subseteq Nat, F # {}
  PROVE  \E m \in F : \A k \in F : m <= k
<1>1. IsWellFoundedOn(OpToRel(<, Nat), Nat) /\ \A k, m \in Nat : k < m => <<k, m>> \in OpToRel(<, Nat)
  BY NatLessThanWellFounded DEF OpToRel
<1>2. \E R : IsWellFoundedOn(R, Nat) /\ \A k, m \in Nat : k < m => <<k, m>> \in R
  BY <1>1
<1>3. PICK R : IsWellFoundedOn(R, Nat) /\ \A k, m \in Nat : k < m => <<k, m>> \in R
  BY <1>2
<1>4. IsWellFoundedOn(R, Nat)
  BY <1>3
<1>5. PICK m \in F : \A k \in F : ~ (<<k, m>> \in R)
  BY <1>4, WFMin
<1>6. \A k \in F : ~ (k < m)
  BY <1>3, <1>5
<1> QED BY <1>6

\* The members of a list, and what Append and Tail do to them.
has(list, e) == \E i \in DOMAIN list : list[i] = e

LEMMA AppendHas ==
  ASSUME NEW S, NEW list \in Seq(S), NEW x \in S
  PROVE  /\ Append(list, x) \in Seq(S)
         /\ \A e : has(Append(list, x), e) <=> has(list, e) \/ e = x
<1>1. /\ Append(list, x) \in Seq(S)
      /\ Len(Append(list, x)) = Len(list) + 1
      /\ \A j \in 1 .. Len(list) : Append(list, x)[j] = list[j]
      /\ Append(list, x)[Len(list) + 1] = x
  BY AppendProperties
<1>2. DOMAIN list = 1 .. Len(list) /\ DOMAIN Append(list, x) = 1 .. Len(list) + 1 /\ Len(list) \in Nat
  BY <1>1, LenProperties
<1>. QED BY <1>1, <1>2 DEF has

\* The queue that find returns is that of an entry with the port.
LEMMA FindEntry ==
  ASSUME NEW list \in Seq(Entries), NEW port, \E i \in DOMAIN list : list[i].port = port
  PROVE  \E i \in DOMAIN list : list[i].port = port /\ find(list, port) = list[i].queue
<1>. DEFINE I == {i \in 1 .. Len(list) : list[i].port = port}
<1>1. DOMAIN list = 1 .. Len(list) /\ Len(list) \in Nat
  BY LenProperties
<1>2. I \subseteq Nat /\ I # {}
  BY <1>1
<1>3. PICK m \in I : \A k \in I : m <= k
  BY <1>2, LeastNatural
<1>4. SelectInSeq(list, LAMBDA e : e.port = port) = Min(I)
  BY <1>2 DEF SelectInSeq
<1>5. Min(I) \in I
  BY <1>3 DEF Min
<1>6. find(list, port) = list[Min(I)].queue
  BY <1>1, <1>2, <1>4 DEF find
<1>. QED BY <1>1, <1>5, <1>6

\* The prefixes of what erase keeps, as its definition says.
Keeps(kept, list, port, m) ==
  kept = [i \in 0 .. m |-> IF i = 0 THEN << >>
                           ELSE IF list[i].port = port THEN kept[i - 1] ELSE Append(kept[i - 1], list[i])]

LEMMA KeptExists ==
  ASSUME NEW list, NEW port, NEW n \in Nat
  PROVE  \E kept : Keeps(kept, list, port, n)
<1>. DEFINE F == {m \in Nat : ~ \E kept : Keeps(kept, list, port, m)}
<1>1. ASSUME NEW m \in Nat, m # 0, NEW kept, Keeps(kept, list, port, m - 1)
      PROVE  \E k : Keeps(k, list, port, m)
  <2>. DEFINE new == IF list[m].port = port THEN kept[m - 1] ELSE Append(kept[m - 1], list[m])
              k == [i \in 0 .. m |-> IF i = m THEN new ELSE kept[i]]
  <2>1. m - 1 \in 0 .. m - 1 /\ m - 1 \in 0 .. m /\ m - 1 # m
    BY <1>1
  <2>2. k[m] = new /\ \A i \in 0 .. m - 1 : k[i] = kept[i]
    BY <1>1
  <2>3. ASSUME NEW i \in 0 .. m
        PROVE  k[i] = IF i = 0 THEN << >>
                      ELSE IF list[i].port = port THEN k[i - 1] ELSE Append(k[i - 1], list[i])
    <3>1. CASE i = m
      BY <1>1, <2>1, <2>2, <3>1
    <3>2. CASE i # m
      <4>1. i \in 0 .. m - 1 /\ (i # 0 => i - 1 \in 0 .. m - 1)
        BY <1>1, <3>2
      <4>2. kept[i] = IF i = 0 THEN << >>
                      ELSE IF list[i].port = port THEN kept[i - 1] ELSE Append(kept[i - 1], list[i])
        BY <1>1, <4>1 DEF Keeps
      <4>. HIDE DEF k
      <4>. QED BY <2>2, <4>1, <4>2
    <3>. QED BY <3>1, <3>2
  <2>4. k = [i \in 0 .. m |-> k[i]]
    OBVIOUS
  <2>. HIDE DEF k
  <2>5. k = [i \in 0 .. m |-> IF i = 0 THEN << >>
                              ELSE IF list[i].port = port THEN k[i - 1] ELSE Append(k[i - 1], list[i])]
    BY <2>3, <2>4
  <2>. QED BY <2>5 DEF Keeps
<1>2. \E k : Keeps(k, list, port, 0)
  <2>1. Keeps([i \in 0 .. 0 |-> << >>], list, port, 0)
    BY DEF Keeps
  <2>. QED BY <2>1
<1>3. F = {}
  <2>1. ASSUME F # {} PROVE FALSE
    <3>1. F \subseteq Nat
      OBVIOUS
    <3>2. PICK m \in F : \A k \in F : m <= k
      BY <2>1, <3>1, LeastNatural
    <3>3. m \in Nat /\ m # 0 /\ ~ \E k : Keeps(k, list, port, m)
      BY <1>2, <3>2
    <3>4. m - 1 \in Nat /\ ~(m <= m - 1)
      BY <3>3
    <3>5. m - 1 \notin F
      BY <3>2, <3>4
    <3>6. \E k : Keeps(k, list, port, m - 1)
      BY <3>4, <3>5
    <3>. QED BY <1>1, <3>3, <3>6
  <2>. QED BY <2>1
<1>. QED BY <1>3

\* erase takes out the entries of the port and keeps the others.
LEMMA EraseKeeps ==
  ASSUME NEW list \in Seq(Entries), NEW port
  PROVE  /\ erase(list, port) \in Seq(Entries)
         /\ \A e : has(erase(list, port), e) <=> e.port # port /\ has(list, e)
<1>1. DOMAIN list = 1 .. Len(list) /\ Len(list) \in Nat /\ \A i \in 1 .. Len(list) : list[i] \in Entries
  BY LenProperties, ElementOfSeq
<1>. DEFINE good(t, m) == /\ t \in Seq(Entries)
                          /\ \A e : has(t, e) <=> (e.port # port /\ \E i \in 1 .. m : list[i] = e)
<1>2. PICK kept : Keeps(kept, list, port, Len(list)) /\ erase(list, port) = kept[Len(list)]
  <2>. DEFINE K == CHOOSE kept : Keeps(kept, list, port, Len(list))
  <2>1. erase(list, port) = K[Len(list)]
    BY DEF erase, Keeps
  <2>2. Keeps(K, list, port, Len(list))
    BY <1>1, KeptExists
  <2>. QED BY <2>1, <2>2
<1>3. ASSUME NEW i \in 0 .. Len(list)
      PROVE  kept[i] = IF i = 0 THEN << >>
                       ELSE IF list[i].port = port THEN kept[i - 1] ELSE Append(kept[i - 1], list[i])
  BY <1>2 DEF Keeps
<1>4. good(kept[0], 0)
  <2>1. kept[0] = << >>
    BY <1>1, <1>3
  <2>2. << >> \in Seq(Entries) /\ \A e : ~has(<< >>, e)
    BY EmptySeq DEF has
  <2>. QED BY <2>1, <2>2
<1>5. ASSUME NEW m \in 1 .. Len(list), good(kept[m - 1], m - 1) PROVE good(kept[m], m)
  <2>1. PICK t : t = kept[m - 1]
    OBVIOUS
  <2>2. /\ t \in Seq(Entries)
        /\ \A e : has(t, e) <=> (e.port # port /\ \E i \in 1 .. m - 1 : list[i] = e)
    BY <1>5, <2>1
  <2>3. kept[m] = IF list[m].port = port THEN t ELSE Append(t, list[m])
    BY <1>3, <2>1
  <2>4. \A e : (\E i \in 1 .. m : list[i] = e) <=> (e = list[m] \/ \E i \in 1 .. m - 1 : list[i] = e)
    <3>1. 1 .. m = (1 .. m - 1) \cup {m}
      OBVIOUS
    <3>. QED BY <3>1
  <2>5. CASE list[m].port = port
    BY <2>2, <2>3, <2>4, <2>5
  <2>6. CASE list[m].port # port
    <3>1. /\ Append(t, list[m]) \in Seq(Entries)
          /\ \A e : has(Append(t, list[m]), e) <=> has(t, e) \/ e = list[m]
      BY <1>1, <2>2, AppendHas
    <3>. QED BY <2>2, <2>3, <2>4, <2>6, <3>1
  <2>. QED BY <2>5, <2>6
<1>6. \A m \in 0 .. Len(list) : good(kept[m], m)
  <2>. DEFINE F == {m \in 0 .. Len(list) : ~good(kept[m], m)}
  <2>1. ASSUME F # {} PROVE FALSE
    <3>1. F \subseteq Nat
      BY <1>1
    <3>2. PICK m \in F : \A k \in F : m <= k
      BY <2>1, <3>1, LeastNatural
    <3>3. m \in 0 .. Len(list) /\ ~good(kept[m], m) /\ m # 0
      BY <1>4, <3>2
    <3>. HIDE DEF good
    <3>4. m \in 1 .. Len(list) /\ m - 1 \in 0 .. Len(list) /\ ~(m <= m - 1)
      BY <1>1, <3>3
    <3>5. good(kept[m - 1], m - 1)
      BY <3>2, <3>4
    <3>. QED BY <1>5, <3>3, <3>4, <3>5
  <2>. HIDE DEF good
  <2>. QED BY <2>1
<1>. QED
  <2>1. Len(list) \in 0 .. Len(list)
    BY <1>1
  <2>. QED BY <1>1, <1>2, <1>6, <2>1 DEF has
-----------------------------------------------------------------------------
(* The inductive invariant.                                                *)

\* What the connecting thread is at, with the threads or the ports it has left.
MainTyped ==
  \/ main = idle
  \/ main \in [at : {"all"}, queue : Queues, port : Ports, rest : Seq(SPUs)]
  \/ main \in [at : {"destroy"}, queue : Queues, port : Ports, rest : Seq(SPUs \X Ports)]

Types ==
  /\ toPPU \in [SPUs -> Seq(Entries)] /\ toSPU \in [SPUs -> Seq(Entries)]
  /\ connected \in [Queues -> Seq(SPUs \X Ports)]
  /\ program \in [SPUs -> [Ports -> Queues \cup {Null}]]
  /\ bound \in [SPUs -> [Ports -> Queues \cup {Null}]]
  /\ exists \subseteq Queues
  /\ length \in [Queues -> 0 .. Size]
  /\ spu \in [SPUs -> [at : {"run", "lock", "send", "lockReceive", "receive"},
                       port : Ports, queue : Queues \cup {Null}]]
  /\ MainTyped
  /\ ~failed

\* A queue remembers every port that leads to it, and no port is remembered twice.
Remembered ==
  /\ \A s \in SPUs, p \in Ports, q \in Queues :
       has(toPPU[s], entry(p, q)) => has(connected[q], <<s, p>>)
  /\ \A s \in SPUs, p \in Ports, q, r \in Queues :
       has(connected[q], <<s, p>>) /\ has(connected[r], <<s, p>>) => q = r

\* What the program has connected and bound is in the lists of the SPU.
Listed ==
  \A s \in SPUs, p \in Ports, q \in Queues :
    /\ program[s][p] = q => has(toPPU[s], entry(p, q))
    /\ bound[s][p] = q <=> has(toSPU[s], entry(p, q))

\* An SPU blocked on a queue, or about to look for it, uses a port of the program's.
Using ==
  \A s \in SPUs :
    /\ spu[s].at \in {"lock", "send"} => program[s][spu[s].port] # Null
    /\ spu[s].at \in {"lockReceive", "receive"} => bound[s][spu[s].port] # Null
    /\ spu[s].at = "send" => spu[s].queue = program[s][spu[s].port]
    /\ spu[s].at = "receive" => spu[s].queue = bound[s][spu[s].port]

\* A port is being connected in all threads: those that are left do not have it yet.
Connecting ==
  main.at = "all" =>
    /\ \A s \in SPUs : /\ program[s][main.port] = Null
                       /\ \A r \in Queues \ {main.queue} : ~has(connected[r], <<s, main.port>>)
                       /\ has(main.rest, s) \/ has(toPPU[s], entry(main.port, main.queue))

\* A queue is being destroyed: the ports that still lead to it are left to erase.
Destroying ==
  main.at = "destroy" =>
    /\ \A e : has(main.rest, e) => has(connected[main.queue], e)
    /\ \A s \in SPUs, p \in Ports :
         /\ program[s][p] # main.queue
         /\ has(toPPU[s], entry(p, main.queue)) => has(main.rest, <<s, p>>)

PortInv == Types /\ Remembered /\ Listed /\ Using /\ Connecting /\ Destroying
-----------------------------------------------------------------------------
(* What the invariant says of the lists.                                   *)

\* The first element of a list and the others.
LEMMA TailHas ==
  ASSUME NEW S, NEW list \in Seq(S), list # << >>
  PROVE  /\ Tail(list) \in Seq(S) /\ Head(list) \in S
         /\ \A e : has(list, e) <=> e = Head(list) \/ has(Tail(list), e)
<1>1. /\ Tail(list) \in Seq(S) /\ Head(list) \in S /\ Len(list) \in Nat \ {0}
      /\ Len(Tail(list)) = Len(list) - 1
      /\ \A i \in 1 .. Len(list) - 1 : Tail(list)[i] = list[i + 1]
  BY HeadTailProperties, LenProperties, EmptySeq
<1>2. DOMAIN list = 1 .. Len(list) /\ DOMAIN Tail(list) = 1 .. Len(list) - 1 /\ Head(list) = list[1]
  BY <1>1, LenProperties
<1>3. ASSUME NEW e, has(list, e) PROVE e = Head(list) \/ has(Tail(list), e)
  <2>1. PICK i \in 1 .. Len(list) : list[i] = e
    BY <1>2, <1>3 DEF has
  <2>2. CASE i = 1
    BY <1>2, <2>1, <2>2
  <2>3. CASE i # 1
    <3>1. i - 1 \in 1 .. Len(list) - 1 /\ (i - 1) + 1 = i
      BY <1>1, <2>3
    <3>. QED BY <1>1, <1>2, <2>1, <3>1 DEF has
  <2>. QED BY <2>2, <2>3
<1>4. ASSUME NEW e, e = Head(list) \/ has(Tail(list), e) PROVE has(list, e)
  <2>1. CASE e = Head(list)
    <3>1. 1 \in 1 .. Len(list)
      BY <1>1
    <3>. QED BY <1>2, <2>1, <3>1 DEF has
  <2>2. CASE has(Tail(list), e)
    <3>1. PICK i \in 1 .. Len(list) - 1 : Tail(list)[i] = e
      BY <1>2, <2>2 DEF has
    <3>2. i + 1 \in 1 .. Len(list)
      BY <1>1
    <3>. QED BY <1>1, <1>2, <3>1, <3>2 DEF has
  <2>. QED BY <1>4, <2>1, <2>2
<1>. QED BY <1>1, <1>3, <1>4

LEMMA MembersTyped ==
  ASSUME NEW S, NEW list \in Seq(S), NEW e, has(list, e)
  PROVE  e \in S
BY LenProperties, ElementOfSeq DEF has

\* The threads of the group, in some order.
LEMMA AllInSequence == SetToSeq(SPUs) \in Seq(SPUs) /\ \A s \in SPUs : has(SetToSeq(SPUs), s)
<1>. DEFINE n == Cardinality(SPUs)
<1>1. n \in Nat /\ IsFiniteSet(SPUs) /\ ExistsBijection(1 .. n, SPUs)
  BY EventsAssumption, FS_CardinalityType
<1>2. PICK g \in Bijection(1 .. n, SPUs) : TRUE
  BY <1>1 DEF ExistsBijection
<1>3. g \in [1 .. n -> SPUs] /\ IsInjective(g)
  BY <1>2 DEF Bijection, Injection
<1>5. PICK f : f = SetToSeq(SPUs)
  OBVIOUS
<1>6. f \in [1 .. n -> SPUs] /\ IsInjective(f)
  BY <1>3, <1>5 DEF SetToSeq
<1>7. f \in Injection(1 .. n, SPUs)
  BY <1>6 DEF Injection
<1>8. Cardinality(1 .. n) = n
  <2>1. Cardinality(1 .. n) = IF 1 > n THEN 0 ELSE n - 1 + 1
    BY <1>1, FS_Interval
  <2>. QED BY <1>1, <2>1
<1>9. f \in Surjection(1 .. n, SPUs)
  BY <1>1, <1>7, <1>8, FS_Injection
<1>10. f \in Seq(SPUs)
  BY <1>1, <1>6, SeqDef
<1>11. \A s \in SPUs : has(f, s)
  BY <1>6, <1>9 DEF Surjection, has
<1>. QED BY <1>5, <1>10, <1>11

\* find, in a list whose entries for a port all lead to one queue.
LEMMA FindOne ==
  ASSUME NEW list \in Seq(Entries), NEW p \in Ports, NEW q \in Queues, has(list, entry(p, q)),
         \A r \in Queues : has(list, entry(p, r)) => r = q
  PROVE  find(list, p) = q
<1>1. \E i \in DOMAIN list : list[i].port = p
  BY DEF has, entry
<1>2. PICK i \in DOMAIN list : list[i].port = p /\ find(list, p) = list[i].queue
  BY <1>1, FindEntry
<1>3. list[i] \in Entries
  BY LenProperties, ElementOfSeq
<1>4. list[i] = entry(p, list[i].queue) /\ list[i].queue \in Queues
  BY <1>2, <1>3 DEF Entries, entry
<1>. QED BY <1>2, <1>4 DEF has

\* An SPU finds what the program has connected and bound.
LEMMA PortsFound ==
  ASSUME PortInv, NEW s \in SPUs, NEW p \in Ports
  PROVE  /\ program[s][p] # Null => find(toPPU[s], p) = program[s][p]
         /\ bound[s][p] # Null => find(toSPU[s], p) = bound[s][p]
<1>1. /\ toPPU[s] \in Seq(Entries) /\ toSPU[s] \in Seq(Entries)
      /\ program[s][p] \in Queues \cup {Null} /\ bound[s][p] \in Queues \cup {Null}
  BY DEF PortInv, Types
<1>2. ASSUME program[s][p] # Null PROVE find(toPPU[s], p) = program[s][p]
  <2>1. PICK q \in Queues : q = program[s][p]
    BY <1>1, <1>2
  <2>2. has(toPPU[s], entry(p, q)) /\ has(connected[q], <<s, p>>)
    BY <2>1 DEF PortInv, Listed, Remembered
  <2>3. ASSUME NEW r \in Queues, has(toPPU[s], entry(p, r)) PROVE r = q
    <3>1. has(connected[r], <<s, p>>)
      BY <2>3 DEF PortInv, Remembered
    <3>. QED BY <2>2, <3>1 DEF PortInv, Remembered
  <2>. QED BY <1>1, <2>1, <2>2, <2>3, FindOne
<1>3. ASSUME bound[s][p] # Null PROVE find(toSPU[s], p) = bound[s][p]
  <2>1. PICK q \in Queues : q = bound[s][p]
    BY <1>1, <1>3
  <2>2. has(toSPU[s], entry(p, q)) /\ \A r \in Queues : has(toSPU[s], entry(p, r)) => r = q
    BY <2>1 DEF PortInv, Listed
  <2>. QED BY <1>1, <2>1, <2>2, FindOne
<1>. QED BY <1>2, <1>3

LEMMA QueueFacts == Null \notin Queues /\ 0 \in Ports
BY EventsAssumption DEF Ports

\* Entries are told apart by their port and queue.
LEMMA EntryFacts ==
  ASSUME NEW p \in Ports, NEW q \in Queues
  PROVE  /\ entry(p, q) \in Entries /\ entry(p, q).port = p /\ entry(p, q).queue = q
         /\ \A o \in Ports, r \in Queues : entry(p, q) = entry(o, r) <=> p = o /\ q = r
<1>1. entry(p, q).port = p /\ entry(p, q).queue = q /\ entry(p, q) \in Entries
  BY DEF entry, Entries
<1>2. ASSUME NEW o \in Ports, NEW r \in Queues, entry(p, q) = entry(o, r) PROVE p = o /\ q = r
  <2>1. entry(o, r).port = o /\ entry(o, r).queue = r
    BY DEF entry
  <2>. QED BY <1>1, <1>2, <2>1
<1>. QED BY <1>1, <1>2
-----------------------------------------------------------------------------
(* The steps of the SPUs and of the PPU threads at the other end.          *)

AtType == [at : {"run", "lock", "send", "lockReceive", "receive"},
           port : Ports, queue : Queues \cup {Null}]

\* A step that leaves the ports alone.
LEMMA PortsKept ==
  ASSUME PortInv, UNCHANGED <<ports, exists, main, wishes, failed>>,
         length' \in [Queues -> 0 .. Size], spu' \in [SPUs -> AtType], Using'
  PROVE  PortInv'
<1>1. UNCHANGED <<toPPU, toSPU, connected, exists, main, program, bound, failed>>
  BY DEF ports, wishes
<1>2. Types'
  BY <1>1 DEF PortInv, Types, MainTyped, AtType
<1>3. Remembered' /\ Listed' /\ Connecting' /\ Destroying'
  BY <1>1 DEF PortInv, Remembered, Listed, Connecting, Destroying
<1>. QED BY <1>2, <1>3 DEF PortInv

\* The new state of one SPU.
LEMMA UsingKept ==
  ASSUME PortInv, NEW s \in SPUs, UNCHANGED wishes,
         NEW new \in AtType, spu' = [spu EXCEPT ![s] = new],
         new.at \in {"lock", "send"} => program[s][new.port] # Null,
         new.at \in {"lockReceive", "receive"} => bound[s][new.port] # Null,
         new.at = "send" => new.queue = program[s][new.port],
         new.at = "receive" => new.queue = bound[s][new.port]
  PROVE  spu' \in [SPUs -> AtType] /\ Using'
<1>1. program' = program /\ bound' = bound
  BY DEF wishes
<1>2. spu \in [SPUs -> AtType]
  BY DEF PortInv, Types, AtType
<1>3. spu' \in [SPUs -> AtType] /\ spu'[s] = new /\ \A u \in SPUs \ {s} : spu'[u] = spu[u]
  BY <1>2
<1>4. ASSUME NEW u \in SPUs
      PROVE  /\ spu'[u].at \in {"lock", "send"} => program'[u][spu'[u].port] # Null
             /\ spu'[u].at \in {"lockReceive", "receive"} => bound'[u][spu'[u].port] # Null
             /\ spu'[u].at = "send" => spu'[u].queue = program'[u][spu'[u].port]
             /\ spu'[u].at = "receive" => spu'[u].queue = bound'[u][spu'[u].port]
  <2>1. CASE u = s
    BY <1>1, <1>3, <2>1
  <2>2. CASE u # s
    BY <1>1, <1>3, <2>2 DEF PortInv, Using
  <2>. QED BY <2>1, <2>2
<1>. QED BY <1>3, <1>4 DEF Using

\* Where an SPU may go from where it is.
LEMMA SPUTyped ==
  ASSUME PortInv, NEW s \in SPUs
  PROVE  /\ spu[s] \in AtType /\ running \in AtType
         /\ spu[s] = [at |-> spu[s].at, port |-> spu[s].port, queue |-> spu[s].queue]
         /\ length \in [Queues -> 0 .. Size] /\ spu \in [SPUs -> AtType]
         /\ \A q \in Queues : length[q] \in 0 .. Size
BY QueueFacts DEF PortInv, Types, AtType, running

LEMMA SPUCallInv ==
  ASSUME PortInv, NEW s \in SPUs, NEW port \in Ports, Send(s, port) \/ Receive(s, port)
  PROVE  PortInv'
<1>1. PICK where \in {"lock", "lockReceive"} :
        /\ spu' = [spu EXCEPT ![s] = [at |-> where, port |-> port, queue |-> Null]]
        /\ where = "lock" => program[s][port] # Null
        /\ where = "lockReceive" => bound[s][port] # Null
        /\ UNCHANGED <<ports, exists, length, main, wishes, failed>>
  BY DEF Send, Receive
<1>2. PICK new : new = [at |-> where, port |-> port, queue |-> Null]
  OBVIOUS
<1>3. new \in AtType /\ new.at = where /\ new.port = port
  BY <1>2 DEF AtType
<1>4. spu' \in [SPUs -> AtType] /\ Using'
  BY <1>1, <1>2, <1>3, UsingKept
<1>. QED BY <1>1, <1>4, SPUTyped, PortsKept

LEMMA SendLockInv ==
  ASSUME PortInv, NEW s \in SPUs, SendLock(s)
  PROVE  PortInv'
<1>1. PICK p \in Ports : p = spu[s].port
  BY SPUTyped DEF AtType
<1>2. PICK q : q = program[s][p]
  OBVIOUS
<1>3. spu[s].at = "lock" /\ q # Null /\ find(toPPU[s], p) = q
  BY <1>1, <1>2, PortsFound DEF SendLock, PortInv, Using
<1>4. q \in Queues
  BY <1>1, <1>2, <1>3 DEF PortInv, Types
<1>5. /\ spu' = [spu EXCEPT ![s] = [at |-> "send", port |-> p, queue |-> q]]
      /\ UNCHANGED <<ports, exists, length, main, wishes, failed>>
  BY <1>1, <1>3 DEF SendLock
<1>6. PICK new : new = [at |-> "send", port |-> p, queue |-> q]
  OBVIOUS
<1>7. spu' = [spu EXCEPT ![s] = new]
  BY <1>5, <1>6
<1>8. spu' \in [SPUs -> AtType] /\ Using'
  <2>1. /\ new \in AtType /\ new.at = "send" /\ new.port = p /\ new.queue = q
    BY <1>4, <1>6 DEF AtType
  <2>. QED BY <1>2, <1>3, <1>5, <1>7, <2>1, UsingKept
<1>. QED BY <1>5, <1>8, SPUTyped, PortsKept

LEMMA ReceiveLockInv ==
  ASSUME PortInv, NEW s \in SPUs, ReceiveLock(s)
  PROVE  PortInv'
<1>1. PICK p \in Ports : p = spu[s].port
  BY SPUTyped DEF AtType
<1>2. PICK q : q = bound[s][p]
  OBVIOUS
<1>3. spu[s].at = "lockReceive" /\ q # Null /\ find(toSPU[s], p) = q
  BY <1>1, <1>2, PortsFound DEF ReceiveLock, PortInv, Using
<1>4. q \in Queues
  BY <1>1, <1>2, <1>3 DEF PortInv, Types
<1>5. /\ spu' = [spu EXCEPT ![s] = [at |-> "receive", port |-> p, queue |-> q]]
      /\ UNCHANGED <<ports, exists, length, main, wishes, failed>>
  BY <1>1, <1>3 DEF ReceiveLock
<1>6. PICK new : new = [at |-> "receive", port |-> p, queue |-> q]
  OBVIOUS
<1>7. spu' = [spu EXCEPT ![s] = new]
  BY <1>5, <1>6
<1>8. spu' \in [SPUs -> AtType] /\ Using'
  <2>1. /\ new \in AtType /\ new.at = "receive" /\ new.port = p /\ new.queue = q
    BY <1>4, <1>6 DEF AtType
  <2>. QED BY <1>2, <1>3, <1>5, <1>7, <2>1, UsingKept
<1>. QED BY <1>5, <1>8, SPUTyped, PortsKept

\* An event enters or leaves a queue.
LEMMA LengthTyped ==
  ASSUME PortInv, NEW q \in Queues,
         \/ length[q] < Size /\ length' = [length EXCEPT ![q] = @ + 1]
         \/ length[q] > 0 /\ length' = [length EXCEPT ![q] = @ - 1]
  PROVE  length' \in [Queues -> 0 .. Size]
<1>1. length \in [Queues -> 0 .. Size] /\ length[q] \in 0 .. Size /\ Size \in Nat
  BY EventsAssumption DEF PortInv, Types
<1>2. (length[q] < Size => length[q] + 1 \in 0 .. Size) /\ (length[q] > 0 => length[q] - 1 \in 0 .. Size)
  BY <1>1
<1>. QED BY <1>1, <1>2

LEMMA SPUDoneInv ==
  ASSUME PortInv, NEW s \in SPUs, SendDone(s) \/ ReceiveDone(s)
  PROVE  PortInv'
<1>1. /\ spu' = [spu EXCEPT ![s] = running]
      /\ UNCHANGED <<ports, exists, main, wishes, failed>>
  BY DEF SendDone, ReceiveDone
<1>2. PICK p \in Ports : p = spu[s].port
  BY SPUTyped DEF AtType
<1>3. PICK q \in Queues : q = spu[s].queue
  <2>1. program[s][p] \in Queues \cup {Null} /\ bound[s][p] \in Queues \cup {Null}
    BY DEF PortInv, Types
  <2>2. spu[s].queue \in Queues
    BY <1>2, <2>1 DEF PortInv, Using, SendDone, ReceiveDone
  <2>. QED BY <2>2
<1>4. length' \in [Queues -> 0 .. Size]
  BY <1>3, LengthTyped DEF SendDone, ReceiveDone
<1>5. spu' \in [SPUs -> AtType] /\ Using'
  <2>1. running.at = "run"
    BY DEF running
  <2>. QED BY <1>1, <2>1, SPUTyped, UsingKept
<1>. QED BY <1>1, <1>4, <1>5, PortsKept

LEMMA PPUStepInv ==
  ASSUME PortInv, NEW q \in Queues, PPUStep(q)
  PROVE  PortInv'
<1>1. UNCHANGED <<ports, exists, spu, main, wishes, failed>>
  BY DEF PPUStep, PPUReceive, PPUSend
<1>2. length' \in [Queues -> 0 .. Size]
  BY LengthTyped DEF PPUStep, PPUReceive, PPUSend
<1>3. spu' \in [SPUs -> AtType] /\ Using'
  BY <1>1 DEF PortInv, Types, Using, AtType, wishes
<1>. QED BY <1>1, <1>2, <1>3, PortsKept
-----------------------------------------------------------------------------
(* The steps of the connecting thread.                                     *)

LEMMA FreshMeans ==
  ASSUME PortInv, ~Reuses, NEW s \in SPUs, NEW port \in Ports, NEW q \in Queues, fresh(s, port, q)
  PROVE  \A r \in Queues \ {q} : ~has(connected[r], <<s, port>>)
<1>1. \A r \in Queues : connected[r] \in Seq(SPUs \X Ports)
  BY DEF PortInv, Types
<1>2. \A r \in Queues : DOMAIN connected[r] = 1 .. Len(connected[r])
  BY <1>1, LenProperties
<1>. QED BY <1>2 DEF fresh, has, Contains

\* A port of one SPU is connected to a queue, and no other queue remembers it.
Connects(s, port, q) ==
  /\ \A r \in Queues \ {q} : ~has(connected[r], <<s, port>>)
  /\ toPPU' = [toPPU EXCEPT ![s] = Append(@, entry(port, q))]
  /\ connected' = [connected EXCEPT ![q] = Append(@, <<s, port>>)]

LEMMA ConnectEffect ==
  ASSUME PortInv, NEW s \in SPUs, NEW port \in Ports, NEW q \in Queues, Connects(s, port, q)
  PROVE  /\ toPPU' \in [SPUs -> Seq(Entries)] /\ connected' \in [Queues -> Seq(SPUs \X Ports)]
         /\ \A u \in SPUs, p \in Ports, r \in Queues :
              has(toPPU'[u], entry(p, r)) <=> has(toPPU[u], entry(p, r)) \/ (u = s /\ p = port /\ r = q)
         /\ \A r \in Queues, u \in SPUs, p \in Ports :
              has(connected'[r], <<u, p>>) <=> has(connected[r], <<u, p>>) \/ (r = q /\ u = s /\ p = port)
         /\ Remembered'
<1>0. /\ \A r \in Queues \ {q} : ~has(connected[r], <<s, port>>)
      /\ toPPU' = [toPPU EXCEPT ![s] = Append(@, entry(port, q))]
      /\ connected' = [connected EXCEPT ![q] = Append(@, <<s, port>>)]
  BY DEF Connects
<1>1. toPPU \in [SPUs -> Seq(Entries)] /\ connected \in [Queues -> Seq(SPUs \X Ports)]
  BY DEF PortInv, Types
<1>2. /\ Append(toPPU[s], entry(port, q)) \in Seq(Entries)
      /\ \A e : has(Append(toPPU[s], entry(port, q)), e) <=> has(toPPU[s], e) \/ e = entry(port, q)
  BY <1>1, EntryFacts, AppendHas
<1>3. /\ Append(connected[q], <<s, port>>) \in Seq(SPUs \X Ports)
      /\ \A e : has(Append(connected[q], <<s, port>>), e) <=> has(connected[q], e) \/ e = <<s, port>>
  <2>1. PICK x \in SPUs \X Ports : x = <<s, port>>
    OBVIOUS
  <2>2. connected[q] \in Seq(SPUs \X Ports)
    BY <1>1
  <2>3. /\ Append(connected[q], x) \in Seq(SPUs \X Ports)
        /\ \A e : has(Append(connected[q], x), e) <=> has(connected[q], e) \/ e = x
    BY <2>2, AppendHas
  <2>. QED BY <2>1, <2>3
<1>4. toPPU' \in [SPUs -> Seq(Entries)] /\ connected' \in [Queues -> Seq(SPUs \X Ports)]
  BY <1>0, <1>1, <1>2, <1>3
<1>5. ASSUME NEW u \in SPUs, NEW p \in Ports, NEW r \in Queues
      PROVE  has(toPPU'[u], entry(p, r)) <=> has(toPPU[u], entry(p, r)) \/ (u = s /\ p = port /\ r = q)
  <2>1. toPPU'[u] = IF u = s THEN Append(toPPU[s], entry(port, q)) ELSE toPPU[u]
    BY <1>0, <1>1
  <2>2. entry(p, r) = entry(port, q) <=> p = port /\ r = q
    BY EntryFacts
  <2>. QED BY <1>2, <2>1, <2>2
<1>6. ASSUME NEW r \in Queues, NEW u \in SPUs, NEW p \in Ports
      PROVE  has(connected'[r], <<u, p>>) <=> has(connected[r], <<u, p>>) \/ (r = q /\ u = s /\ p = port)
  <2>1. connected'[r] = IF r = q THEN Append(connected[q], <<s, port>>) ELSE connected[r]
    BY <1>0, <1>1
  <2>. QED BY <1>3, <2>1
<1>7. Remembered'
  <2>1. ASSUME NEW u \in SPUs, NEW p \in Ports, NEW r \in Queues, has(toPPU'[u], entry(p, r))
        PROVE  has(connected'[r], <<u, p>>)
    BY <1>5, <1>6, <2>1 DEF PortInv, Remembered
  <2>2. ASSUME NEW u \in SPUs, NEW p \in Ports, NEW r \in Queues, NEW k \in Queues,
               has(connected'[r], <<u, p>>), has(connected'[k], <<u, p>>)
        PROVE  r = k
    BY <1>0, <1>6, <2>2 DEF PortInv, Remembered
  <2>. QED BY <2>1, <2>2 DEF Remembered
<1>. QED BY <1>4, <1>5, <1>6, <1>7

\* Calls that leave the connecting thread idle.
LEMMA CallsWhenIdle ==
  ASSUME main = idle, main' = main
  PROVE  MainTyped' /\ Connecting' /\ Destroying'
BY DEF MainTyped, Connecting, Destroying, idle

LEMMA WishTypes ==
  ASSUME PortInv
  PROVE  /\ program \in [SPUs -> [Ports -> Queues \cup {Null}]]
         /\ bound \in [SPUs -> [Ports -> Queues \cup {Null}]]
         /\ toPPU \in [SPUs -> Seq(Entries)] /\ toSPU \in [SPUs -> Seq(Entries)]
         /\ connected \in [Queues -> Seq(SPUs \X Ports)]
BY DEF PortInv, Types

\* A step that erases a port from a list takes that port's entries and no other.
LEMMA EraseToPPU ==
  ASSUME PortInv, NEW s \in SPUs, NEW port \in Ports,
         toPPU' = [toPPU EXCEPT ![s] = erase(@, port)]
  PROVE  /\ toPPU' \in [SPUs -> Seq(Entries)]
         /\ \A u \in SPUs, p \in Ports, r \in Queues :
              has(toPPU'[u], entry(p, r)) <=> has(toPPU[u], entry(p, r)) /\ ~(u = s /\ p = port)
<1>0. toPPU \in [SPUs -> Seq(Entries)]
  BY WishTypes
<1>1. /\ erase(toPPU[s], port) \in Seq(Entries)
      /\ \A e : has(erase(toPPU[s], port), e) <=> e.port # port /\ has(toPPU[s], e)
  BY <1>0, EraseKeeps
<1>2. \A u \in SPUs : toPPU'[u] = IF u = s THEN erase(toPPU[s], port) ELSE toPPU[u]
  BY <1>0
<1>3. ASSUME NEW u \in SPUs, NEW p \in Ports, NEW r \in Queues
      PROVE  has(toPPU'[u], entry(p, r)) <=> has(toPPU[u], entry(p, r)) /\ ~(u = s /\ p = port)
  BY <1>1, <1>2, EntryFacts
<1>4. toPPU' \in [SPUs -> Seq(Entries)]
  BY <1>0, <1>1
<1>. QED BY <1>3, <1>4

LEMMA EraseToSPU ==
  ASSUME PortInv, NEW s \in SPUs, NEW port \in Ports,
         toSPU' = [toSPU EXCEPT ![s] = erase(@, port)]
  PROVE  /\ toSPU' \in [SPUs -> Seq(Entries)]
         /\ \A u \in SPUs, p \in Ports, r \in Queues :
              has(toSPU'[u], entry(p, r)) <=> has(toSPU[u], entry(p, r)) /\ ~(u = s /\ p = port)
<1>0. toSPU \in [SPUs -> Seq(Entries)]
  BY WishTypes
<1>1. /\ erase(toSPU[s], port) \in Seq(Entries)
      /\ \A e : has(erase(toSPU[s], port), e) <=> e.port # port /\ has(toSPU[s], e)
  BY <1>0, EraseKeeps
<1>2. \A u \in SPUs : toSPU'[u] = IF u = s THEN erase(toSPU[s], port) ELSE toSPU[u]
  BY <1>0
<1>3. ASSUME NEW u \in SPUs, NEW p \in Ports, NEW r \in Queues
      PROVE  has(toSPU'[u], entry(p, r)) <=> has(toSPU[u], entry(p, r)) /\ ~(u = s /\ p = port)
  BY <1>1, <1>2, EntryFacts
<1>4. toSPU' \in [SPUs -> Seq(Entries)]
  BY <1>0, <1>1
<1>. QED BY <1>3, <1>4

LEMMA ConnectEventInv ==
  ASSUME PortInv, ~Reuses, NEW s \in SPUs, NEW q \in Queues, NEW port \in Ports,
         connect_event(s, q, port)
  PROVE  PortInv'
<1>1. /\ main = idle /\ program[s][port] = Null /\ fresh(s, port, q)
      /\ toPPU' = [toPPU EXCEPT ![s] = Append(@, entry(port, q))]
      /\ connected' = [connected EXCEPT ![q] = Append(@, <<s, port>>)]
      /\ program' = [program EXCEPT ![s][port] = q]
      /\ UNCHANGED <<toSPU, exists, length, spu, main, bound, failed>>
  BY DEF connect_event
<1>2. /\ toPPU' \in [SPUs -> Seq(Entries)] /\ connected' \in [Queues -> Seq(SPUs \X Ports)]
      /\ \A u \in SPUs, p \in Ports, r \in Queues :
           has(toPPU'[u], entry(p, r)) <=> has(toPPU[u], entry(p, r)) \/ (u = s /\ p = port /\ r = q)
      /\ Remembered'
  <2>1. \A r \in Queues \ {q} : ~has(connected[r], <<s, port>>)
    BY <1>1, FreshMeans
  <2>2. Connects(s, port, q)
    BY <1>1, <2>1 DEF Connects
  <2>. QED BY <2>2, ConnectEffect
<1>3. /\ program' \in [SPUs -> [Ports -> Queues \cup {Null}]]
      /\ \A u \in SPUs, p \in Ports :
           program'[u][p] = IF u = s /\ p = port THEN q ELSE program[u][p]
  BY <1>1, WishTypes
<1>4. Types'
  BY <1>1, <1>2, <1>3, CallsWhenIdle DEF PortInv, Types
<1>5. Listed'
  BY <1>1, <1>2, <1>3 DEF PortInv, Listed
<1>6. Using'
  <2>1. ASSUME NEW u \in SPUs
        PROVE  spu[u].at \in {"lock", "send"} => program'[u][spu[u].port] = program[u][spu[u].port]
    <3>1. PICK o \in Ports : o = spu[u].port
      BY SPUTyped DEF AtType
    <3>. QED BY <1>1, <1>3, <3>1 DEF PortInv, Using
  <2>. QED BY <1>1, <2>1 DEF PortInv, Using
<1>. QED BY <1>1, <1>2, <1>4, <1>5, <1>6, CallsWhenIdle DEF PortInv

LEMMA DisconnectEventInv ==
  ASSUME PortInv, NEW s \in SPUs, NEW port \in Ports, disconnect_event(s, port)
  PROVE  PortInv'
<1>1. /\ main = idle /\ ~inUse(s, port)
      /\ toPPU' = [toPPU EXCEPT ![s] = erase(@, port)]
      /\ program' = [program EXCEPT ![s][port] = Null]
      /\ UNCHANGED <<toSPU, connected, exists, length, spu, main, bound, failed>>
  BY DEF disconnect_event
<1>2. /\ toPPU' \in [SPUs -> Seq(Entries)]
      /\ \A u \in SPUs, p \in Ports, r \in Queues :
           has(toPPU'[u], entry(p, r)) <=> has(toPPU[u], entry(p, r)) /\ ~(u = s /\ p = port)
  BY <1>1, EraseToPPU
<1>3. /\ program' \in [SPUs -> [Ports -> Queues \cup {Null}]]
      /\ \A u \in SPUs, p \in Ports :
           program'[u][p] = IF u = s /\ p = port THEN Null ELSE program[u][p]
  BY <1>1, WishTypes
<1>4. Types'
  BY <1>1, <1>2, <1>3, CallsWhenIdle DEF PortInv, Types
<1>5. Remembered'
  BY <1>1, <1>2 DEF PortInv, Remembered
<1>6. Listed'
  BY <1>1, <1>2, <1>3, QueueFacts DEF PortInv, Listed
<1>7. Using'
  <2>1. ASSUME NEW u \in SPUs
        PROVE  spu[u].at \in {"lock", "send"} => program'[u][spu[u].port] = program[u][spu[u].port]
    <3>1. PICK o \in Ports : o = spu[u].port
      BY SPUTyped DEF AtType
    <3>. QED BY <1>1, <1>3, <3>1 DEF inUse
  <2>. QED BY <1>1, <2>1 DEF PortInv, Using
<1>. QED BY <1>1, <1>4, <1>5, <1>6, <1>7, CallsWhenIdle DEF PortInv

LEMMA BindQueueInv ==
  ASSUME PortInv, NEW s \in SPUs, NEW q \in Queues, NEW port \in Ports, bind_queue(s, q, port)
  PROVE  PortInv'
<1>1. /\ main = idle /\ bound[s][port] = Null
      /\ toSPU' = [toSPU EXCEPT ![s] = Append(@, entry(port, q))]
      /\ bound' = [bound EXCEPT ![s][port] = q]
      /\ UNCHANGED <<toPPU, connected, exists, length, spu, main, program, failed>>
  BY DEF bind_queue
<1>2. /\ Append(toSPU[s], entry(port, q)) \in Seq(Entries)
      /\ \A e : has(Append(toSPU[s], entry(port, q)), e) <=> has(toSPU[s], e) \/ e = entry(port, q)
  BY WishTypes, EntryFacts, AppendHas
<1>3. \A u \in SPUs : toSPU'[u] = IF u = s THEN Append(toSPU[s], entry(port, q)) ELSE toSPU[u]
  BY <1>1, WishTypes
<1>4. /\ toSPU' \in [SPUs -> Seq(Entries)]
      /\ \A u \in SPUs, p \in Ports, r \in Queues :
           has(toSPU'[u], entry(p, r)) <=> has(toSPU[u], entry(p, r)) \/ (u = s /\ p = port /\ r = q)
  <2>1. toSPU' \in [SPUs -> Seq(Entries)]
    BY <1>1, <1>2, WishTypes
  <2>2. ASSUME NEW u \in SPUs, NEW p \in Ports, NEW r \in Queues
        PROVE  has(toSPU'[u], entry(p, r)) <=> has(toSPU[u], entry(p, r)) \/ (u = s /\ p = port /\ r = q)
    <3>1. entry(p, r) = entry(port, q) <=> p = port /\ r = q
      BY EntryFacts
    <3>. QED BY <1>2, <1>3, <3>1
  <2>. QED BY <2>1, <2>2
<1>5. /\ bound' \in [SPUs -> [Ports -> Queues \cup {Null}]]
      /\ \A u \in SPUs, p \in Ports : bound'[u][p] = IF u = s /\ p = port THEN q ELSE bound[u][p]
  BY <1>1, WishTypes
<1>6. Types'
  BY <1>1, <1>4, <1>5, CallsWhenIdle DEF PortInv, Types
<1>7. Listed'
  <2>1. ASSUME NEW u \in SPUs, NEW p \in Ports, NEW r \in Queues
        PROVE  bound'[u][p] = r <=> has(toSPU'[u], entry(p, r))
    BY <1>1, <1>4, <1>5, QueueFacts DEF PortInv, Listed
  <2>. QED BY <1>1, <2>1 DEF PortInv, Listed
<1>8. Using'
  <2>1. ASSUME NEW u \in SPUs
        PROVE  /\ spu[u].port \in Ports
               /\ spu[u].at \in {"lockReceive", "receive"} => bound'[u][spu[u].port] = bound[u][spu[u].port]
    BY <1>1, <1>5, SPUTyped DEF PortInv, Using, AtType
  <2>. QED BY <1>1, <2>1 DEF PortInv, Using
<1>9. Remembered'
  BY <1>1 DEF PortInv, Remembered
<1>. QED BY <1>1, <1>6, <1>7, <1>8, <1>9, CallsWhenIdle DEF PortInv

LEMMA UnbindQueueInv ==
  ASSUME PortInv, NEW s \in SPUs, NEW port \in Ports, unbind_queue(s, port)
  PROVE  PortInv'
<1>1. /\ main = idle /\ ~inReceive(s, port)
      /\ toSPU' = [toSPU EXCEPT ![s] = erase(@, port)]
      /\ bound' = [bound EXCEPT ![s][port] = Null]
      /\ UNCHANGED <<toPPU, connected, exists, length, spu, main, program, failed>>
  BY DEF unbind_queue
<1>2. /\ toSPU' \in [SPUs -> Seq(Entries)]
      /\ \A u \in SPUs, p \in Ports, r \in Queues :
           has(toSPU'[u], entry(p, r)) <=> has(toSPU[u], entry(p, r)) /\ ~(u = s /\ p = port)
  BY <1>1, EraseToSPU
<1>3. /\ bound' \in [SPUs -> [Ports -> Queues \cup {Null}]]
      /\ \A u \in SPUs, p \in Ports : bound'[u][p] = IF u = s /\ p = port THEN Null ELSE bound[u][p]
  BY <1>1, WishTypes
<1>4. Types'
  BY <1>1, <1>2, <1>3, CallsWhenIdle DEF PortInv, Types
<1>5. Remembered'
  BY <1>1 DEF PortInv, Remembered
<1>6. Listed'
  <2>1. ASSUME NEW u \in SPUs, NEW p \in Ports, NEW r \in Queues
        PROVE  bound'[u][p] = r <=> has(toSPU'[u], entry(p, r))
    BY <1>1, <1>2, <1>3, QueueFacts DEF PortInv, Listed
  <2>. QED BY <1>1, <2>1 DEF PortInv, Listed
<1>7. Using'
  <2>1. ASSUME NEW u \in SPUs
        PROVE  spu[u].at \in {"lockReceive", "receive"} => bound'[u][spu[u].port] = bound[u][spu[u].port]
    <3>1. PICK o \in Ports : o = spu[u].port
      BY SPUTyped DEF AtType
    <3>. QED BY <1>1, <1>3, <3>1 DEF inReceive
  <2>. QED BY <1>1, <2>1 DEF PortInv, Using
<1>. QED BY <1>1, <1>4, <1>5, <1>6, <1>7, CallsWhenIdle DEF PortInv

LEMMA ConnectAllInv ==
  ASSUME PortInv, ~Reuses, NEW q \in Queues, NEW req \in SUBSET Ports, connect_all(q, req)
  PROVE  PortInv'
<1>1. PICK port \in Ports :
        /\ available(port) /\ \A s \in SPUs : fresh(s, port, q)
        /\ main' = [at |-> "all", queue |-> q, port |-> port, rest |-> SetToSeq(SPUs)]
  BY DEF connect_all
<1>2. UNCHANGED <<toPPU, toSPU, connected, exists, length, spu, program, bound, failed>>
  BY DEF connect_all, ports, wishes
<1>3. /\ main' \in [at : {"all"}, queue : Queues, port : Ports, rest : Seq(SPUs)]
      /\ main'.at = "all" /\ main'.queue = q /\ main'.port = port
      /\ \A s \in SPUs : has(main'.rest, s)
  BY <1>1, AllInSequence
<1>4. Types' /\ Remembered' /\ Listed' /\ Using'
  BY <1>2, <1>3 DEF PortInv, Types, MainTyped, Remembered, Listed, Using
<1>5. ASSUME NEW s \in SPUs
      PROVE  program[s][port] = Null /\ \A r \in Queues \ {q} : ~has(connected[r], <<s, port>>)
  <2>1. program[s][port] = Null
    BY <1>1, PortsFound DEF available
  <2>. QED BY <1>1, <2>1, FreshMeans
<1>6. Connecting'
  BY <1>2, <1>3, <1>5 DEF Connecting
<1>7. Destroying'
  BY <1>3 DEF Destroying
<1>. QED BY <1>4, <1>6, <1>7 DEF PortInv

LEMMA ConnectAllStepInv ==
  ASSUME PortInv, connect_allStep
  PROVE  PortInv'
<1>1. /\ main \in [at : {"all"}, queue : Queues, port : Ports, rest : Seq(SPUs)]
      /\ main.at = "all" /\ main.rest # << >>
  BY DEF PortInv, Types, MainTyped, connect_allStep, idle
<1>2. PICK q \in Queues, port \in Ports, rest \in Seq(SPUs) :
        main = [at |-> "all", queue |-> q, port |-> port, rest |-> rest]
  BY <1>1
<1>3. /\ Tail(rest) \in Seq(SPUs) /\ Head(rest) \in SPUs
      /\ \A e : has(rest, e) <=> e = Head(rest) \/ has(Tail(rest), e)
  BY <1>1, <1>2, TailHas
<1>4. PICK s \in SPUs : s = Head(rest)
  BY <1>3
<1>5. \A u \in SPUs : /\ program[u][port] = Null
                      /\ \A r \in Queues \ {q} : ~has(connected[r], <<u, port>>)
                      /\ has(rest, u) \/ has(toPPU[u], entry(port, q))
  BY <1>2 DEF PortInv, Connecting
<1>6. /\ Connects(s, port, q)
      /\ main' = [main EXCEPT !.rest = Tail(@)]
      /\ UNCHANGED <<toSPU, exists, length, spu, program, bound, failed>>
  BY <1>2, <1>4, <1>5 DEF connect_allStep, Connects, wishes
<1>7. main' = [at |-> "all", queue |-> q, port |-> port, rest |-> Tail(rest)]
  BY <1>2, <1>6
<1>8. /\ toPPU' \in [SPUs -> Seq(Entries)] /\ connected' \in [Queues -> Seq(SPUs \X Ports)]
      /\ \A u \in SPUs, p \in Ports, r \in Queues :
           has(toPPU'[u], entry(p, r)) <=> has(toPPU[u], entry(p, r)) \/ (u = s /\ p = port /\ r = q)
      /\ \A r \in Queues, u \in SPUs, p \in Ports :
           has(connected'[r], <<u, p>>) <=> has(connected[r], <<u, p>>) \/ (r = q /\ u = s /\ p = port)
      /\ Remembered'
  BY <1>6, ConnectEffect
<1>9. Types'
  <2>1. main' \in [at : {"all"}, queue : Queues, port : Ports, rest : Seq(SPUs)]
    BY <1>3, <1>7
  <2>. QED BY <1>6, <1>8, <2>1 DEF PortInv, Types, MainTyped
<1>10. Listed'
  BY <1>6, <1>8 DEF PortInv, Listed
<1>11. Using'
  BY <1>6 DEF PortInv, Using
<1>12. Connecting'
  <2>1. ASSUME NEW u \in SPUs
        PROVE  /\ program'[u][port] = Null
               /\ \A r \in Queues \ {q} : ~has(connected'[r], <<u, port>>)
               /\ has(Tail(rest), u) \/ has(toPPU'[u], entry(port, q))
    BY <1>3, <1>4, <1>5, <1>6, <1>8
  <2>2. main'.port = port /\ main'.queue = q /\ main'.rest = Tail(rest)
    BY <1>7
  <2>. QED BY <2>1, <2>2 DEF Connecting
<1>13. Destroying'
  BY <1>7 DEF Destroying
<1>. QED BY <1>8, <1>9, <1>10, <1>11, <1>12, <1>13 DEF PortInv

LEMMA ConnectAllReturnInv ==
  ASSUME PortInv, connect_allReturn
  PROVE  PortInv'
<1>1. /\ main \in [at : {"all"}, queue : Queues, port : Ports, rest : Seq(SPUs)]
      /\ main.at = "all" /\ main.rest = << >>
  BY DEF PortInv, Types, MainTyped, connect_allReturn, idle
<1>2. PICK q \in Queues, port \in Ports : q = main.queue /\ port = main.port
  BY <1>1
<1>3. /\ program' = [s \in SPUs |-> [program[s] EXCEPT ![port] = q]]
      /\ main' = idle
      /\ UNCHANGED <<toPPU, toSPU, connected, exists, length, spu, bound, failed>>
  BY <1>2 DEF connect_allReturn, ports
<1>4. \A u \in SPUs : program[u][port] = Null /\ has(toPPU[u], entry(port, q))
  BY <1>1, <1>2 DEF PortInv, Connecting, has
<1>5. /\ program' \in [SPUs -> [Ports -> Queues \cup {Null}]]
      /\ \A u \in SPUs, p \in Ports : program'[u][p] = IF p = port THEN q ELSE program[u][p]
  BY <1>3, WishTypes
<1>6. Types' /\ Remembered'
  BY <1>3, <1>5 DEF PortInv, Types, MainTyped, Remembered
<1>7. Listed'
  BY <1>3, <1>4, <1>5 DEF PortInv, Listed
<1>8. Using'
  <2>1. ASSUME NEW u \in SPUs
        PROVE  spu[u].at \in {"lock", "send"} => program'[u][spu[u].port] = program[u][spu[u].port]
    <3>1. PICK o \in Ports : o = spu[u].port
      BY SPUTyped DEF AtType
    <3>. QED BY <1>4, <1>5, <3>1 DEF PortInv, Using
  <2>. QED BY <1>3, <2>1 DEF PortInv, Using
<1>9. Connecting' /\ Destroying'
  BY <1>3 DEF Connecting, Destroying, idle
<1>. QED BY <1>6, <1>7, <1>8, <1>9 DEF PortInv

LEMMA QueueDestroyInv ==
  ASSUME PortInv, NEW q \in Queues, queue_destroy(q)
  PROVE  PortInv'
<1>1. /\ \A s \in SPUs, p \in Ports : program[s][p] = q => ~inUse(s, p)
      /\ main' = [at |-> "destroy", queue |-> q, port |-> 0, rest |-> connected[q]]
      /\ program' = [s \in SPUs |-> [p \in Ports |->
                        IF program[s][p] = q THEN Null ELSE program[s][p]]]
      /\ UNCHANGED <<toPPU, toSPU, connected, exists, length, spu, bound, failed>>
  BY DEF queue_destroy, ports
<1>2. main' = [at |-> "destroy", queue |-> q, port |-> 0, rest |-> connected[q]]
  BY <1>1
<1>3. main' \in [at : {"destroy"}, queue : Queues, port : Ports, rest : Seq(SPUs \X Ports)]
  BY <1>2, WishTypes, QueueFacts
<1>4. /\ program' \in [SPUs -> [Ports -> Queues \cup {Null}]]
      /\ \A u \in SPUs, p \in Ports :
           program'[u][p] = IF program[u][p] = q THEN Null ELSE program[u][p]
  BY <1>1, WishTypes
<1>5. Types' /\ Remembered'
  BY <1>1, <1>3, <1>4 DEF PortInv, Types, MainTyped, Remembered
<1>6. Listed'
  BY <1>1, <1>4, QueueFacts DEF PortInv, Listed
<1>7. Using'
  <2>1. ASSUME NEW u \in SPUs
        PROVE  spu[u].at \in {"lock", "send"} => program'[u][spu[u].port] = program[u][spu[u].port]
    <3>1. PICK o \in Ports : o = spu[u].port
      BY SPUTyped DEF AtType
    <3>. QED BY <1>1, <1>4, <3>1 DEF inUse
  <2>. QED BY <1>1, <2>1 DEF PortInv, Using
<1>8. Destroying'
  <2>1. main'.queue = q /\ main'.rest = connected[q]
    BY <1>2
  <2>2. ASSUME NEW s \in SPUs, NEW p \in Ports
        PROVE  /\ program'[s][p] # q
               /\ has(toPPU[s], entry(p, q)) => has(connected[q], <<s, p>>)
    BY <1>4, QueueFacts DEF PortInv, Remembered
  <2>. QED BY <1>1, <2>1, <2>2 DEF Destroying
<1>9. Connecting'
  BY <1>2 DEF Connecting
<1>. QED BY <1>5, <1>6, <1>7, <1>8, <1>9 DEF PortInv

LEMMA DestroyStepInv ==
  ASSUME PortInv, destroyStep
  PROVE  PortInv'
<1>1. /\ main \in [at : {"destroy"}, queue : Queues, port : Ports, rest : Seq(SPUs \X Ports)]
      /\ main.at = "destroy" /\ main.rest # << >>
  BY DEF PortInv, Types, MainTyped, destroyStep, idle
<1>2. PICK q \in Queues, o \in Ports, rest \in Seq(SPUs \X Ports) :
        main = [at |-> "destroy", queue |-> q, port |-> o, rest |-> rest]
  BY <1>1
<1>3. /\ Tail(rest) \in Seq(SPUs \X Ports) /\ Head(rest) \in SPUs \X Ports
      /\ \A e : has(rest, e) <=> e = Head(rest) \/ has(Tail(rest), e)
  BY <1>1, <1>2, TailHas
<1>4. PICK s \in SPUs, port \in Ports : Head(rest) = <<s, port>>
  BY <1>3
<1>5. /\ toPPU' = [toPPU EXCEPT ![s] = erase(@, port)]
      /\ main' = [main EXCEPT !.rest = Tail(@)]
      /\ UNCHANGED <<toSPU, connected, exists, length, spu, program, bound, failed>>
  <2>1. main.rest = rest /\ Head(main.rest)[1] = s /\ Head(main.rest)[2] = port
    BY <1>2, <1>4
  <2>2. toPPU' = [toPPU EXCEPT ![Head(main.rest)[1]] = erase(@, Head(main.rest)[2])]
    BY Zenon DEF destroyStep
  <2>3. toPPU' = [toPPU EXCEPT ![s] = erase(@, port)]
    BY <2>1, <2>2, Zenon
  <2>. QED BY <2>3 DEF destroyStep, wishes
<1>6. main' = [at |-> "destroy", queue |-> q, port |-> o, rest |-> Tail(rest)]
  BY <1>2, <1>5
<1>7. /\ toPPU' \in [SPUs -> Seq(Entries)]
      /\ \A u \in SPUs, p \in Ports, r \in Queues :
           has(toPPU'[u], entry(p, r)) <=> has(toPPU[u], entry(p, r)) /\ ~(u = s /\ p = port)
  BY <1>5, EraseToPPU
<1>8. /\ \A e : has(rest, e) => has(connected[q], e)
      /\ \A u \in SPUs, p \in Ports : /\ program[u][p] # q
                                      /\ has(toPPU[u], entry(p, q)) => has(rest, <<u, p>>)
  BY <1>2 DEF PortInv, Destroying
<1>9. Types'
  <2>1. main' \in [at : {"destroy"}, queue : Queues, port : Ports, rest : Seq(SPUs \X Ports)]
    BY <1>3, <1>6
  <2>. QED BY <1>5, <1>7, <2>1 DEF PortInv, Types, MainTyped
<1>10. Remembered'
  BY <1>5, <1>7 DEF PortInv, Remembered
<1>11. Listed'
  <2>1. \A r \in Queues : has(connected[r], <<s, port>>) => r = q
    BY <1>3, <1>4, <1>8 DEF PortInv, Remembered
  <2>2. ASSUME NEW u \in SPUs, NEW p \in Ports, NEW r \in Queues, program[u][p] = r
        PROVE  has(toPPU'[u], entry(p, r))
    <3>1. has(toPPU[u], entry(p, r)) /\ has(connected[r], <<u, p>>)
      BY <2>2 DEF PortInv, Listed, Remembered
    <3>2. ~(u = s /\ p = port)
      BY <1>8, <2>1, <2>2, <3>1
    <3>. QED BY <1>7, <3>1, <3>2
  <2>. QED BY <1>5, <2>2 DEF PortInv, Listed
<1>12. Using'
  BY <1>5 DEF PortInv, Using
<1>13. Destroying'
  <2>1. main'.queue = q /\ main'.rest = Tail(rest)
    BY <1>6
  <2>2. \A e : has(Tail(rest), e) => has(connected[q], e)
    BY <1>3, <1>8
  <2>3. ASSUME NEW u \in SPUs, NEW p \in Ports, has(toPPU'[u], entry(p, q))
        PROVE  has(Tail(rest), <<u, p>>)
    <3>1. has(rest, <<u, p>>) /\ ~(u = s /\ p = port)
      BY <1>7, <1>8, <2>3
    <3>2. <<u, p>> # Head(rest)
      BY <1>4, <3>1
    <3>. QED BY <1>3, <3>1, <3>2
  <2>. QED BY <1>5, <1>8, <2>1, <2>2, <2>3 DEF Destroying
<1>14. Connecting'
  BY <1>6 DEF Connecting
<1>. QED BY <1>9, <1>10, <1>11, <1>12, <1>13, <1>14 DEF PortInv

LEMMA DestroyReturnInv ==
  ASSUME PortInv, destroyReturn
  PROVE  PortInv'
<1>1. /\ main \in [at : {"destroy"}, queue : Queues, port : Ports, rest : Seq(SPUs \X Ports)]
      /\ main.at = "destroy" /\ main.rest = << >>
  BY DEF PortInv, Types, MainTyped, destroyReturn, idle
<1>2. PICK q \in Queues : q = main.queue
  BY <1>1
<1>3. /\ exists' = exists \ {q}
      /\ connected' = [connected EXCEPT ![q] = << >>]
      /\ length' = [length EXCEPT ![q] = 0]
      /\ main' = idle
      /\ UNCHANGED <<toPPU, toSPU, spu, program, bound, failed>>
  BY <1>2 DEF destroyReturn, wishes
<1>4. \A u \in SPUs, p \in Ports : ~has(toPPU[u], entry(p, q))
  BY <1>1, <1>2 DEF PortInv, Destroying, has
<1>5. /\ connected' \in [Queues -> Seq(SPUs \X Ports)]
      /\ \A r \in Queues : connected'[r] = IF r = q THEN << >> ELSE connected[r]
  BY <1>3, WishTypes
<1>6. length' \in [Queues -> 0 .. Size]
  <2>1. 0 \in 0 .. Size
    BY EventsAssumption
  <2>. QED BY <1>3, <2>1 DEF PortInv, Types
<1>7. Types'
  BY <1>3, <1>5, <1>6 DEF PortInv, Types, MainTyped
<1>8. Remembered'
  <2>1. \A e : ~has(<< >>, e)
    BY DEF has
  <2>2. \A u \in SPUs, p \in Ports, r \in Queues :
          has(toPPU'[u], entry(p, r)) => has(connected'[r], <<u, p>>)
    BY <1>3, <1>4, <1>5 DEF PortInv, Remembered
  <2>3. ASSUME NEW u \in SPUs, NEW p \in Ports, NEW r \in Queues, NEW k \in Queues,
               has(connected'[r], <<u, p>>), has(connected'[k], <<u, p>>)
        PROVE  r = k
    <3>1. r # q /\ k # q
      BY <1>5, <2>1, <2>3
    <3>2. has(connected[r], <<u, p>>) /\ has(connected[k], <<u, p>>)
      BY <1>5, <2>3, <3>1
    <3>. QED BY <3>2, Zenon DEF PortInv, Remembered
  <2>. QED BY <2>2, <2>3 DEF Remembered
<1>9. Listed' /\ Using'
  BY <1>3 DEF PortInv, Listed, Using
<1>10. Connecting' /\ Destroying'
  BY <1>3 DEF Connecting, Destroying, idle
<1>. QED BY <1>7, <1>8, <1>9, <1>10 DEF PortInv
-----------------------------------------------------------------------------
LEMMA PortInvInit == EventsInit => PortInv
<1>. SUFFICES ASSUME EventsInit PROVE PortInv
  OBVIOUS
<1>1. \A e : ~has(<< >>, e)
  BY DEF has
<1>2. Types
  BY SPUTyped, QueueFacts, EventsAssumption DEF EventsInit, Types, MainTyped, running, AtType
<1>3. Remembered /\ Listed /\ Using /\ Connecting /\ Destroying
  BY <1>1, QueueFacts DEF EventsInit, Remembered, Listed, Using, Connecting, Destroying, running, idle
<1>. QED BY <1>2, <1>3 DEF PortInv

LEMMA PortInvNext ==
  ASSUME ~Reuses, PortInv, [EventsNext]_eventVars
  PROVE  PortInv'
<1>1. CASE UNCHANGED eventVars
  <2>1. UNCHANGED <<toPPU, toSPU, connected, exists, length, spu, main, program, bound, failed>>
    BY <1>1 DEF eventVars, ports, wishes
  <2>. QED BY <2>1 DEF PortInv, Types, MainTyped, Remembered, Listed, Using, Connecting, Destroying
<1>2. CASE MainCall
  BY <1>2, ConnectEventInv, DisconnectEventInv, BindQueueInv, UnbindQueueInv, ConnectAllInv,
     QueueDestroyInv DEF MainCall
<1>3. CASE MainStep
  BY <1>3, ConnectAllStepInv, ConnectAllReturnInv, DestroyStepInv, DestroyReturnInv DEF MainStep
<1>4. ASSUME NEW s \in SPUs, SPUCall(s) \/ SPUStep(s) PROVE PortInv'
  BY <1>4, SPUCallInv, SendLockInv, ReceiveLockInv, SPUDoneInv DEF SPUCall, SPUStep
<1>5. ASSUME NEW q \in Queues, PPUStep(q) PROVE PortInv'
  BY <1>5, PPUStepInv
<1>. QED BY <1>1, <1>2, <1>3, <1>4, <1>5 DEF EventsNext

\* The lists of ports agree with what the program has connected and bound.
LEMMA PortsAgree ==
  ASSUME ~Reuses
  PROVE  EventsSpec => []PortInv
<1>1. EventsInit => PortInv
  BY PortInvInit
<1>2. PortInv /\ [EventsNext]_eventVars => PortInv'
  BY PortInvNext
<1>. QED BY <1>1, <1>2, PTL DEF EventsSpec

\* An SPU that uses a port of the program's finds its queue: no assertion of
\* handleInterrupt or handleReceiveEvent fails.
THEOREM NoPortIsMissing ==
  ASSUME ~Reuses
  PROVE  EventsSpec => []AssertionsHold
<1>1. PortInv => AssertionsHold
  BY DEF PortInv, Types, AssertionsHold
<1>. QED BY <1>1, PortsAgree, PTL

\* An SPU blocks on the queue that the program connected or bound to the port, for
\* any order of connecting, disconnecting, destroying, sending and receiving.
THEOREM EventsGoToTheRightQueue ==
  ASSUME ~Reuses
  PROVE  EventsSpec => []RightQueue
<1>1. PortInv => RightQueue
  BY DEF PortInv, Using, RightQueue
<1>. QED BY <1>1, PortsAgree, PTL
-----------------------------------------------------------------------------
(* Where the ports lead, whatever the program connects anew.               *)

\* Every port of an SPU leads to a queue that is in the map, and so does every
\* wait of an SPU.
NoGoneQueue ==
  \A s \in SPUs :
    /\ \A i \in DOMAIN toPPU[s] : toPPU[s][i].queue \in exists
    /\ \A i \in DOMAIN toSPU[s] : toSPU[s][i].queue \in exists
    /\ spu[s].at \in {"send", "receive"} => spu[s].queue \in exists

LiveTypes ==
  /\ toPPU \in [SPUs -> Seq(Entries)] /\ toSPU \in [SPUs -> Seq(Entries)]
  /\ connected \in [Queues -> Seq(SPUs \X Ports)]
  /\ bound \in [SPUs -> [Ports -> Queues \cup {Null}]]
  /\ exists \subseteq Queues /\ spu \in [SPUs -> AtType] /\ MainTyped

\* The queue that a port leads to remembers the port, or the program has bound it.
Leads ==
  \A s \in SPUs, p \in Ports, q \in Queues :
    /\ has(toPPU[s], entry(p, q)) => has(connected[q], <<s, p>>) /\ q \in exists
    /\ has(toSPU[s], entry(p, q)) => bound[s][p] = q /\ q \in exists

\* A blocked SPU keeps its mutex, and so the port that it went through.
Blocked ==
  \A s \in SPUs :
    /\ spu[s].at = "send" => has(toPPU[s], entry(spu[s].port, spu[s].queue))
    /\ spu[s].at = "receive" => has(toSPU[s], entry(spu[s].port, spu[s].queue))

\* The queue being connected or destroyed is still there, and to one that is
\* being destroyed lead only the ports that are left to erase.
InHand ==
  /\ main.at # "idle" => main.queue \in exists
  /\ main.at = "destroy" =>
       \A s \in SPUs, p \in Ports :
         /\ bound[s][p] # main.queue
         /\ has(toPPU[s], entry(p, main.queue)) => has(main.rest, <<s, p>>)

LiveInv == LiveTypes /\ Leads /\ Blocked /\ InHand

\* The lists of an SPU after its port was connected, and after it was erased.
Grown(lists, s, port, q) == [lists EXCEPT ![s] = Append(@, entry(port, q))]
Shrunk(lists, s, port) == [lists EXCEPT ![s] = erase(@, port)]
Remembering(lists, s, port, q) == [lists EXCEPT ![q] = Append(@, <<s, port>>)]

LEMMA ListGrows ==
  ASSUME NEW lists \in [SPUs -> Seq(Entries)], NEW s \in SPUs, NEW port \in Ports, NEW q \in Queues
  PROVE  /\ Grown(lists, s, port, q) \in [SPUs -> Seq(Entries)]
         /\ \A u \in SPUs : \A e :
              has(Grown(lists, s, port, q)[u], e) <=> has(lists[u], e) \/ (u = s /\ e = entry(port, q))
<1>. DEFINE new == Grown(lists, s, port, q)
<1>1. /\ Append(lists[s], entry(port, q)) \in Seq(Entries)
      /\ \A e : has(Append(lists[s], entry(port, q)), e) <=> has(lists[s], e) \/ e = entry(port, q)
  BY EntryFacts, AppendHas
<1>2. \A u \in SPUs : new[u] = IF u = s THEN Append(lists[s], entry(port, q)) ELSE lists[u]
  BY DEF Grown
<1>3. ASSUME NEW u \in SPUs, NEW e
      PROVE  has(new[u], e) <=> has(lists[u], e) \/ (u = s /\ e = entry(port, q))
  BY <1>1, <1>2
<1>. QED BY <1>1, <1>3 DEF Grown

LEMMA ListShrinks ==
  ASSUME NEW lists \in [SPUs -> Seq(Entries)], NEW s \in SPUs, NEW port \in Ports
  PROVE  /\ Shrunk(lists, s, port) \in [SPUs -> Seq(Entries)]
         /\ \A u \in SPUs, p \in Ports, r \in Queues :
              has(Shrunk(lists, s, port)[u], entry(p, r))
                <=> has(lists[u], entry(p, r)) /\ ~(u = s /\ p = port)
<1>. DEFINE new == Shrunk(lists, s, port)
<1>1. /\ erase(lists[s], port) \in Seq(Entries)
      /\ \A e : has(erase(lists[s], port), e) <=> e.port # port /\ has(lists[s], e)
  BY EraseKeeps
<1>2. \A u \in SPUs : new[u] = IF u = s THEN erase(lists[s], port) ELSE lists[u]
  BY DEF Shrunk
<1>3. ASSUME NEW u \in SPUs, NEW p \in Ports, NEW r \in Queues
      PROVE  has(new[u], entry(p, r)) <=> has(lists[u], entry(p, r)) /\ ~(u = s /\ p = port)
  BY <1>1, <1>2, EntryFacts
<1>. QED BY <1>1, <1>3 DEF Shrunk

\* What a queue remembers after another port was connected to it.
LEMMA RemembersMore ==
  ASSUME NEW lists \in [Queues -> Seq(SPUs \X Ports)], NEW s \in SPUs, NEW port \in Ports,
         NEW q \in Queues
  PROVE  /\ Remembering(lists, s, port, q) \in [Queues -> Seq(SPUs \X Ports)]
         /\ \A r \in Queues : \A e : has(lists[r], e) => has(Remembering(lists, s, port, q)[r], e)
         /\ has(Remembering(lists, s, port, q)[q], <<s, port>>)
<1>. DEFINE new == Remembering(lists, s, port, q)
<1>1. PICK x \in SPUs \X Ports : x = <<s, port>>
  OBVIOUS
<1>2. /\ Append(lists[q], x) \in Seq(SPUs \X Ports)
      /\ \A e : has(Append(lists[q], x), e) <=> has(lists[q], e) \/ e = x
  <2>1. lists[q] \in Seq(SPUs \X Ports)
    OBVIOUS
  <2>. QED BY <2>1, AppendHas
<1>3. \A r \in Queues : new[r] = IF r = q THEN Append(lists[q], x) ELSE lists[r]
  BY <1>1 DEF Remembering
<1>. QED BY <1>1, <1>2, <1>3 DEF Remembering

\* find returns the queue of an entry that is in the list.
LEMMA FoundIsThere ==
  ASSUME NEW list \in Seq(Entries), NEW p \in Ports, find(list, p) # Null
  PROVE  find(list, p) \in Queues /\ has(list, entry(p, find(list, p)))
<1>1. \E i \in DOMAIN list : list[i].port = p
  BY DEF find
<1>2. PICK i \in DOMAIN list : list[i].port = p /\ find(list, p) = list[i].queue
  BY <1>1, FindEntry
<1>3. list[i] \in Entries
  BY LenProperties, ElementOfSeq
<1>4. list[i] = entry(p, list[i].queue) /\ list[i].queue \in Queues
  BY <1>2, <1>3 DEF Entries, entry
<1>. QED BY <1>2, <1>4 DEF has

\* The parts that have a step of their own below.
LEMMA LiveSPU ==
  ASSUME LiveInv, NEW s \in SPUs, NEW new \in AtType, spu' = [spu EXCEPT ![s] = new],
         UNCHANGED <<toPPU, toSPU, connected, exists, main, bound>>,
         new.at = "send" => has(toPPU[s], entry(new.port, new.queue)),
         new.at = "receive" => has(toSPU[s], entry(new.port, new.queue))
  PROVE  LiveInv'
<1>1. spu \in [SPUs -> AtType]
  BY DEF LiveInv, LiveTypes
<1>2. spu' \in [SPUs -> AtType] /\ spu'[s] = new /\ \A u \in SPUs \ {s} : spu'[u] = spu[u]
  BY <1>1
<1>3. LiveTypes'
  BY <1>2 DEF LiveInv, LiveTypes, MainTyped
<1>4. Leads' /\ InHand'
  BY DEF LiveInv, Leads, InHand
<1>5. ASSUME NEW u \in SPUs
      PROVE  /\ spu'[u].at = "send" => has(toPPU[u], entry(spu'[u].port, spu'[u].queue))
             /\ spu'[u].at = "receive" => has(toSPU[u], entry(spu'[u].port, spu'[u].queue))
  BY <1>2 DEF LiveInv, Blocked
<1>. QED BY <1>3, <1>4, <1>5 DEF LiveInv, Blocked

LEMMA BlockedTyped ==
  ASSUME LiveInv, NEW s \in SPUs
  PROVE  /\ spu[s].port \in Ports
         /\ spu[s].at \in {"send", "receive"} => spu[s].queue \in Queues /\ spu[s].queue \in exists
<1>1. spu[s] \in AtType /\ toPPU[s] \in Seq(Entries) /\ toSPU[s] \in Seq(Entries)
  BY DEF LiveInv, LiveTypes
<1>2. PICK p, q : p = spu[s].port /\ q = spu[s].queue
  OBVIOUS
<1>3. p \in Ports
  BY <1>1, <1>2 DEF AtType
<1>4. ASSUME NEW list \in Seq(Entries), has(list, entry(p, q)) PROVE q \in Queues
  <2>1. entry(p, q) \in Entries
    BY <1>4, MembersTyped
  <2>. QED BY <2>1 DEF entry, Entries
<1>5. spu[s].at \in {"send", "receive"} => q \in Queues
  BY <1>1, <1>2, <1>4 DEF LiveInv, Blocked
<1>6. spu[s].at \in {"send", "receive"} => q \in exists
  <2>1. \/ has(toPPU[s], entry(p, q)) \/ has(toSPU[s], entry(p, q))
        \/ spu[s].at \notin {"send", "receive"}
    BY <1>2 DEF LiveInv, Blocked
  <2>2. ASSUME q \in Queues PROVE has(toPPU[s], entry(p, q)) \/ has(toSPU[s], entry(p, q)) => q \in exists
    BY <1>3, <2>2 DEF LiveInv, Leads
  <2>. QED BY <1>5, <2>1, <2>2
<1>. QED BY <1>2, <1>3, <1>5, <1>6

\* A port is connected to a queue that is in the map.
LEMMA LiveConnects ==
  ASSUME LiveInv, NEW s \in SPUs, NEW port \in Ports, NEW q \in Queues, q \in exists,
         toPPU' = Grown(toPPU, s, port, q),
         connected' = Remembering(connected, s, port, q),
         UNCHANGED <<toSPU, exists, spu, bound>>,
         MainTyped', main'.at # "destroy", main'.at # "idle" => main'.queue \in exists
  PROVE  LiveInv'
<1>0. /\ toPPU \in [SPUs -> Seq(Entries)] /\ toSPU \in [SPUs -> Seq(Entries)]
      /\ connected \in [Queues -> Seq(SPUs \X Ports)]
      /\ bound \in [SPUs -> [Ports -> Queues \cup {Null}]]
  BY DEF LiveInv, LiveTypes
<1>1. /\ toPPU' \in [SPUs -> Seq(Entries)]
      /\ \A u \in SPUs : \A e : has(toPPU'[u], e) <=> has(toPPU[u], e) \/ (u = s /\ e = entry(port, q))
  <2>1. /\ Grown(toPPU, s, port, q) \in [SPUs -> Seq(Entries)]
        /\ \A u \in SPUs : \A e :
             has(Grown(toPPU, s, port, q)[u], e) <=> has(toPPU[u], e) \/ (u = s /\ e = entry(port, q))
    <3>1. toPPU \in [SPUs -> Seq(Entries)]
      BY <1>0
    <3>2. Grown(toPPU, s, port, q) \in [SPUs -> Seq(Entries)]
      BY <3>1, ListGrows
    <3>3. \A u \in SPUs : \A e :
           has(Grown(toPPU, s, port, q)[u], e) <=> has(toPPU[u], e) \/ (u = s /\ e = entry(port, q))
      BY <3>1, ListGrows
    <3>. QED BY <3>2, <3>3
  <2>. QED BY <2>1
<1>2. /\ connected' \in [Queues -> Seq(SPUs \X Ports)]
      /\ \A r \in Queues : \A e : has(connected[r], e) => has(connected'[r], e)
      /\ has(connected'[q], <<s, port>>)
  BY <1>0, RemembersMore
<1>3. LiveTypes'
  BY <1>1, <1>2 DEF LiveInv, LiveTypes
<1>4. Leads'
  <2>1. ASSUME NEW u \in SPUs, NEW p \in Ports, NEW r \in Queues, has(toPPU'[u], entry(p, r))
        PROVE  has(connected'[r], <<u, p>>) /\ r \in exists
    <3>1. CASE has(toPPU[u], entry(p, r))
      <4>1. has(connected[r], <<u, p>>) /\ r \in exists
        BY <3>1 DEF LiveInv, Leads
      <4>. QED BY <1>2, <4>1
    <3>2. CASE u = s /\ entry(p, r) = entry(port, q)
      <4>1. p = port /\ r = q
        BY <3>2, EntryFacts
      <4>. QED BY <1>2, <3>2, <4>1
    <3>. QED BY <1>1, <2>1, <3>1, <3>2
  <2>2. ASSUME NEW u \in SPUs, NEW p \in Ports, NEW r \in Queues, has(toSPU'[u], entry(p, r))
        PROVE  bound'[u][p] = r /\ r \in exists
    BY <2>2 DEF LiveInv, Leads
  <2>. QED BY <2>1, <2>2 DEF Leads
<1>5. Blocked'
  BY <1>1, BlockedTyped DEF LiveInv, Blocked
<1>6. InHand'
  BY DEF InHand
<1>. QED BY <1>3, <1>4, <1>5, <1>6 DEF LiveInv

\* A port of an SPU that is not blocked is erased from the list to the PPU.
LEMMA LiveErases ==
  ASSUME LiveInv, NEW s \in SPUs, NEW port \in Ports, ~locked(s),
         toPPU' = Shrunk(toPPU, s, port),
         UNCHANGED <<toSPU, connected, exists, spu, bound>>, MainTyped',
         main'.at # "idle" => main'.queue \in exists,
         main'.at = "destroy" =>
           /\ main.at = "destroy" /\ main'.queue = main.queue /\ main.queue \in Queues
           /\ \A e : has(main.rest, e) => has(main'.rest, e) \/ e = <<s, port>>
  PROVE  LiveInv'
<1>0. /\ toPPU \in [SPUs -> Seq(Entries)] /\ toSPU \in [SPUs -> Seq(Entries)]
      /\ connected \in [Queues -> Seq(SPUs \X Ports)]
      /\ bound \in [SPUs -> [Ports -> Queues \cup {Null}]]
  BY DEF LiveInv, LiveTypes
<1>1. /\ toPPU' \in [SPUs -> Seq(Entries)]
      /\ \A u \in SPUs, p \in Ports, r \in Queues :
           has(toPPU'[u], entry(p, r)) <=> has(toPPU[u], entry(p, r)) /\ ~(u = s /\ p = port)
  <2>1. /\ Shrunk(toPPU, s, port) \in [SPUs -> Seq(Entries)]
        /\ \A u \in SPUs, p \in Ports, r \in Queues :
             has(Shrunk(toPPU, s, port)[u], entry(p, r))
               <=> has(toPPU[u], entry(p, r)) /\ ~(u = s /\ p = port)
    BY <1>0, ListShrinks
  <2>. QED BY <2>1
<1>2. LiveTypes'
  BY <1>1 DEF LiveInv, LiveTypes
<1>3. Leads'
  BY <1>1 DEF LiveInv, Leads
<1>4. Blocked'
  <2>1. spu[s].at \notin {"send", "receive"}
    BY DEF locked
  <2>. QED BY <1>1, <2>1, BlockedTyped DEF LiveInv, Blocked
<1>5. InHand'
  <2>1. ASSUME main'.at = "destroy", NEW u \in SPUs, NEW p \in Ports
        PROVE  /\ bound'[u][p] # main'.queue
               /\ has(toPPU'[u], entry(p, main'.queue)) => has(main'.rest, <<u, p>>)
    <3>1. /\ bound[u][p] # main.queue
          /\ has(toPPU[u], entry(p, main.queue)) => has(main.rest, <<u, p>>)
      BY <2>1 DEF LiveInv, InHand
    <3>. QED BY <1>1, <2>1, <3>1
  <2>. QED BY <2>1 DEF InHand
<1>. QED BY <1>2, <1>3, <1>4, <1>5 DEF LiveInv

LEMMA LiveBinds ==
  ASSUME LiveInv, NEW s \in SPUs, NEW q \in Queues, NEW port \in Ports, bind_queue(s, q, port)
  PROVE  LiveInv'
<1>0. /\ toPPU \in [SPUs -> Seq(Entries)] /\ toSPU \in [SPUs -> Seq(Entries)]
      /\ connected \in [Queues -> Seq(SPUs \X Ports)]
      /\ bound \in [SPUs -> [Ports -> Queues \cup {Null}]]
  BY DEF LiveInv, LiveTypes
<1>1. /\ main = idle /\ q \in exists /\ bound[s][port] = Null
      /\ toSPU' = Grown(toSPU, s, port, q)
      /\ bound' = [bound EXCEPT ![s][port] = q]
      /\ UNCHANGED <<toPPU, connected, exists, spu, main>>
  BY DEF bind_queue, Grown
<1>2. /\ toSPU' \in [SPUs -> Seq(Entries)]
      /\ \A u \in SPUs : \A e : has(toSPU'[u], e) <=> has(toSPU[u], e) \/ (u = s /\ e = entry(port, q))
  <2>1. /\ Grown(toSPU, s, port, q) \in [SPUs -> Seq(Entries)]
        /\ \A u \in SPUs : \A e :
             has(Grown(toSPU, s, port, q)[u], e) <=> has(toSPU[u], e) \/ (u = s /\ e = entry(port, q))
    <3>1. toSPU \in [SPUs -> Seq(Entries)]
      BY <1>0
    <3>2. Grown(toSPU, s, port, q) \in [SPUs -> Seq(Entries)]
      BY <3>1, ListGrows
    <3>3. \A u \in SPUs : \A e :
           has(Grown(toSPU, s, port, q)[u], e) <=> has(toSPU[u], e) \/ (u = s /\ e = entry(port, q))
      BY <3>1, ListGrows
    <3>. QED BY <3>2, <3>3
  <2>. QED BY <1>1, <2>1
<1>3. /\ bound' \in [SPUs -> [Ports -> Queues \cup {Null}]]
      /\ \A u \in SPUs, p \in Ports : bound'[u][p] = IF u = s /\ p = port THEN q ELSE bound[u][p]
  BY <1>0, <1>1
<1>4. LiveTypes'
  BY <1>1, <1>2, <1>3 DEF LiveInv, LiveTypes, MainTyped
<1>5. Leads'
  <2>1. ASSUME NEW u \in SPUs, NEW p \in Ports, NEW r \in Queues, has(toPPU'[u], entry(p, r))
        PROVE  has(connected'[r], <<u, p>>) /\ r \in exists'
    BY <1>1, <2>1 DEF LiveInv, Leads
  <2>2. ASSUME NEW u \in SPUs, NEW p \in Ports, NEW r \in Queues, has(toSPU'[u], entry(p, r))
        PROVE  bound'[u][p] = r /\ r \in exists'
    <3>1. CASE has(toSPU[u], entry(p, r))
      <4>1. bound[u][p] = r /\ r \in exists
        BY <3>1 DEF LiveInv, Leads
      <4>2. ~(u = s /\ p = port)
        BY <1>1, <4>1, QueueFacts
      <4>. QED BY <1>1, <1>3, <4>1, <4>2
    <3>2. CASE u = s /\ entry(p, r) = entry(port, q)
      <4>1. p = port /\ r = q
        BY <3>2, EntryFacts
      <4>. QED BY <1>1, <1>3, <3>2, <4>1
    <3>. QED BY <1>2, <2>2, <3>1, <3>2
  <2>. QED BY <2>1, <2>2 DEF Leads
<1>6. Blocked'
  BY <1>1, <1>2, BlockedTyped DEF LiveInv, Blocked
<1>7. InHand'
  BY <1>1 DEF InHand, idle
<1>. QED BY <1>4, <1>5, <1>6, <1>7 DEF LiveInv

LEMMA LiveUnbinds ==
  ASSUME LiveInv, NEW s \in SPUs, NEW port \in Ports, unbind_queue(s, port)
  PROVE  LiveInv'
<1>0. /\ toPPU \in [SPUs -> Seq(Entries)] /\ toSPU \in [SPUs -> Seq(Entries)]
      /\ connected \in [Queues -> Seq(SPUs \X Ports)]
      /\ bound \in [SPUs -> [Ports -> Queues \cup {Null}]]
  BY DEF LiveInv, LiveTypes
<1>1. /\ main = idle /\ ~locked(s)
      /\ toSPU' = Shrunk(toSPU, s, port)
      /\ bound' = [bound EXCEPT ![s][port] = Null]
      /\ UNCHANGED <<toPPU, connected, exists, spu, main>>
  BY DEF unbind_queue, Shrunk
<1>2. /\ toSPU' \in [SPUs -> Seq(Entries)]
      /\ \A u \in SPUs, p \in Ports, r \in Queues :
           has(toSPU'[u], entry(p, r)) <=> has(toSPU[u], entry(p, r)) /\ ~(u = s /\ p = port)
  <2>1. /\ Shrunk(toSPU, s, port) \in [SPUs -> Seq(Entries)]
        /\ \A u \in SPUs, p \in Ports, r \in Queues :
             has(Shrunk(toSPU, s, port)[u], entry(p, r))
               <=> has(toSPU[u], entry(p, r)) /\ ~(u = s /\ p = port)
    BY <1>0, ListShrinks
  <2>. QED BY <1>1, <2>1
<1>3. /\ bound' \in [SPUs -> [Ports -> Queues \cup {Null}]]
      /\ \A u \in SPUs, p \in Ports : bound'[u][p] = IF u = s /\ p = port THEN Null ELSE bound[u][p]
  BY <1>0, <1>1
<1>4. LiveTypes'
  BY <1>1, <1>2, <1>3 DEF LiveInv, LiveTypes, MainTyped
<1>5. Leads'
  <2>1. ASSUME NEW u \in SPUs, NEW p \in Ports, NEW r \in Queues, has(toPPU'[u], entry(p, r))
        PROVE  has(connected'[r], <<u, p>>) /\ r \in exists'
    BY <1>1, <2>1 DEF LiveInv, Leads
  <2>2. ASSUME NEW u \in SPUs, NEW p \in Ports, NEW r \in Queues, has(toSPU'[u], entry(p, r))
        PROVE  bound'[u][p] = r /\ r \in exists'
    <3>1. has(toSPU[u], entry(p, r)) /\ ~(u = s /\ p = port)
      BY <1>2, <2>2
    <3>2. bound[u][p] = r /\ r \in exists
      BY <3>1 DEF LiveInv, Leads
    <3>. QED BY <1>1, <1>3, <3>1, <3>2
  <2>. QED BY <2>1, <2>2 DEF Leads
<1>6. Blocked'
  <2>1. spu[s].at \notin {"send", "receive"}
    BY <1>1 DEF locked
  <2>. QED BY <1>1, <1>2, <2>1, BlockedTyped DEF LiveInv, Blocked
<1>7. InHand'
  BY <1>1 DEF InHand, idle
<1>. QED BY <1>4, <1>5, <1>6, <1>7 DEF LiveInv

\* The connecting thread goes on, and no list changes.
LEMMA LiveMain ==
  ASSUME LiveInv, UNCHANGED <<toPPU, toSPU, connected, exists, spu, bound>>, MainTyped', InHand'
  PROVE  LiveInv'
BY DEF LiveInv, LiveTypes, Leads, Blocked

LEMMA LiveMainCall ==
  ASSUME LiveInv, MainCall
  PROVE  LiveInv'
<1>1. LiveTypes /\ MainTyped /\ main = idle
  BY DEF LiveInv, LiveTypes, MainCall, connect_event, bind_queue, connect_all, queue_destroy,
     disconnect_event, unbind_queue
<1>2. ASSUME main' = main PROVE MainTyped' /\ main'.at = "idle"
  BY <1>1, <1>2 DEF MainTyped, idle
<1>3. ASSUME NEW q \in Queues, NEW s \in SPUs, NEW port \in Ports, connect_event(s, q, port)
      PROVE  LiveInv'
  <2>1. /\ q \in exists /\ main' = main
        /\ toPPU' = Grown(toPPU, s, port, q)
        /\ connected' = Remembering(connected, s, port, q)
        /\ UNCHANGED <<toSPU, exists, spu, bound>>
    BY <1>3 DEF connect_event, Grown, Remembering
  <2>. QED BY <1>2, <2>1, LiveConnects
<1>4. ASSUME NEW s \in SPUs, NEW port \in Ports, disconnect_event(s, port) PROVE LiveInv'
  <2>1. /\ ~locked(s) /\ main' = main /\ toPPU' = Shrunk(toPPU, s, port)
        /\ UNCHANGED <<toSPU, connected, exists, spu, bound>>
    BY <1>4 DEF disconnect_event, Shrunk
  <2>. QED BY <1>2, <2>1, LiveErases
<1>5. ASSUME NEW q \in Queues, NEW req \in SUBSET Ports, connect_all(q, req) PROVE LiveInv'
  <2>1. PICK port \in Ports :
          main' = [at |-> "all", queue |-> q, port |-> port, rest |-> SetToSeq(SPUs)]
    BY <1>5 DEF connect_all
  <2>2. q \in exists /\ UNCHANGED <<toPPU, toSPU, connected, exists, spu, bound>>
    BY <1>5 DEF connect_all, ports, wishes
  <2>3. MainTyped'
    BY <2>1, AllInSequence DEF MainTyped
  <2>4. InHand'
    BY <2>1, <2>2 DEF InHand
  <2>. QED BY <2>2, <2>3, <2>4, LiveMain
<1>6. ASSUME NEW q \in Queues, queue_destroy(q) PROVE LiveInv'
  <2>1. /\ q \in exists /\ ~isBound(q)
        /\ main' = [at |-> "destroy", queue |-> q, port |-> 0, rest |-> connected[q]]
        /\ UNCHANGED <<toPPU, toSPU, connected, exists, spu, bound>>
    BY <1>6 DEF queue_destroy, ports
  <2>2. connected[q] \in Seq(SPUs \X Ports)
    BY <1>1 DEF LiveTypes
  <2>3. MainTyped'
    BY <2>1, <2>2, QueueFacts DEF MainTyped
  <2>4. InHand'
    <3>1. main'.at = "destroy" /\ main'.queue = q /\ main'.rest = connected[q]
      BY <2>1
    <3>2. ASSUME NEW u \in SPUs, NEW p \in Ports
          PROVE  bound[u][p] # q /\ (has(toPPU[u], entry(p, q)) => has(connected[q], <<u, p>>))
      BY <2>1 DEF isBound, LiveInv, Leads
    <3>. QED BY <2>1, <3>1, <3>2 DEF InHand
  <2>. QED BY <2>1, <2>3, <2>4, LiveMain
<1>. QED BY <1>3, <1>4, <1>5, <1>6, LiveBinds, LiveUnbinds DEF MainCall

LEMMA LiveMainStep ==
  ASSUME LiveInv, MainStep
  PROVE  LiveInv'
<1>0. LiveTypes /\ MainTyped /\ main.at # "idle" /\ main.queue \in exists
  BY DEF LiveInv, LiveTypes, InHand, MainStep, connect_allStep, connect_allReturn, destroyStep,
     destroyReturn
<1>1. CASE connect_allStep
  <2>0. main \in [at : {"all"}, queue : Queues, port : Ports, rest : Seq(SPUs)] /\ main.rest # << >>
    BY <1>0, <1>1 DEF MainTyped, connect_allStep, idle
  <2>1. PICK s, port, q : s = Head(main.rest) /\ port = main.port /\ q = main.queue
    OBVIOUS
  <2>2. s \in SPUs /\ Tail(main.rest) \in Seq(SPUs) /\ port \in Ports /\ q \in Queues /\ q \in exists
    BY <1>0, <2>0, <2>1, TailHas
  <2>3. /\ toPPU' = Grown(toPPU, s, port, q)
        /\ connected' = Remembering(connected, s, port, q)
        /\ main' = [main EXCEPT !.rest = Tail(@)]
        /\ UNCHANGED <<toSPU, exists, spu, bound>>
    BY <1>1, <2>1 DEF connect_allStep, Grown, Remembering, wishes
  <2>4. main' \in [at : {"all"}, queue : Queues, port : Ports, rest : Seq(SPUs)] /\ main'.queue = q
    BY <2>0, <2>1, <2>2, <2>3
  <2>5. MainTyped' /\ main'.at # "destroy"
    BY <2>4 DEF MainTyped
  <2>6. main'.queue \in exists
    BY <2>2, <2>4
  <2>. QED BY <2>2, <2>3, <2>5, <2>6, LiveConnects
<1>2. CASE connect_allReturn
  <2>1. main' = idle /\ UNCHANGED <<toPPU, toSPU, connected, exists, spu, bound>>
    BY <1>2 DEF connect_allReturn, ports
  <2>2. MainTyped' /\ InHand'
    BY <2>1 DEF MainTyped, InHand, idle
  <2>. QED BY <2>1, <2>2, LiveMain
<1>3. CASE destroyStep
  <2>0. main \in [at : {"destroy"}, queue : Queues, port : Ports, rest : Seq(SPUs \X Ports)]
        /\ main.rest # << >>
    BY <1>0, <1>3 DEF MainTyped, destroyStep, idle
  <2>1. PICK s, port : s = Head(main.rest)[1] /\ port = Head(main.rest)[2]
    OBVIOUS
  <2>2. /\ Head(main.rest) \in SPUs \X Ports /\ Tail(main.rest) \in Seq(SPUs \X Ports)
        /\ \A e : has(main.rest, e) <=> e = Head(main.rest) \/ has(Tail(main.rest), e)
    BY <2>0, TailHas
  <2>3. s \in SPUs /\ port \in Ports /\ Head(main.rest) = <<s, port>>
    BY <2>1, <2>2
  <2>4. /\ ~locked(s) /\ toPPU' = Shrunk(toPPU, s, port)
        /\ main' = [main EXCEPT !.rest = Tail(@)]
        /\ UNCHANGED <<toSPU, connected, exists, spu, bound>>
    BY <1>3, <2>1 DEF destroyStep, Shrunk, wishes
  <2>5. /\ main' \in [at : {"destroy"}, queue : Queues, port : Ports, rest : Seq(SPUs \X Ports)]
        /\ main'.queue = main.queue /\ main'.rest = Tail(main.rest)
    BY <2>0, <2>2, <2>4
  <2>6. MainTyped'
    BY <2>5 DEF MainTyped
  <2>7. main.at = "destroy" /\ main.queue \in Queues
    BY <2>0
  <2>8. \A e : has(main.rest, e) => has(main'.rest, e) \/ e = <<s, port>>
    BY <2>2, <2>3, <2>5
  <2>9. main'.queue \in exists
    BY <1>0, <2>5
  <2>. QED BY <2>3, <2>4, <2>5, <2>6, <2>7, <2>8, <2>9, LiveErases
<1>4. CASE destroyReturn
  <2>0. main.at = "destroy" /\ main.rest = << >> /\ main.queue \in Queues
    BY <1>0, <1>4 DEF MainTyped, destroyReturn, idle
  <2>1. /\ exists' = exists \ {main.queue} /\ connected' = [connected EXCEPT ![main.queue] = << >>]
        /\ main' = idle /\ UNCHANGED <<toPPU, toSPU, spu, bound>>
    BY <1>4 DEF destroyReturn, wishes
  <2>2. connected \in [Queues -> Seq(SPUs \X Ports)]
    BY <1>0 DEF LiveTypes
  <2>3. connected' \in [Queues -> Seq(SPUs \X Ports)]
        /\ \A r \in Queues : r # main.queue => connected'[r] = connected[r]
    BY <2>1, <2>2, EmptySeq
  <2>4. LiveTypes'
    BY <1>0, <2>1, <2>3 DEF LiveTypes, MainTyped
  <2>5. ASSUME NEW u \in SPUs, NEW p \in Ports
        PROVE  bound[u][p] # main.queue /\ ~has(toPPU[u], entry(p, main.queue))
    <3>1. ~has(main.rest, <<u, p>>)
      BY <2>0 DEF has
    <3>. QED BY <2>0, <3>1 DEF LiveInv, InHand
  <2>6. Leads'
    <3>1. ASSUME NEW u \in SPUs, NEW p \in Ports, NEW r \in Queues, has(toPPU[u], entry(p, r))
          PROVE  has(connected'[r], <<u, p>>) /\ r \in exists'
      <4>1. r # main.queue
        BY <2>5, <3>1
      <4>2. has(connected[r], <<u, p>>) /\ r \in exists
        BY <3>1 DEF LiveInv, Leads
      <4>. QED BY <2>1, <2>3, <4>1, <4>2
    <3>2. ASSUME NEW u \in SPUs, NEW p \in Ports, NEW r \in Queues, has(toSPU[u], entry(p, r))
          PROVE  bound[u][p] = r /\ r \in exists'
      <4>1. bound[u][p] = r /\ r \in exists
        BY <3>2 DEF LiveInv, Leads
      <4>. QED BY <2>1, <2>5, <4>1
    <3>. QED BY <2>1, <3>1, <3>2 DEF Leads
  <2>7. Blocked' /\ InHand'
    BY <2>1 DEF LiveInv, Blocked, InHand, idle
  <2>. QED BY <2>4, <2>6, <2>7 DEF LiveInv
<1>. QED BY <1>1, <1>2, <1>3, <1>4 DEF MainStep

LEMMA LiveSPUStep ==
  ASSUME LiveInv, NEW s \in SPUs, SPUCall(s) \/ SPUStep(s)
  PROVE  LiveInv'
<1>0. /\ spu \in [SPUs -> AtType] /\ spu[s].port \in Ports
      /\ toPPU[s] \in Seq(Entries) /\ toSPU[s] \in Seq(Entries)
  BY DEF LiveInv, LiveTypes, AtType
<1>1. ASSUME NEW port \in Ports, Send(s, port) \/ Receive(s, port) PROVE LiveInv'
  <2>1. PICK at \in {"lock", "lockReceive"} :
          spu' = [spu EXCEPT ![s] = [at |-> at, port |-> port, queue |-> Null]]
    BY <1>1 DEF Send, Receive
  <2>2. UNCHANGED <<toPPU, toSPU, connected, exists, main, bound>>
    BY <1>1 DEF Send, Receive, ports, wishes
  <2>3. [at |-> at, port |-> port, queue |-> Null] \in AtType
    BY DEF AtType
  <2>. QED BY <2>1, <2>2, <2>3, LiveSPU
<1>2. CASE SendLock(s) \/ ReceiveLock(s)
  <2>0. UNCHANGED <<toPPU, toSPU, connected, exists, main, bound>>
    BY <1>2 DEF SendLock, ReceiveLock, ports, wishes
  <2>1. CASE UNCHANGED spu
    BY <2>0, <2>1 DEF LiveInv, LiveTypes, MainTyped, Leads, Blocked, InHand
  <2>2. ASSUME NEW list \in {toPPU[s], toSPU[s]}, NEW at \in {"send", "receive"},
               list = IF at = "send" THEN toPPU[s] ELSE toSPU[s],
               find(list, spu[s].port) # Null,
               spu' = [spu EXCEPT ![s] = [at |-> at, port |-> @.port, queue |-> find(list, spu[s].port)]]
        PROVE  LiveInv'
    <3>1. PICK p, q : p = spu[s].port /\ q = find(list, spu[s].port)
      OBVIOUS
    <3>2. q \in Queues /\ has(list, entry(p, q)) /\ p \in Ports
      BY <1>0, <2>2, <3>1, FoundIsThere
    <3>3. [at |-> at, port |-> p, queue |-> q] \in AtType
      BY <3>2 DEF AtType
    <3>4. spu' = [spu EXCEPT ![s] = [at |-> at, port |-> p, queue |-> q]]
      BY <1>0, <2>2, <3>1
    <3>. QED BY <2>0, <2>2, <3>2, <3>3, <3>4, LiveSPU
  <2>3. \/ UNCHANGED spu
        \/ /\ find(toPPU[s], spu[s].port) # Null
           /\ spu' = [spu EXCEPT ![s] = [at |-> "send", port |-> @.port,
                                         queue |-> find(toPPU[s], spu[s].port)]]
        \/ /\ find(toSPU[s], spu[s].port) # Null
           /\ spu' = [spu EXCEPT ![s] = [at |-> "receive", port |-> @.port,
                                         queue |-> find(toSPU[s], spu[s].port)]]
    BY <1>2 DEF SendLock, ReceiveLock
  <2>. QED BY <2>1, <2>2, <2>3
<1>3. CASE SendDone(s) \/ ReceiveDone(s)
  <2>1. /\ spu' = [spu EXCEPT ![s] = running]
        /\ UNCHANGED <<toPPU, toSPU, connected, exists, main, bound>>
    BY <1>3 DEF SendDone, ReceiveDone, ports, wishes
  <2>2. running \in AtType /\ running.at = "run"
    BY EventsAssumption DEF running, AtType, Ports
  <2>. QED BY <2>1, <2>2, LiveSPU
<1>. QED BY <1>1, <1>2, <1>3 DEF SPUCall, SPUStep

LEMMA LiveNext ==
  ASSUME LiveInv, [EventsNext]_eventVars
  PROVE  LiveInv'
<1>1. CASE UNCHANGED eventVars
  BY <1>1 DEF eventVars, ports, wishes, LiveInv, LiveTypes, MainTyped, Leads, Blocked, InHand
<1>2. ASSUME NEW q \in Queues, PPUStep(q) PROVE LiveInv'
  <2>1. UNCHANGED <<toPPU, toSPU, connected, exists, spu, main, bound>>
    BY <1>2 DEF PPUStep, PPUReceive, PPUSend, ports, wishes
  <2>. QED BY <2>1 DEF LiveInv, LiveTypes, MainTyped, Leads, Blocked, InHand
<1>. QED BY <1>1, <1>2, LiveMainCall, LiveMainStep, LiveSPUStep DEF EventsNext

LEMMA LiveInit ==
  ASSUME EventsInit
  PROVE  LiveInv
<1>1. LiveTypes
  BY EmptySeq, EventsAssumption DEF EventsInit, LiveTypes, MainTyped, AtType, running, Ports
<1>2. \A e : ~has(<< >>, e)
  BY DEF has
<1>3. Leads
  BY <1>2 DEF EventsInit, Leads
<1>4. Blocked /\ InHand
  BY DEF EventsInit, Blocked, InHand, running, idle
<1>. QED BY <1>1, <1>3, <1>4 DEF LiveInv

\* Destroying a queue leaves no port of an SPU that leads to it and no SPU that
\* waits in it, also when the program connects a port again: sys_event_queue_destroy
\* disconnects every port in connectedSpuThreads, and an SPU that is blocked keeps it
\* from doing so.
THEOREM QueuesAreThere == EventsSpec => []NoGoneQueue
<1>1. LiveInv => NoGoneQueue
  <2>1. ASSUME LiveInv, NEW s \in SPUs, NEW list \in Seq(Entries), NEW i \in DOMAIN list,
               list = toPPU[s] \/ list = toSPU[s]
        PROVE  list[i].queue \in exists
    <3>1. list[i] \in Entries
      BY <2>1, LenProperties, ElementOfSeq
    <3>2. PICK p \in Ports, q \in Queues : list[i] = entry(p, q) /\ q = list[i].queue
      BY <3>1 DEF Entries, entry
    <3>3. has(list, entry(p, q))
      BY <3>2 DEF has
    <3>4. has(toPPU[s], entry(p, q)) \/ has(toSPU[s], entry(p, q))
      BY <2>1, <3>3
    <3>5. q \in exists
      BY <2>1, <3>4 DEF LiveInv, Leads
    <3>. QED BY <3>2, <3>5
  <2>2. ASSUME LiveInv, NEW s \in SPUs PROVE toPPU[s] \in Seq(Entries) /\ toSPU[s] \in Seq(Entries)
    BY <2>2 DEF LiveInv, LiveTypes
  <2>. QED BY <2>1, <2>2, BlockedTyped DEF NoGoneQueue
<1>. QED BY <1>1, LiveInit, LiveNext, PTL DEF EventsSpec
=============================================================================
