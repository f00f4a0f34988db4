------------------------- MODULE MainMemoryProofs -------------------------
(***************************************************************************)
(* Proofs about MainMemory, for any number of threads, lines, words and    *)
(* values and for any programs: type correctness, the invariant Inv, and   *)
(* what it says of reservations and of the lost-reservation event.         *)
(***************************************************************************)
EXTENDS MainMemory, SequenceTheorems, FiniteSetTheorems, WellFoundedInduction, TLAPS
-----------------------------------------------------------------------------
(* What the methods of the granule vector do to the set of granules in it, *)
(* for vectors of any length over any set of granules.                     *)

\* A nonempty set of naturals has a least element.
LEMMA LeastNatural ==
  ASSUME NEW F, F \subseteq Nat, F # {}
  PROVE  \E m \in F : \A k \in F : m <= k
<1>1. IsWellFoundedOn(OpToRel(<, Nat), Nat) /\ \A k, m \in Nat : k < m => <<k, m>> \in OpToRel(<, Nat)
  BY NatLessThanWellFounded DEF OpToRel
<1>2. \E R : IsWellFoundedOn(R, Nat) /\ \A k, m \in Nat : k < m => <<k, m>> \in R
  BY <1>1
<1>3. PICK R : IsWellFoundedOn(R, Nat) /\ \A k, m \in Nat : k < m => <<k, m>> \in R
  BY <1>2
<1>4. IsWellFoundedOn(R, Nat)
  BY <1>3
<1>5. PICK m \in F : \A k \in F : ~ (<<k, m>> \in R)
  BY <1>4, WFMin
<1>6. \A k \in F : ~ (k < m)
  BY <1>3, <1>5
<1> QED BY <1>6

\* A vector that has an empty slot has a first one.
LEMMA FirstFreeIsASlot ==
  ASSUME NEW S, NEW arr \in Seq(S), exists(arr, Null)
  PROVE  firstFree(arr) \in DOMAIN arr /\ arr[firstFree(arr)] = Null
<1> DEFINE F == {i \in DOMAIN arr : arr[i] = Null}
<1>1. DOMAIN arr = 1 .. Len(arr) /\ Len(arr) \in Nat
  BY LenProperties
<1>2. F \in SUBSET Nat /\ F # {}
  BY <1>1 DEF exists
<1>3. PICK m \in F : \A k \in F : m <= k
  BY <1>2, LeastNatural
<1>4. \E i \in DOMAIN arr : /\ arr[i] = Null
                            /\ \A j \in DOMAIN arr : arr[j] = Null => i <= j
  BY <1>3
<1> QED BY <1>4 DEF firstFree

\* A granule that is in a vector has a last slot.
LEMMA LastIndexIsASlot ==
  ASSUME NEW S, NEW arr \in Seq(S), NEW g, exists(arr, g)
  PROVE  /\ lastIndex(arr, g) \in DOMAIN arr
         /\ arr[lastIndex(arr, g)] = g
<1> DEFINE F == {k \in Nat : k < Len(arr) /\ arr[Len(arr) - k] = g}
<1>1. DOMAIN arr = 1 .. Len(arr) /\ Len(arr) \in Nat
  BY LenProperties
<1>2. PICK i \in DOMAIN arr : arr[i] = g
  BY DEF exists
<1>3. Len(arr) - i \in Nat /\ Len(arr) - i < Len(arr) /\ Len(arr) - (Len(arr) - i) = i
  BY <1>1
<1>4. F \in SUBSET Nat /\ F # {}
  BY <1>2, <1>3
<1>5. PICK m \in F : \A k \in F : m <= k
  BY <1>4, LeastNatural
<1>6. Len(arr) - m \in DOMAIN arr /\ arr[Len(arr) - m] = g
  BY <1>1, <1>5
<1>7. ASSUME NEW j \in DOMAIN arr, arr[j] = g
      PROVE  j <= Len(arr) - m
  <2>1. Len(arr) - j \in Nat /\ Len(arr) - j < Len(arr) /\ Len(arr) - (Len(arr) - j) = j
    BY <1>1
  <2>2. Len(arr) - j \in F
    BY <2>1, <1>7
  <2> QED BY <2>1, <2>2, <1>5, <1>1
<1>8. \E n \in DOMAIN arr : /\ arr[n] = g
                            /\ \A j \in DOMAIN arr : arr[j] = g => j <= n
  BY <1>6, <1>7
<1> QED BY <1>8 DEF lastIndex

\* insert adds the granule and loses none.
THEOREM InsertAdds ==
  ASSUME NEW S, Null \in S, NEW arr \in Seq(S), NEW g \in S, g # Null
  PROVE  /\ insert(arr, g) \in Seq(S)
         /\ \A h \in S \ {Null} : exists(insert(arr, g), h) <=> (h = g \/ exists(arr, h))
<1>1. DOMAIN arr = 1 .. Len(arr) /\ Len(arr) \in Nat
  BY LenProperties
<1>2. CASE exists(arr, Null)
  <2> DEFINE i == firstFree(arr)
             new == [arr EXCEPT ![i] = g]
  <2>1. i \in 1 .. Len(arr) /\ arr[i] = Null
    BY <1>1, <1>2, FirstFreeIsASlot
  <2> HIDE DEF i
  <2>2. new \in Seq(S) /\ Len(new) = Len(arr)
    BY <2>1, ExceptSeq
  <2>3. DOMAIN new = DOMAIN arr /\ new[i] = g
    BY <2>1, <1>1
  <2>4. \A j \in DOMAIN arr : j # i => new[j] = arr[j]
    OBVIOUS
  <2>5. \A h \in S \ {Null} : exists(new, h) <=> (h = g \/ exists(arr, h))
    BY <2>1, <2>3, <2>4, <1>1 DEF exists
  <2>6. insert(arr, g) = new
    BY <1>2 DEF insert, i
  <2> QED BY <2>2, <2>5, <2>6
<1>3. CASE ~exists(arr, Null)
  <2> DEFINE new == Append(arr, g)
  <2>1. /\ new \in Seq(S)
        /\ Len(new) = Len(arr) + 1
        /\ \A j \in 1 .. Len(arr) : new[j] = arr[j]
        /\ new[Len(arr) + 1] = g
    BY AppendProperties
  <2>2. DOMAIN new = 1 .. Len(arr) + 1
    BY <2>1, LenProperties
  <2> HIDE DEF new
  <2>3. \A h \in S \ {Null} : exists(new, h) <=> (h = g \/ exists(arr, h))
    BY <2>1, <2>2, <1>1 DEF exists
  <2> QED BY <1>3, <2>1, <2>3 DEF insert, new
<1> QED BY <1>2, <1>3

\* clearOne removes the granule and no other.
THEOREM ClearOneRemoves ==
  ASSUME NEW S, Null \in S, NEW arr \in Seq(S), NEW g \in S, g # Null
  PROVE  /\ clearOne(arr, g) \in Seq(S)
         /\ \A h \in S \ {Null} : exists(clearOne(arr, g), h) <=> (h # g /\ exists(arr, h))
<1>1. DOMAIN arr = 1 .. Len(arr) /\ Len(arr) \in Nat /\ \A i \in DOMAIN arr : arr[i] \in S
  BY LenProperties, ElementOfSeq
<1>2. clearOne(arr, g) \in [1 .. Len(arr) -> S]
  BY <1>1 DEF clearOne
<1>3. clearOne(arr, g) \in Seq(S)
  BY <1>1, <1>2, SeqDef
<1>4. ASSUME NEW h \in S \ {Null}
      PROVE  exists(clearOne(arr, g), h) <=> (h # g /\ exists(arr, h))
  BY <1>1 DEF exists, clearOne
<1> QED BY <1>3, <1>4

\* clearExcept keeps the granule, if it is there, and removes every other.
THEOREM ClearExceptKeepsOne ==
  ASSUME NEW S, Null \in S, NEW arr \in Seq(S), NEW g \in S
  PROVE  /\ clearExcept(arr, g) \in Seq(S)
         /\ \A h \in S \ {Null} : exists(clearExcept(arr, g), h) <=> (h = g /\ exists(arr, h))
<1>1. CASE g = Null \/ ~exists(arr, g)
  <2>1. clearExcept(arr, g) = << >>
    BY <1>1 DEF clearExcept
  <2>2. << >> \in Seq(S) /\ DOMAIN << >> = {}
    BY EmptySeq
  <2> QED BY <1>1, <2>1, <2>2 DEF exists
<1>2. CASE g # Null /\ exists(arr, g)
  <2> DEFINE n == lastIndex(arr, g)
             new == [i \in 1 .. n |-> IF arr[i] = g THEN g ELSE Null]
  <2>1. DOMAIN arr = 1 .. Len(arr) /\ Len(arr) \in Nat
    BY LenProperties
  <2>2. n \in 1 .. Len(arr) /\ arr[n] = g
    BY <1>2, <2>1, LastIndexIsASlot
  <2> HIDE DEF n
  <2>3. n \in Nat /\ n \in 1 .. n /\ new \in [1 .. n -> S]
    BY <2>1, <2>2
  <2>4. new \in Seq(S)
    BY <2>3, SeqDef
  <2>5. \A h \in S \ {Null} : exists(new, h) <=> (h = g /\ exists(arr, h))
    BY <1>2, <2>2, <2>3 DEF exists
  <2> QED BY <1>2, <2>4, <2>5 DEF clearExcept, n
<1> QED BY <1>1, <1>2

\* clear leaves no granule.
THEOREM ClearRemovesAll ==
  ASSUME NEW S, NEW arr
  PROVE  clear(arr) \in Seq(S) /\ \A h : ~exists(clear(arr), h)
BY EmptySeq DEF clear, exists

\* The holders are the granules that exist in the vector.
LEMMA HoldersExist ==
  ASSUME NEW arr, NEW g, g # Null
  PROVE  g \in holders(arr) <=> exists(arr, g)
BY DEF holders, exists
-----------------------------------------------------------------------------
(* The memory.                                                             *)

LEMMA LinesFacts == Lines \subseteq Nat /\ Null \notin Lines /\ Null \notin Agents /\ Null \notin Threads
BY ConstantsAssumption DEF Lines, Agents

LEMMA LineFacts ==
  ASSUME NEW l \in Lines
  PROVE  l \in Nat /\ l + 1 # l /\ l # Null
<1>1. l \in Nat /\ l # Null
  BY LinesFacts
<1> QED BY <1>1

\* The first line of a nonempty set of locations.
LEMMA FirstLineExists ==
  ASSUME NEW R \in SUBSET Loc, R # {}
  PROVE  /\ FirstLine(R) \in LinesOf(R)
         /\ FirstLine(R) \in Lines
<1>1. LinesOf(R) \subseteq Lines /\ LinesOf(R) # {}
  BY DEF LinesOf, Loc
<1>2. \E l \in LinesOf(R) : \A k \in LinesOf(R) : l <= k
  BY <1>1, LinesFacts, LeastNatural
<1> QED BY <1>1, <1>2 DEF FirstLine

\* What Forget leaves alone and what it changes.
LEMMA ForgetEffect ==
  ASSUME TypeOK, NEW a, NEW gone, Forget(a, gone)
  PROVE  /\ line' \in [Threads -> Lines \cup {Null}]
         /\ notify' \in [Threads -> BOOLEAN]
         /\ pending' \in [Threads -> BOOLEAN]
         /\ \A t \in Threads :
              /\ line'[t] = IF t \in gone THEN Null ELSE line[t]
              /\ t \notin gone => notify'[t] = notify[t]
              /\ pending[t] => pending'[t]
              /\ t \in gone /\ notify[t] /\ t # a => pending'[t]
BY DEF TypeOK, Forget

\* destroyExcept takes the reservations of all the other threads on the lines.
LEMMA DestroyExceptEffect ==
  ASSUME TypeOK, ReservationLinked, NEW a \in Agents, NEW ls \in SUBSET Lines,
         DestroyExcept(a, ls)
  PROVE  /\ granules' \in [Lines -> Seq(Threads \cup {Null})]
         /\ line' \in [Threads -> Lines \cup {Null}]
         /\ notify' \in [Threads -> BOOLEAN]
         /\ pending' \in [Threads -> BOOLEAN]
         /\ ReservationLinked'
         /\ \A t \in Threads :
              /\ line'[t] = IF line[t] \in ls /\ t # a THEN Null ELSE line[t]
              /\ line'[t] = line[t] => notify'[t] = notify[t]
              /\ pending[t] => pending'[t]
              /\ line'[t] # line[t] /\ notify[t] => pending'[t]
<1> DEFINE S == Threads \cup {Null}
           g == granule(a)
           gone == (UNION {holders(granules[l]) : l \in ls}) \ {g}
<1>1. g \in S /\ \A t \in Threads : t = g <=> t = a
  BY LinesFacts DEF granule
<1>2. \A l \in Lines : granules[l] \in Seq(S)
  BY DEF TypeOK
<1>3. \A l \in Lines : /\ clearExcept(granules[l], g) \in Seq(S)
                       /\ \A h \in Threads : exists(clearExcept(granules[l], g), h)
                                               <=> (h = g /\ exists(granules[l], h))
  <2> TAKE l \in Lines
  <2> HIDE DEF g
  <2>1. /\ clearExcept(granules[l], g) \in Seq(S)
        /\ \A h \in S \ {Null} : exists(clearExcept(granules[l], g), h) <=> (h = g /\ exists(granules[l], h))
    BY <1>1, <1>2, ClearExceptKeepsOne
  <2> QED BY <2>1, LinesFacts
<1>4. \A t \in Threads : t \in gone <=> (line[t] \in ls /\ t # a)
  <2> TAKE t \in Threads
  <2>1. \A l \in Lines : t \in holders(granules[l]) <=> line[t] = l
    BY HoldersExist, LinesFacts DEF ReservationLinked
  <2>2. t \in gone <=> (t # g /\ \E l \in ls : t \in holders(granules[l]))
    OBVIOUS
  <2>3. (\E l \in ls : t \in holders(granules[l])) <=> line[t] \in ls
    BY <2>1
  <2> QED BY <2>2, <2>3, <1>1
<1>5. /\ granules' = [l \in Lines |-> IF l \in ls THEN clearExcept(granules[l], g) ELSE granules[l]]
      /\ Forget(a, gone)
  BY DEF DestroyExcept
<1> HIDE DEF g, gone
<1>6. granules' \in [Lines -> Seq(S)]
  BY <1>2, <1>3, <1>5
<1>7. /\ line' \in [Threads -> Lines \cup {Null}]
      /\ notify' \in [Threads -> BOOLEAN]
      /\ pending' \in [Threads -> BOOLEAN]
      /\ \A t \in Threads :
              /\ line'[t] = IF t \in gone THEN Null ELSE line[t]
              /\ t \notin gone => notify'[t] = notify[t]
              /\ pending[t] => pending'[t]
              /\ t \in gone /\ notify[t] /\ t # a => pending'[t]
  BY <1>5, ForgetEffect
<1>8. \A t \in Threads : line'[t] = IF line[t] \in ls /\ t # a THEN Null ELSE line[t]
  BY <1>4, <1>7
<1>9. ReservationLinked'
  <2> SUFFICES ASSUME NEW t \in Threads, NEW l \in Lines
               PROVE  exists(granules'[l], t) <=> line'[t] = l
    BY DEF ReservationLinked
  <2>1. exists(granules[l], t) <=> line[t] = l
    BY DEF ReservationLinked
  <2>2. CASE l \in ls
    <3>1. exists(granules'[l], t) <=> (t = a /\ line[t] = l)
      BY <2>1, <2>2, <1>1, <1>3, <1>5
    <3> QED BY <3>1, <2>2, <1>8, LinesFacts
  <2>3. CASE l \notin ls
    <3>1. exists(granules'[l], t) <=> line[t] = l
      BY <2>1, <2>3, <1>5
    <3> QED BY <3>1, <2>3, <1>8, LinesFacts
  <2> QED BY <2>2, <2>3
<1>10. \A t \in Threads :
              /\ line'[t] = line[t] => notify'[t] = notify[t]
              /\ pending[t] => pending'[t]
              /\ line'[t] # line[t] /\ notify[t] => pending'[t]
  BY <1>4, <1>7, LinesFacts
<1> QED BY <1>6, <1>7, <1>8, <1>9, <1>10

\* destroySingleLine takes every reservation on the line.
LEMMA DestroySingleLineEffect ==
  ASSUME TypeOK, ReservationLinked, NEW a, NEW l \in Lines, DestroySingleLine(a, l)
  PROVE  /\ granules' \in [Lines -> Seq(Threads \cup {Null})]
         /\ line' \in [Threads -> Lines \cup {Null}]
         /\ notify' \in [Threads -> BOOLEAN]
         /\ pending' \in [Threads -> BOOLEAN]
         /\ ReservationLinked'
         /\ \A t \in Threads :
              /\ line'[t] = IF line[t] = l THEN Null ELSE line[t]
              /\ line'[t] = line[t] => notify'[t] = notify[t]
              /\ pending[t] => pending'[t]
              /\ line'[t] # line[t] /\ notify[t] /\ t # a => pending'[t]
<1> DEFINE gone == holders(granules[l])
<1>1. \A t \in Threads : t \in gone <=> line[t] = l
  BY HoldersExist, LinesFacts DEF ReservationLinked
<1>2. granules' = [granules EXCEPT ![l] = clear(@)] /\ Forget(a, gone)
  BY DEF DestroySingleLine
<1>3. clear(granules[l]) \in Seq(Threads \cup {Null}) /\ \A t : ~exists(clear(granules[l]), t)
  BY ClearRemovesAll
<1>4. granules' \in [Lines -> Seq(Threads \cup {Null})]
  BY <1>2, <1>3 DEF TypeOK
<1> HIDE DEF gone
<1>5. /\ line' \in [Threads -> Lines \cup {Null}]
      /\ notify' \in [Threads -> BOOLEAN]
      /\ pending' \in [Threads -> BOOLEAN]
      /\ \A t \in Threads :
              /\ line'[t] = IF t \in gone THEN Null ELSE line[t]
              /\ t \notin gone => notify'[t] = notify[t]
              /\ pending[t] => pending'[t]
              /\ t \in gone /\ notify[t] /\ t # a => pending'[t]
  BY <1>2, ForgetEffect
<1>6. ReservationLinked'
  <2> SUFFICES ASSUME NEW t \in Threads, NEW k \in Lines
               PROVE  exists(granules'[k], t) <=> line'[t] = k
    BY DEF ReservationLinked
  <2>1. exists(granules[k], t) <=> line[t] = k
    BY DEF ReservationLinked
  <2>2. granules'[k] = IF k = l THEN clear(granules[l]) ELSE granules[k]
    BY <1>2 DEF TypeOK
  <2> QED BY <2>1, <2>2, <1>1, <1>3, <1>5, LinesFacts
<1> QED BY <1>1, <1>4, <1>5, <1>6, LinesFacts
-----------------------------------------------------------------------------
(* A step of agent a, as the others see it: their locals are their own;    *)
(* they may lose a reservation, and then learn of it; memory changes only  *)
(* under a lock that a keeps, and a lets go of a line it has written only  *)
(* when it has taken the reservations on it.                               *)

Rely(a) ==
  /\ \A b \in Agents \ {a} :
       /\ pc'[b] = pc[b] /\ cur'[b] = cur[b] /\ oth'[b] = oth[b]
       /\ todo'[b] = todo[b] /\ val'[b] = val[b] /\ buf'[b] = buf[b]
  /\ \A t \in Threads \ {a} :
       /\ view'[t] = view[t] /\ watch'[t] = watch[t]
       /\ pending[t] => pending'[t]
       /\ \/ line'[t] = line[t] /\ notify'[t] = notify[t]
          \/ line'[t] = Null /\ (notify[t] => pending'[t])
  /\ \A l \in Lines : \/ lock'[l] = lock[l]
                      \/ lock[l] \in {Null, a} /\ lock'[l] \in {Null, a}
  /\ \A x \in Loc : mem'[x] = mem[x] \/ (Writing(a, x[1]) /\ Writing(a, x[1])')
  /\ \A l \in Lines, t \in Threads \ {a} :
       Writing(a, l) /\ ~Writing(a, l)' => line'[t] # l

\* A writer holds the lock of the line it writes.
LEMMA WriterHolds ==
  ASSUME NEW a \in Agents, NEW l, Writing(a, l)
  PROVE  Holds(a, l)
BY DEF Writing, Holds, Hand, Copying, HoldsOne

\* What the invariant says of one agent survives the steps of the others.
LEMMA OthersKeepInv ==
  ASSUME Inv, NEW a \in Agents, Rely(a), NEW b \in Agents \ {a}
  PROVE  OwnInv(b)'
<1>1. OwnInv(b) /\ OwnInv(a) /\ TypeOK
  BY DEF Inv
<1>2. /\ pc'[b] = pc[b] /\ cur'[b] = cur[b] /\ oth'[b] = oth[b]
      /\ todo'[b] = todo[b] /\ val'[b] = val[b] /\ buf'[b] = buf[b]
  BY DEF Rely
<1>3. LocalsShaped(b)'
  BY <1>1, <1>2 DEF OwnInv, LocalsShaped
<1>4. \A l : Holds(b, l)' <=> Holds(b, l)
  BY <1>2 DEF Holds, Hand
<1>5. LockHeld(b)'
  <2> SUFFICES ASSUME NEW l \in Lines PROVE lock'[l] = b <=> Holds(b, l)'
    BY DEF LockHeld
  <2>1. lock[l] = b <=> Holds(b, l)
    BY <1>1 DEF OwnInv, LockHeld
  <2>2. \/ lock'[l] = lock[l]
        \/ lock[l] \in {Null, a} /\ lock'[l] \in {Null, a}
    BY DEF Rely
  <2> QED BY <2>1, <2>2, <1>4, LinesFacts
<1>6. ASSUME b \in Threads
      PROVE  /\ ReservationPlaced(b)' /\ BufferFaithful(b)'
             /\ Unchanged(b)' /\ Watched(b)'
  <2>1. /\ view'[b] = view[b] /\ watch'[b] = watch[b]
        /\ pending[b] => pending'[b]
        /\ \/ line'[b] = line[b] /\ notify'[b] = notify[b]
           \/ line'[b] = Null /\ (notify[b] => pending'[b])
    BY <1>6 DEF Rely
  <2>2. ReservationPlaced(b) /\ BufferFaithful(b) /\ Unchanged(b) /\ Watched(b)
    BY <1>1, <1>6 DEF OwnInv
  <2>3. ReservationPlaced(b)'
    BY <1>2, <2>1, <2>2 DEF ReservationPlaced
  <2>4. Watched(b)'
    BY <2>1, <2>2 DEF Watched
  <2>5. pc[b] = "lr_copy" => \A w \in Words : mem'[<<cur[b], w>>] = mem[<<cur[b], w>>]
    <3> SUFFICES ASSUME pc[b] = "lr_copy", NEW w \in Words
                 PROVE  mem'[<<cur[b], w>>] = mem[<<cur[b], w>>]
      OBVIOUS
    <3>1. cur[b] \in Lines /\ Holds(b, cur[b])
      BY <1>1 DEF OwnInv, LocalsShaped, Unlocked, Holds, HoldsOne
    <3>2. lock[cur[b]] = b
      BY <1>1, <3>1 DEF OwnInv, LockHeld
    <3>3. ~Writing(a, cur[b])
      BY <1>1, <3>1, <3>2, WriterHolds DEF OwnInv, LockHeld
    <3>4. <<cur[b], w>> \in Loc /\ <<cur[b], w>>[1] = cur[b]
      BY <3>1 DEF Loc
    <3> QED BY <3>3, <3>4 DEF Rely
  <2>6. BufferFaithful(b)'
    BY <1>2, <2>2, <2>5 DEF BufferFaithful
  <2>7. Unchanged(b)'
    <3> SUFFICES ASSUME NEW w \in Words, line'[b] # Null, view'[b][w] # Null,
                        (\A c \in Agents \ {b} : ~Writing(c, line[b]))'
                 PROVE  mem'[<<line'[b], w>>] = view'[b][w]
      BY DEF Unchanged
    <3>1. line'[b] = line[b] /\ line[b] \in Lines
      BY <1>1, <1>6, <2>1 DEF TypeOK
    <3>2. ASSUME NEW c \in Agents \ {b} PROVE ~Writing(c, line[b])
      <4>1. PICK l \in Lines : l = line[b]
        BY <3>1
      <4>2. ~Writing(c, l)'
        BY <4>1, <3>1 DEF Writing, Hand
      <4>3. CASE c = a
        BY <4>1, <4>2, <4>3, <3>1, <1>6 DEF Rely
      <4>4. CASE c # a
        <5>1. pc'[c] = pc[c] /\ cur'[c] = cur[c] /\ oth'[c] = oth[c]
          BY <4>4 DEF Rely
        <5> QED BY <5>1, <4>1, <4>2 DEF Writing, Hand
      <4> QED BY <4>3, <4>4
    <3>3. mem[<<line[b], w>>] = view[b][w]
      BY <2>1, <2>2, <3>1, <3>2 DEF Unchanged
    <3>4. <<line[b], w>> \in Loc /\ <<line[b], w>>[1] = line[b]
      BY <3>1 DEF Loc
    <3>5. mem'[<<line[b], w>>] = mem[<<line[b], w>>]
      BY <3>1, <3>2, <3>4 DEF Rely
    <3> QED BY <2>1, <3>1, <3>3, <3>5
  <2> QED BY <2>3, <2>4, <2>6, <2>7
<1> QED BY <1>3, <1>5, <1>6 DEF OwnInv

\* So a step preserves the invariant if it preserves what the invariant says of
\* its own agent.
LEMMA StepKeepsInv ==
  ASSUME Inv, NEW a \in Agents, Rely(a), TypeOK', ReservationLinked', OwnInv(a)'
  PROVE  Inv'
BY OthersKeepInv DEF Inv

\* A step of t that touches neither memory nor its reservation.
LEMMA UnchangedKept ==
  ASSUME Inv, NEW t \in Threads, Rely(t), mem' = mem, line'[t] = line[t], view'[t] = view[t]
  PROVE  Unchanged(t)'
<1> SUFFICES ASSUME NEW w \in Words, line'[t] # Null, view'[t][w] # Null,
                    (\A c \in Agents \ {t} : ~Writing(c, line[t]))'
             PROVE  mem'[<<line'[t], w>>] = view'[t][w]
  BY DEF Unchanged
<1>1. ASSUME NEW c \in Agents \ {t} PROVE ~Writing(c, line[t])
  <2>1. pc'[c] = pc[c] /\ cur'[c] = cur[c] /\ oth'[c] = oth[c]
    BY DEF Rely
  <2> QED BY <2>1 DEF Writing, Hand
<1>2. Unchanged(t)
  BY DEF Inv, OwnInv, Agents
<1> QED BY <1>1, <1>2 DEF Unchanged
-----------------------------------------------------------------------------
(* The calls: a thread that is idle sets up its locals.                    *)

\* A line begins in itself.
LEMMA LineLocsFacts ==
  ASSUME NEW l \in Lines
  PROVE  LineLocs(l) \in SUBSET Loc /\ FirstLine(LineLocs(l)) = l
<1>1. 1 \in Words
  BY ConstantsAssumption DEF Words
<1>2. LineLocs(l) \in SUBSET Loc /\ <<l, 1>> \in LineLocs(l)
  BY <1>1 DEF LineLocs, Loc
<1>3. \A x \in LineLocs(l) : x[1] = l
  BY DEF LineLocs
<1>4. FirstLine(LineLocs(l)) \in LinesOf(LineLocs(l))
  BY <1>2, FirstLineExists
<1>5. PICK x \in LineLocs(l) : FirstLine(LineLocs(l)) = x[1]
  BY <1>4 DEF LinesOf
<1> QED BY <1>2, <1>3, <1>5

\* The locations of a call, and the line they begin in.
LEMMA ReservedLocsFacts ==
  ASSUME NEW t \in Threads, NEW R \in ReservedLocs(t)
  PROVE  /\ R \in SUBSET Loc
         /\ FirstLine(R) \in Lines
         /\ R \subseteq LineLocs(FirstLine(R))
         /\ t \in Spus => \A w \in Words : <<FirstLine(R), w>> \in R
<1>1. CASE t \in Spus
  <2>1. PICK l \in Lines : R = LineLocs(l)
    BY <1>1 DEF ReservedLocs
  <2>2. R \in SUBSET Loc /\ FirstLine(R) = l
    BY <2>1, LineLocsFacts
  <2> QED BY <2>1, <2>2 DEF LineLocs
<1>2. CASE t \notin Spus
  <2>1. PICK x \in Loc : R = {x}
    BY <1>2 DEF ReservedLocs
  <2>2. R \in SUBSET Loc /\ R # {} /\ LinesOf(R) = {x[1]}
    BY <2>1 DEF LinesOf
  <2>3. FirstLine(R) = x[1]
    BY <2>2, FirstLineExists
  <2> QED BY <1>2, <2>1, <2>2, <2>3, FirstLineExists DEF LineLocs, Loc
<1> QED BY <1>1, <1>2

\* The two lines of a scalar store.
LEMMA ScalarLocsFacts ==
  ASSUME NEW R \in ScalarLocs
  PROVE  /\ R \in SUBSET Loc
         /\ FirstLine(R) \in Lines
         /\ LinesOf(R) # {FirstLine(R)} => FirstLine(R) + 1 \in Lines
<1>1. NLines \in Nat /\ NWords \in Words /\ 1 \in Words
  BY ConstantsAssumption DEF Words
<1>2. CASE \E x \in Loc : R = {x}
  <2>1. PICK x \in Loc : R = {x}
    BY <1>2
  <2>2. R \in SUBSET Loc /\ R # {} /\ LinesOf(R) = {x[1]}
    BY <2>1 DEF LinesOf
  <2> QED BY <2>2, FirstLineExists
<1>3. CASE \E l \in 0 .. NLines - 2 : R = {<<l, NWords>>, <<l + 1, 1>>}
  <2>1. PICK l \in 0 .. NLines - 2 : R = {<<l, NWords>>, <<l + 1, 1>>}
    BY <1>3
  <2>2. l \in Lines /\ l + 1 \in Lines /\ l \in Nat
    BY <1>1 DEF Lines
  <2>3. R \in SUBSET Loc /\ R # {} /\ LinesOf(R) = {l, l + 1}
    BY <1>1, <2>1, <2>2 DEF Loc, LinesOf
  <2>4. \A k \in LinesOf(R) : l <= k
    BY <2>2, <2>3
  <2>5. \E k \in LinesOf(R) : \A j \in LinesOf(R) : k <= j
    BY <2>3, <2>4
  <2>6. FirstLine(R) \in LinesOf(R) /\ FirstLine(R) <= l
    BY <2>3, <2>5 DEF FirstLine
  <2>7. FirstLine(R) = l
    BY <2>2, <2>3, <2>6
  <2> QED BY <2>2, <2>3, <2>7
<1> QED BY <1>2, <1>3 DEF ScalarLocs

\* A call is invisible to the others.
LEMMA CallRely ==
  ASSUME Inv, NEW a \in Agents, pc[a] = "idle",
         UNCHANGED <<mem, lock, granules, line, notify, pending, view>>,
         \A b \in Agents \ {a} :
            /\ pc'[b] = pc[b] /\ cur'[b] = cur[b] /\ oth'[b] = oth[b]
            /\ todo'[b] = todo[b] /\ val'[b] = val[b] /\ buf'[b] = buf[b],
         \A t \in Threads \ {a} : watch'[t] = watch[t]
  PROVE  Rely(a) /\ ReservationLinked'
<1>1. \A l : ~Writing(a, l)
  BY DEF Writing, Copying
<1>2. ReservationLinked'
  BY DEF Inv, ReservationLinked
<1> QED BY <1>1, <1>2 DEF Rely

LEMMA BeginLocals ==
  ASSUME TypeOK, NEW a \in Agents, NEW op, NEW where, NEW l, NEW second, NEW R, NEW v,
         Begin(a, op, where, l, second, R, v)
  PROVE  /\ pc[a] = "idle"
         /\ pc'[a] = where /\ cur'[a] = l /\ oth'[a] = second /\ todo'[a] = R /\ val'[a] = v
         /\ buf' = buf
         /\ \A b \in Agents \ {a} :
            /\ pc'[b] = pc[b] /\ cur'[b] = cur[b] /\ oth'[b] = oth[b]
            /\ todo'[b] = todo[b] /\ val'[b] = val[b] /\ buf'[b] = buf[b]
BY DEF Begin, Goto, TypeOK

LEMMA LoadReserveInv ==
  ASSUME Inv, NEW t \in Threads, NEW R \in ReservedLocs(t), LoadReserve(t, R)
  PROVE  Inv'
<1>1. /\ R \in SUBSET Loc /\ FirstLine(R) \in Lines /\ R \subseteq LineLocs(FirstLine(R))
      /\ t \in Spus => \A w \in Words : <<FirstLine(R), w>> \in R
  BY ReservedLocsFacts
<1>2. TypeOK /\ ReservationLinked /\ OwnInv(t) /\ t \in Agents /\ t \notin Hosts /\ Zero \in Values
  BY ConstantsAssumption DEF Inv, Agents
<1>3. PICK where, l, second :
        /\ Begin(t, "loadReserve", where, l, second, R, Zero)
        /\ \/ where = "lr_old" /\ line[t] # Null /\ l = line[t] /\ second = FirstLine(R)
           \/ where = "lr_lock" /\ line[t] = Null /\ l = FirstLine(R) /\ second = Null
  BY DEF LoadReserve
<1>4. UNCHANGED <<mem, lock, granules, line, notify, pending, marked, view>>
      /\ watch' = [watch EXCEPT ![t] = Null]
  BY DEF LoadReserve, shared
<1>5. TypeOK'
  BY <1>1, <1>2, <1>3, <1>4 DEF TypeOK, Begin, Goto
<1>6. Rely(t) /\ ReservationLinked'
  BY <1>2, <1>3, <1>4, BeginLocals, CallRely DEF TypeOK
<1>7. /\ pc[t] = "idle" /\ buf' = buf
      /\ pc'[t] = where /\ cur'[t] = l /\ oth'[t] = second /\ todo'[t] = R
  BY <1>2, <1>3, BeginLocals
<1>8. LocalsShaped(t)'
  BY <1>1, <1>2, <1>3, <1>7 DEF LocalsShaped, TypeOK, Unlocked
<1>9. LockHeld(t)'
  BY <1>2, <1>3, <1>4, <1>7 DEF OwnInv, LockHeld, Holds, HoldsOne
<1>10. ReservationPlaced(t)' /\ Watched(t)'
  BY <1>2, <1>3, <1>4, <1>7 DEF ReservationPlaced, Watched, TypeOK
<1>11. BufferFaithful(t)'
  BY <1>1, <1>2, <1>3, <1>7 DEF OwnInv, BufferFaithful
<1>12. Unchanged(t)'
  BY <1>4, <1>6, UnchangedKept
<1> QED BY <1>2, <1>5, <1>6, <1>8, <1>9, <1>10, <1>11, <1>12, StepKeepsInv DEF OwnInv

\* The calls other than loadReserve, which sets up more.
LEMMA OtherCallInv ==
  ASSUME Inv, NEW a \in Agents, NEW op, NEW where, NEW l \in Lines \cup {Null},
         NEW second \in Lines \cup {Null}, NEW R \in SUBSET Loc, NEW v \in Values,
         Begin(a, op, where, l, second, R, v),
         where \in {"wc_lock", "uc_lock", "st_lock", "wm_lock", "rm_copy", "rg_lock", "gone"},
         where \notin {"rm_copy", "gone"} => l \in Lines,
         where \in {"st_lock", "wm_lock", "rm_copy"} \/ a \in Threads,
         where \in {"wc_lock", "uc_lock"} => R \subseteq LineLocs(l),
         where = "st_lock" => second # l,
         where = "rg_lock" => line[a] = l,
         where = "gone" => line[a] = Null,
         where \in {"rg_lock", "gone"} => R = {} /\ watch'[a] = Null,
         UNCHANGED <<mem, lock, granules, line, notify, pending, view>>,
         marked' \subseteq Nat,
         watch' \in [Threads -> Lines \cup {Null}],
         \A t \in Threads : watch'[t] = watch[t] \/ (t = a /\ watch'[t] = Null)
  PROVE  Inv'
<1>1. TypeOK /\ ReservationLinked /\ OwnInv(a) /\ (a \in Threads => a \notin Hosts)
  BY ConstantsAssumption DEF Inv
<1>2. TypeOK'
  BY <1>1 DEF TypeOK, Begin, Goto
<1>3. /\ pc[a] = "idle" /\ buf' = buf
      /\ pc'[a] = where /\ cur'[a] = l /\ oth'[a] = second /\ todo'[a] = R
  BY <1>1, BeginLocals
<1>4. Rely(a) /\ ReservationLinked'
  BY <1>1, <1>3, BeginLocals, CallRely
<1>5. LocalsShaped(a)'
  BY <1>1, <1>3 DEF LocalsShaped, Unlocked, HostPcs
<1>6. LockHeld(a)'
  BY <1>1, <1>3 DEF OwnInv, LockHeld, Holds, HoldsOne
<1>7. ASSUME a \in Threads
      PROVE  ReservationPlaced(a)' /\ BufferFaithful(a)' /\ Unchanged(a)' /\ Watched(a)'
  <2>1. ReservationPlaced(a) /\ BufferFaithful(a) /\ Watched(a)
    BY <1>1, <1>7 DEF OwnInv
  <2>2. ReservationPlaced(a)'
    BY <1>3, <2>1 DEF ReservationPlaced
  <2>3. BufferFaithful(a)'
    BY <1>3, <2>1 DEF BufferFaithful
  <2>4. Watched(a)'
    BY <1>7, <2>1 DEF Watched
  <2>5. Unchanged(a)'
    BY <1>4, <1>7, UnchangedKept
  <2> QED BY <2>2, <2>3, <2>4, <2>5
<1> QED BY <1>2, <1>4, <1>5, <1>6, <1>7, StepKeepsInv DEF OwnInv

LEMMA WriteCondInv ==
  ASSUME Inv, NEW t \in Threads, NEW R \in ReservedLocs(t), NEW v \in Gives[t], WriteCond(t, R, v)
  PROVE  Inv'
<1>1. R \in SUBSET Loc /\ FirstLine(R) \in Lines /\ R \subseteq LineLocs(FirstLine(R))
  BY ReservedLocsFacts
<1>2. t \in Agents /\ v \in Values /\ TypeOK
  BY ConstantsAssumption DEF Agents, Inv
<1>3. /\ Begin(t, "writeCond", "wc_lock", FirstLine(R), Null, R, v)
      /\ UNCHANGED <<mem, lock, granules, line, notify, pending, marked, view, watch>>
  BY DEF WriteCond, shared
<1> QED BY <1>1, <1>2, <1>3, OtherCallInv DEF TypeOK

LEMMA WriteUncondInv ==
  ASSUME Inv, NEW t \in Threads, NEW l \in Lines, NEW v \in Gives[t], WriteUncond(t, LineLocs(l), v)
  PROVE  Inv'
<1> DEFINE R == LineLocs(l)
<1>1. R \in SUBSET Loc /\ FirstLine(R) \in Lines /\ R \subseteq LineLocs(FirstLine(R))
  BY LineLocsFacts
<1>2. t \in Agents /\ v \in Values /\ TypeOK
  BY ConstantsAssumption DEF Agents, Inv
<1>3. /\ Begin(t, "writeUncond", "uc_lock", FirstLine(R), Null, R, v)
      /\ UNCHANGED <<mem, lock, granules, line, notify, pending, marked, view, watch>>
  BY DEF WriteUncond, shared
<1> HIDE DEF R
<1> QED BY <1>1, <1>2, <1>3, OtherCallInv DEF TypeOK

LEMMA StoreInv ==
  ASSUME Inv, NEW a \in Agents, NEW R \in ScalarLocs, NEW v \in Gives[a], Store(a, R, v)
  PROVE  Inv'
<1>1. /\ R \in SUBSET Loc /\ FirstLine(R) \in Lines
      /\ LinesOf(R) # {FirstLine(R)} => FirstLine(R) + 1 \in Lines
  BY ScalarLocsFacts
<1>2. v \in Values /\ TypeOK
  BY ConstantsAssumption DEF Inv
<1>3. PICK second \in Lines \cup {Null} :
        Begin(a, "store", "st_lock", FirstLine(R), second, R, v) /\ second # FirstLine(R)
  <2>1. FirstLine(R) \in Nat /\ FirstLine(R) + 1 # FirstLine(R) /\ FirstLine(R) # Null
    BY <1>1, LineFacts
  <2>2. CASE LinesOf(R) = {FirstLine(R)}
    BY <2>1, <2>2 DEF Store
  <2>3. CASE LinesOf(R) # {FirstLine(R)}
    BY <1>1, <2>1, <2>3 DEF Store
  <2> QED BY <2>2, <2>3
<1>4. UNCHANGED <<mem, lock, granules, line, notify, pending, marked, view, watch>>
  BY DEF Store, shared
<1> QED BY <1>1, <1>2, <1>3, <1>4, OtherCallInv DEF TypeOK

\* Pages are numbered from zero.
LEMMA PageFacts ==
  ASSUME NEW l \in Nat
  PROVE  page(l) \in Nat
<1>1. LinesPerPage \in Nat \ {0}
  BY ConstantsAssumption
<1> QED BY <1>1 DEF page

LEMMA BlockEndFacts ==
  ASSUME NEW R \in SUBSET Loc, R # {}
  PROVE  blockEnd(R) \in Nat
<1> DEFINE F == {NLines - l : l \in LinesOf(R)}
<1>1. LinesOf(R) \subseteq Lines /\ LinesOf(R) # {} /\ NLines \in Nat
  BY ConstantsAssumption DEF LinesOf, Loc
<1>2. F \subseteq Nat /\ F # {}
  BY <1>1 DEF Lines
<1>3. PICK m \in F : \A k \in F : m <= k
  BY <1>2, LeastNatural
<1>4. PICK l \in LinesOf(R) : m = NLines - l
  BY <1>3
<1>5. ASSUME NEW k \in LinesOf(R) PROVE k <= l
  <2>1. NLines - l <= NLines - k
    BY <1>3, <1>4
  <2> QED BY <2>1, <1>1 DEF Lines
<1>6. \E n \in LinesOf(R) : \A k \in LinesOf(R) : k <= n
  BY <1>5
<1> DEFINE last == CHOOSE n \in LinesOf(R) : \A k \in LinesOf(R) : k <= n
<1>7. last \in LinesOf(R)
  BY <1>6
<1>8. blockEnd(R) = IF <<last, NWords>> \in R THEN last + 1 ELSE last
  BY DEF blockEnd
<1> HIDE DEF last
<1>9. last \in Nat
  BY <1>1, <1>7, LinesFacts
<1> QED BY <1>8, <1>9

LEMMA WriteMemoryInv ==
  ASSUME Inv, NEW a \in Agents, NEW R \in Blocks, NEW v \in Gives[a], WriteMemory(a, R, v)
  PROVE  Inv'
<1>1. R \in SUBSET Loc /\ R # {} /\ FirstLine(R) \in Lines
  BY FirstLineExists DEF Blocks
<1>2. v \in Values /\ TypeOK
  BY ConstantsAssumption DEF Inv
<1>3. /\ Begin(a, "writeMemory", "wm_lock", FirstLine(R), Null, R, v)
      /\ UNCHANGED <<mem, lock, granules, line, notify, pending, view, watch>>
      /\ marked' = markBlock(R)
  BY DEF WriteMemory
<1>4. page(FirstLine(R)) \in Nat /\ page(blockEnd(R)) \in Nat
  BY <1>1, LinesFacts, PageFacts, BlockEndFacts
<1>5. marked' \subseteq Nat
  <2>1. page(FirstLine(R)) .. page(blockEnd(R)) \subseteq Nat
    BY <1>4
  <2> QED BY <2>1, <1>2, <1>3 DEF markBlock, TypeOK
<1>6. watch' \in [Threads -> Lines \cup {Null}]
  BY <1>2, <1>3 DEF TypeOK
<1> QED BY <1>1, <1>2, <1>3, <1>5, <1>6, OtherCallInv

LEMMA ReadMemoryInv ==
  ASSUME Inv, NEW a \in Agents, NEW R \in Blocks, ReadMemory(a, R)
  PROVE  Inv'
<1>1. R \in SUBSET Loc /\ Zero \in Values /\ TypeOK
  BY ConstantsAssumption DEF Blocks, Inv
<1>2. /\ Begin(a, "readMemory", "rm_copy", Null, Null, R, Zero)
      /\ UNCHANGED <<mem, lock, granules, line, notify, pending, marked, view, watch>>
  BY DEF ReadMemory, shared
<1> QED BY <1>1, <1>2, OtherCallInv DEF TypeOK

LEMMA DestroyInv ==
  ASSUME Inv, NEW t \in Threads, Destroy(t)
  PROVE  Inv'
<1>1. Zero \in Values /\ TypeOK /\ t \in Agents
  BY ConstantsAssumption DEF Inv, Agents
<1>2. PICK where \in {"rg_lock", "gone"}, l \in Lines \cup {Null} :
        /\ Begin(t, "destroy", where, l, Null, {}, Zero)
        /\ where = "rg_lock" => line[t] = l /\ l \in Lines
        /\ where = "gone" => line[t] = Null
  BY <1>1 DEF Destroy, TypeOK
<1>3. /\ UNCHANGED <<mem, lock, granules, line, notify, pending, marked, view>>
      /\ watch' = [watch EXCEPT ![t] = Null]
  BY DEF Destroy, shared
<1>4. /\ watch' \in [Threads -> Lines \cup {Null}]
      /\ \A u \in Threads : watch'[u] = watch[u] \/ (u = t /\ watch'[u] = Null)
  BY <1>1, <1>3 DEF TypeOK
<1> QED BY <1>1, <1>2, <1>3, <1>4, OtherCallInv DEF TypeOK

\* SpuEvent::acknowledge is one step.
LEMMA AcknowledgeInv ==
  ASSUME Inv, NEW t \in Threads, Acknowledge(t)
  PROVE  Inv'
<1>1. TypeOK /\ OwnInv(t) /\ t \in Agents
  BY DEF Inv, Agents
<1>2. TypeOK'
  BY <1>1 DEF TypeOK, Acknowledge, local
<1>3. Rely(t) /\ ReservationLinked'
  <2>1. \A l : ~Writing(t, l)
    BY DEF Acknowledge, Writing, Copying
  <2>2. \A u \in Threads \ {t} : pending'[u] = pending[u] /\ watch'[u] = watch[u]
    BY <1>1 DEF Acknowledge, TypeOK
  <2>3. ReservationLinked'
    BY DEF Inv, ReservationLinked, Acknowledge
  <2> QED BY <2>1, <2>2, <2>3 DEF Acknowledge, local, Rely
<1>4. LocalsShaped(t)' /\ LockHeld(t)' /\ ReservationPlaced(t)' /\ BufferFaithful(t)'
  BY <1>1 DEF Acknowledge, local, OwnInv, LocalsShaped, LockHeld, Holds, Hand, ReservationPlaced, BufferFaithful
<1>5. Watched(t)'
  BY <1>1 DEF Acknowledge, Watched, TypeOK
<1>6. Unchanged(t)'
  BY <1>3, UnchangedKept DEF Acknowledge
<1> QED BY <1>1, <1>2, <1>3, <1>4, <1>5, <1>6, StepKeepsInv DEF OwnInv
-----------------------------------------------------------------------------
(* The steps inside a call.                                                *)

\* Taking a free lock: the step changes the lock and the program counter only.
LEMMA AcquireInv ==
  ASSUME Inv, NEW a \in Agents, NEW l \in Lines, NEW where, Acquire(a, l),
         pc' = [pc EXCEPT ![a] = where],
         UNCHANGED <<mem, granules, line, notify, pending, marked,
                     cur, oth, todo, val, buf, view, watch>>,
         \/ pc[a] = "lr_old" /\ where = "lr_drop" /\ l = cur[a]
         \/ pc[a] = "lr_lock" /\ where = "lr_copy" /\ l = cur[a]
         \/ pc[a] = "wc_lock" /\ where = "wc_check" /\ l = cur[a]
         \/ pc[a] = "uc_lock" /\ where = "uc_copy" /\ l = cur[a]
         \/ pc[a] = "st_lock" /\ where = "st_copy" /\ l = cur[a] /\ oth[a] = Null
         \/ pc[a] = "st_lock" /\ where = "st_next" /\ l = cur[a] /\ oth[a] # Null
         \/ pc[a] = "st_next" /\ where = "st_copy" /\ l = oth[a]
         \/ pc[a] = "wm_lock" /\ where = "wm_copy" /\ l = cur[a]
         \/ pc[a] = "rg_lock" /\ where = "rg_clear" /\ l = cur[a]
  PROVE  Inv'
<1>1. TypeOK /\ ReservationLinked /\ OwnInv(a)
  BY DEF Inv
<1>2. pc'[a] = where /\ \A b \in Agents \ {a} : pc'[b] = pc[b]
  BY <1>1 DEF TypeOK
<1>3. TypeOK'
  BY <1>1 DEF TypeOK, Acquire
<1>4. Rely(a) /\ ReservationLinked'
  <2>1. \A k : ~Writing(a, k)
    BY DEF Writing, Copying
  <2>2. \A k \in Lines : \/ lock'[k] = lock[k]
                         \/ lock[k] \in {Null, a} /\ lock'[k] \in {Null, a}
    BY <1>1 DEF Acquire, TypeOK
  <2>3. ReservationLinked'
    BY <1>1 DEF ReservationLinked
  <2> QED BY <1>2, <2>1, <2>2, <2>3 DEF Rely
<1>5. LocalsShaped(a)'
  BY <1>1, <1>2 DEF OwnInv, LocalsShaped, Unlocked, HostPcs, TypeOK
<1>6. LockHeld(a)'
  <2> SUFFICES ASSUME NEW k \in Lines PROVE lock'[k] = a <=> Holds(a, k)'
    BY DEF LockHeld
  <2>1. lock[k] = a <=> Holds(a, k)
    BY <1>1 DEF OwnInv, LockHeld
  <2>2. lock'[k] = a <=> (k = l \/ lock[k] = a)
    BY <1>1, LinesFacts DEF Acquire, TypeOK
  <2>3. cur[a] \in Lines /\ (pc[a] = "st_next" => oth[a] \in Lines)
    BY <1>1 DEF OwnInv, LocalsShaped, Unlocked
  <2>4. Holds(a, k)' <=> (k = l \/ Holds(a, k))
    BY <1>2, <2>3, LinesFacts DEF Holds, Hand, HoldsOne
  <2> QED BY <2>1, <2>2, <2>4
<1>7. ASSUME a \in Threads
      PROVE  ReservationPlaced(a)' /\ BufferFaithful(a)' /\ Unchanged(a)' /\ Watched(a)'
  <2>1. ReservationPlaced(a) /\ BufferFaithful(a) /\ Watched(a)
    BY <1>1, <1>7 DEF OwnInv
  <2>2. ReservationPlaced(a)'
    BY <1>2, <2>1 DEF ReservationPlaced
  <2>3. BufferFaithful(a)'
    BY <1>2, <2>1 DEF BufferFaithful
  <2>4. Watched(a)'
    BY <2>1 DEF Watched
  <2>5. Unchanged(a)'
    BY <1>4, <1>7, UnchangedKept
  <2> QED BY <2>2, <2>3, <2>4, <2>5
<1> QED BY <1>3, <1>4, <1>5, <1>6, <1>7, StepKeepsInv DEF OwnInv

\* The lines a thread asks for are lines.
LEMMA LockStepsInv ==
  ASSUME Inv, NEW a \in Agents,
         \/ LrLockOld(a) \/ LrLock(a) \/ WcLock(a) \/ StLock(a) \/ StLockNext(a)
         \/ WmLock(a) \/ RgLock(a)
  PROVE  Inv'
<1>1. LocalsShaped(a)
  BY DEF Inv, OwnInv
<1>2. CASE LrLockOld(a)
  BY <1>1, <1>2, AcquireInv DEF LrLockOld, Goto, LocalsShaped, Unlocked
<1>3. CASE LrLock(a)
  BY <1>1, <1>3, AcquireInv DEF LrLock, Goto, LocalsShaped, Unlocked
<1>4. CASE WcLock(a)
  BY <1>1, <1>4, AcquireInv DEF WcLock, Goto, LocalsShaped, Unlocked
<1>5. CASE StLock(a)
  BY <1>1, <1>5, AcquireInv DEF StLock, Goto, LocalsShaped, Unlocked
<1>6. CASE StLockNext(a)
  BY <1>1, <1>6, AcquireInv DEF StLockNext, Goto, LocalsShaped, Unlocked
<1>7. CASE WmLock(a)
  BY <1>1, <1>7, AcquireInv DEF WmLock, Goto, LocalsShaped, Unlocked
<1>8. CASE RgLock(a)
  BY <1>1, <1>8, AcquireInv DEF RgLock, Goto, LocalsShaped, Unlocked
<1> QED BY <1>2, <1>3, <1>4, <1>5, <1>6, <1>7, <1>8

\* One word written to guest memory, under the lock.
LEMMA WriteWordInv ==
  ASSUME Inv, NEW a \in Agents, WriteWord(a)
  PROVE  Inv'
<1>1. TypeOK /\ ReservationLinked /\ OwnInv(a)
  BY DEF Inv
<1>2. PICK x \in Left(a) :
        /\ mem' = [mem EXCEPT ![x] = val[a]]
        /\ todo' = [todo EXCEPT ![a] = @ \ {x}]
        /\ view' = IF a \in Threads /\ line[a] = x[1]
                   THEN [view EXCEPT ![a][x[2]] = val[a]] ELSE view
  BY DEF WriteWord
<1>3. /\ pc[a] \in Copying
      /\ UNCHANGED <<lock, granules, line, notify, pending, marked, pc, cur, oth, val, buf, watch>>
  BY DEF WriteWord
<1>4. x \in Loc /\ x \in todo[a] /\ x[1] \in Hand(a) /\ x[1] \in Lines /\ x[2] \in Words /\ x = <<x[1], x[2]>>
  BY <1>1 DEF Left, TypeOK, Loc
<1>5. val[a] \in Values /\ val[a] # Null
  BY <1>1, ConstantsAssumption DEF TypeOK
<1>6. TypeOK'
  <2>1. view' \in [Threads -> [Words -> Values \cup {Null}]]
    BY <1>1, <1>2, <1>4, <1>5 DEF TypeOK
  <2>2. mem' \in [Loc -> Values] /\ todo' \in [Agents -> SUBSET Loc]
    BY <1>1, <1>2, <1>4, <1>5 DEF TypeOK
  <2> QED BY <1>1, <1>3, <2>1, <2>2 DEF TypeOK
<1>7. Rely(a) /\ ReservationLinked'
  <2>1. \A l : Writing(a, l) <=> Writing(a, l)'
    BY <1>3 DEF Writing, Hand
  <2>2. \A y \in Loc : mem'[y] = mem[y] \/ (Writing(a, y[1]) /\ Writing(a, y[1])')
    BY <1>1, <1>2, <1>3, <1>4, <2>1 DEF Writing, TypeOK
  <2>3. \A t \in Threads \ {a} : view'[t] = view[t]
    BY <1>1, <1>2 DEF TypeOK
  <2>4. \A b \in Agents \ {a} : todo'[b] = todo[b]
    BY <1>1, <1>2 DEF TypeOK
  <2>5. ReservationLinked'
    BY <1>1, <1>3 DEF ReservationLinked
  <2> QED BY <1>3, <2>1, <2>2, <2>3, <2>4, <2>5 DEF Rely
<1>8. LocalsShaped(a)'
  BY <1>1, <1>2, <1>3 DEF OwnInv, LocalsShaped, TypeOK
<1>9. LockHeld(a)'
  BY <1>1, <1>3 DEF OwnInv, LockHeld, Holds, Hand
<1>10. ASSUME a \in Threads
       PROVE  ReservationPlaced(a)' /\ BufferFaithful(a)' /\ Unchanged(a)' /\ Watched(a)'
  <2>1. ReservationPlaced(a) /\ BufferFaithful(a) /\ Watched(a) /\ Unchanged(a)
    BY <1>1, <1>10 DEF OwnInv
  <2>2. ReservationPlaced(a)'
    BY <1>3, <2>1 DEF ReservationPlaced
  <2>3. BufferFaithful(a)'
    BY <1>3, <2>1 DEF BufferFaithful, Copying
  <2>4. \A w \in Words : view'[a][w] = IF line[a] = x[1] /\ w = x[2] THEN val[a] ELSE view[a][w]
    BY <1>1, <1>2, <1>4, <1>10 DEF TypeOK
  <2>5. Watched(a)'
    BY <1>3, <1>5, <2>1, <2>4 DEF Watched
  <2>6. Unchanged(a)'
    <3> SUFFICES ASSUME NEW w \in Words, line[a] # Null, view'[a][w] # Null,
                        \A c \in Agents \ {a} : ~Writing(c, line[a])
                 PROVE  mem'[<<line[a], w>>] = view'[a][w]
      BY <1>3 DEF Unchanged, Writing, Hand
    <3>1. line[a] \in Lines /\ <<line[a], w>> \in Loc
      BY <1>1, <1>10 DEF TypeOK, Loc
    <3>2. CASE line[a] = x[1] /\ w = x[2]
      <4>1. <<line[a], w>> = x
        BY <1>4, <3>2
      <4>2. mem'[x] = val[a]
        BY <1>1, <1>2, <1>4 DEF TypeOK
      <4> QED BY <2>4, <3>2, <4>1, <4>2
    <3>3. CASE ~(line[a] = x[1] /\ w = x[2])
      <4>1. <<line[a], w>> # x
        BY <1>4, <3>3
      <4>2. mem'[<<line[a], w>>] = mem[<<line[a], w>>]
        BY <1>1, <1>2, <3>1, <4>1 DEF TypeOK
      <4>3. view'[a][w] = view[a][w]
        BY <2>4, <3>3
      <4> QED BY <2>1, <4>2, <4>3 DEF Unchanged
    <3> QED BY <3>2, <3>3
  <2> QED BY <2>2, <2>3, <2>5, <2>6
<1> QED BY <1>6, <1>7, <1>8, <1>9, <1>10, StepKeepsInv DEF OwnInv

\* One word read from guest memory.
LEMMA ReadWordInv ==
  ASSUME Inv, NEW a \in Agents, ReadWord(a)
  PROVE  Inv'
<1>1. TypeOK /\ ReservationLinked /\ OwnInv(a)
  BY DEF Inv
<1>2. PICK x \in todo[a] :
        /\ buf' = [buf EXCEPT ![a][x[2]] = mem[x]]
        /\ todo' = [todo EXCEPT ![a] = @ \ {x}]
  BY DEF ReadWord
<1>3. /\ pc[a] \in {"lr_copy", "rm_copy"}
      /\ UNCHANGED <<mem, lock, granules, line, notify, pending, marked, pc, cur, oth, val, view, watch>>
  BY DEF ReadWord, shared
<1>4. x \in Loc /\ x[1] \in Lines /\ x[2] \in Words /\ x = <<x[1], x[2]>> /\ mem[x] \in Values /\ mem[x] # Null
  BY <1>1, ConstantsAssumption DEF TypeOK, Loc
<1>5. TypeOK'
  <2>1. buf' \in [Agents -> [Words -> Values \cup {Null}]]
    BY <1>1, <1>2, <1>4 DEF TypeOK
  <2>2. todo' \in [Agents -> SUBSET Loc]
    BY <1>1, <1>2 DEF TypeOK
  <2> QED BY <1>1, <1>3, <2>1, <2>2 DEF TypeOK
<1>6. Rely(a) /\ ReservationLinked'
  <2>1. \A l : ~Writing(a, l)
    BY <1>3 DEF Writing, Copying
  <2>2. \A b \in Agents \ {a} : todo'[b] = todo[b] /\ buf'[b] = buf[b]
    BY <1>1, <1>2 DEF TypeOK
  <2>3. ReservationLinked'
    BY <1>1, <1>3 DEF ReservationLinked
  <2> QED BY <1>3, <2>1, <2>2, <2>3 DEF Rely
<1>7. LocalsShaped(a)'
  BY <1>1, <1>2, <1>3 DEF OwnInv, LocalsShaped, TypeOK
<1>8. LockHeld(a)'
  BY <1>1, <1>3 DEF OwnInv, LockHeld, Holds, Hand
<1>9. ASSUME a \in Threads
      PROVE  ReservationPlaced(a)' /\ BufferFaithful(a)' /\ Unchanged(a)' /\ Watched(a)'
  <2>1. ReservationPlaced(a) /\ BufferFaithful(a) /\ Watched(a)
    BY <1>1, <1>9 DEF OwnInv
  <2>2. ReservationPlaced(a)' /\ Watched(a)'
    BY <1>3, <2>1 DEF ReservationPlaced, Watched
  <2>3. \A w \in Words : buf'[a][w] = IF w = x[2] THEN mem[x] ELSE buf[a][w]
    BY <1>1, <1>2, <1>4 DEF TypeOK
  <2>4. pc[a] = "lr_copy" => x[1] = cur[a]
    BY <1>1 DEF OwnInv, LocalsShaped, LineLocs
  <2>5. todo'[a] = todo[a] \ {x}
    BY <1>1, <1>2 DEF TypeOK
  <2>6. BufferFaithful(a)'
    <3> SUFFICES ASSUME NEW w \in Words, pc[a] = "lr_copy"
                 PROVE  /\ buf'[a][w] \in {Null, mem[<<cur[a], w>>]}
                        /\ a \in Spus => <<cur[a], w>> \in todo'[a] \/ buf'[a][w] # Null
      BY <1>3 DEF BufferFaithful
    <3>1. /\ buf[a][w] \in {Null, mem[<<cur[a], w>>]}
          /\ a \in Spus => <<cur[a], w>> \in todo[a] \/ buf[a][w] # Null
      BY <2>1 DEF BufferFaithful
    <3>2. CASE w = x[2]
      BY <1>4, <2>3, <2>4, <3>2
    <3>3. CASE w # x[2]
      <4>1. <<cur[a], w>> # x
        BY <1>4, <3>3
      <4> QED BY <2>3, <2>5, <3>1, <3>3, <4>1
    <3> QED BY <3>2, <3>3
  <2>7. Unchanged(a)'
    BY <1>3, <1>6, <1>9, UnchangedKept
  <2> QED BY <2>2, <2>6, <2>7
<1> QED BY <1>5, <1>6, <1>7, <1>8, <1>9, StepKeepsInv DEF OwnInv

\* The end of an operation, and what unlocking does.
LEMMA ReturnEffect ==
  ASSUME TypeOK, NEW a \in Agents, Return(a)
  PROVE  /\ pc'[a] = "idle" /\ todo'[a] = {} /\ \A w \in Words : buf'[a][w] = Null
         /\ \A b \in Agents \ {a} :
              /\ pc'[b] = pc[b] /\ cur'[b] = cur[b] /\ oth'[b] = oth[b]
              /\ todo'[b] = todo[b] /\ val'[b] = val[b] /\ buf'[b] = buf[b]
         /\ pc' = [pc EXCEPT ![a] = "idle"]
         /\ cur' \in [Agents -> Lines \cup {Null}]
         /\ oth' \in [Agents -> Lines \cup {Null}]
         /\ todo' \in [Agents -> SUBSET Loc]
         /\ val' \in [Agents -> Values]
         /\ buf' \in [Agents -> [Words -> Values \cup {Null}]]
BY ConstantsAssumption DEF TypeOK, Return, Goto

LEMMA ReleaseEffect ==
  ASSUME TypeOK, NEW a \in Agents, LockHeld(a), NEW ls, Release(a, ls),
         \A l \in Lines : Holds(a, l) <=> l \in ls,
         \A l \in Lines : ~Holds(a, l)'
  PROVE  /\ lock' \in [Lines -> Agents \cup {Null}]
         /\ LockHeld(a)'
         /\ \A l \in Lines : \/ lock'[l] = lock[l]
                             \/ lock[l] \in {Null, a} /\ lock'[l] \in {Null, a}
<1>1. lock' \in [Lines -> Agents \cup {Null}]
  BY DEF TypeOK, Release
<1>2. \A l \in Lines : lock'[l] = IF l \in ls THEN Null ELSE lock[l]
  BY DEF Release
<1>3. \A l \in Lines : lock[l] = a <=> l \in ls
  BY DEF LockHeld
<1>4. \A l \in Lines : lock'[l] # a
  BY <1>2, <1>3, LinesFacts
<1>5. LockHeld(a)'
  BY <1>4 DEF LockHeld
<1> QED BY <1>1, <1>2, <1>3, <1>5

\* loadReserve gives up the old reservation, if it still has it.
LEMMA LrDropOldInv ==
  ASSUME Inv, NEW t \in Threads, LrDropOld(t)
  PROVE  Inv'
<1>1. TypeOK /\ ReservationLinked /\ OwnInv(t) /\ t \in Agents /\ t \notin Hosts
  BY ConstantsAssumption DEF Inv, Agents
<1>2. /\ pc[t] = "lr_drop" /\ cur[t] \in Lines /\ oth[t] \in Lines /\ todo[t] \subseteq LineLocs(oth[t])
      /\ line[t] \in {Null, cur[t]} /\ watch[t] = Null
  BY <1>1 DEF LrDropOld, OwnInv, LocalsShaped, Unlocked, ReservationPlaced
<1>3. /\ UNCHANGED <<mem, marked, todo, val, buf, view, watch>>
      /\ pc' = [pc EXCEPT ![t] = "lr_lock"]
      /\ cur' = [cur EXCEPT ![t] = oth[t]]
      /\ oth' = [oth EXCEPT ![t] = Null]
      /\ Release(t, {cur[t]})
  BY DEF LrDropOld, Goto
<1>4. /\ pc'[t] = "lr_lock" /\ cur'[t] = oth[t]
      /\ \A b \in Agents \ {t} : pc'[b] = pc[b] /\ cur'[b] = cur[b] /\ oth'[b] = oth[b]
  BY <1>1, <1>3 DEF TypeOK
<1>5. /\ granules' \in [Lines -> Seq(Threads \cup {Null})]
      /\ line' \in [Threads -> Lines \cup {Null}]
      /\ notify' \in [Threads -> BOOLEAN]
      /\ pending' \in [Threads -> BOOLEAN]
      /\ ReservationLinked'
      /\ line'[t] = Null
      /\ \A u \in Threads \ {t} : /\ line'[u] = line[u] /\ notify'[u] = notify[u]
                                  /\ pending[u] => pending'[u]
  <2>1. CASE line[t] = Null
    <3>1. UNCHANGED <<granules, line, notify, pending>>
      BY <2>1 DEF LrDropOld
    <3> QED BY <2>1, <3>1, <1>1 DEF TypeOK, ReservationLinked
  <2>2. CASE line[t] # Null
    <3>1. /\ granules' = [granules EXCEPT ![cur[t]] = clearOne(@, t)]
          /\ Forget(t, {t}) /\ line[t] = cur[t]
      BY <1>2, <2>2 DEF LrDropOld
    <3>2. granules[cur[t]] \in Seq(Threads \cup {Null})
      BY <1>1, <1>2 DEF TypeOK
    <3>3. /\ clearOne(granules[cur[t]], t) \in Seq(Threads \cup {Null})
          /\ \A h \in (Threads \cup {Null}) \ {Null} :
               exists(clearOne(granules[cur[t]], t), h) <=> (h # t /\ exists(granules[cur[t]], h))
      BY <3>2, LinesFacts, ClearOneRemoves
    <3>4. granules' \in [Lines -> Seq(Threads \cup {Null})]
      BY <1>1, <3>1, <3>3 DEF TypeOK
    <3>5. /\ line' \in [Threads -> Lines \cup {Null}]
          /\ notify' \in [Threads -> BOOLEAN]
          /\ pending' \in [Threads -> BOOLEAN]
          /\ \A u \in Threads :
               /\ line'[u] = IF u \in {t} THEN Null ELSE line[u]
               /\ u \notin {t} => notify'[u] = notify[u]
               /\ pending[u] => pending'[u]
      BY <1>1, <3>1, ForgetEffect
    <3>6. ReservationLinked'
      <4> SUFFICES ASSUME NEW u \in Threads, NEW k \in Lines
                   PROVE  exists(granules'[k], u) <=> line'[u] = k
        BY DEF ReservationLinked
      <4>1. exists(granules[k], u) <=> line[u] = k
        BY <1>1 DEF ReservationLinked
      <4>2. granules'[k] = IF k = cur[t] THEN clearOne(granules[cur[t]], t) ELSE granules[k]
        BY <1>1, <3>1 DEF TypeOK
      <4>3. u \in (Threads \cup {Null}) \ {Null}
        BY LinesFacts
      <4>4. CASE k = cur[t]
        BY <4>1, <4>2, <4>3, <4>4, <3>3, <3>5, LinesFacts
      <4>5. CASE k # cur[t]
        BY <4>1, <4>2, <4>5, <3>1, <3>5, LinesFacts
      <4> QED BY <4>4, <4>5
    <3> QED BY <3>4, <3>5, <3>6
  <2> QED BY <2>1, <2>2
<1>6. /\ \A l \in Lines : Holds(t, l) <=> l \in {cur[t]}
      /\ \A l \in Lines : ~Holds(t, l)'
  BY <1>2, <1>4 DEF Holds, HoldsOne
<1>7. /\ lock' \in [Lines -> Agents \cup {Null}]
      /\ LockHeld(t)'
      /\ \A l \in Lines : \/ lock'[l] = lock[l]
                          \/ lock[l] \in {Null, t} /\ lock'[l] \in {Null, t}
  BY <1>1, <1>3, <1>6, ReleaseEffect DEF OwnInv
<1>8. TypeOK'
  BY <1>1, <1>2, <1>3, <1>5, <1>7 DEF TypeOK
<1>9. Rely(t)
  <2>1. \A l : ~Writing(t, l)
    BY <1>2 DEF Writing, Copying
  <2> QED BY <1>3, <1>4, <1>5, <1>7, <2>1 DEF Rely
<1>10. LocalsShaped(t)'
  BY <1>1, <1>2, <1>3, <1>4 DEF LocalsShaped
<1>11. ReservationPlaced(t)' /\ Watched(t)' /\ Unchanged(t)'
  BY <1>2, <1>3, <1>4, <1>5 DEF ReservationPlaced, Watched, Unchanged
<1>12. BufferFaithful(t)'
  BY <1>1, <1>2, <1>3, <1>4 DEF OwnInv, BufferFaithful
<1> QED BY <1>5, <1>7, <1>8, <1>9, <1>10, <1>11, <1>12, <1>1, StepKeepsInv DEF OwnInv

\* loadReserve registers the new reservation; what was copied is in the line.
LEMMA LrReserveInv ==
  ASSUME Inv, NEW t \in Threads, LrReserve(t)
  PROVE  Inv'
<1>1. TypeOK /\ ReservationLinked /\ OwnInv(t) /\ t \in Agents /\ t \notin Hosts
  BY ConstantsAssumption DEF Inv, Agents
<1>2. pc[t] = "lr_copy" /\ todo[t] = {} /\ cur[t] \in Lines /\ line[t] = Null
  BY <1>1 DEF LrReserve, OwnInv, LocalsShaped, Unlocked, ReservationPlaced
<1>3. /\ line' = [line EXCEPT ![t] = cur[t]]
      /\ notify' = [notify EXCEPT ![t] = t \in Spus]
      /\ granules' = [granules EXCEPT ![cur[t]] = insert(@, t)]
      /\ view' = [view EXCEPT ![t] = buf[t]]
      /\ watch' = [watch EXCEPT ![t] = IF t \in Spus THEN cur[t] ELSE Null]
      /\ Release(t, {cur[t]})
      /\ Return(t)
      /\ UNCHANGED <<mem, pending, marked>>
  BY DEF LrReserve
<1>4. /\ pc'[t] = "idle" /\ todo'[t] = {} /\ \A w \in Words : buf'[t][w] = Null
      /\ \A b \in Agents \ {t} :
              /\ pc'[b] = pc[b] /\ cur'[b] = cur[b] /\ oth'[b] = oth[b]
              /\ todo'[b] = todo[b] /\ val'[b] = val[b] /\ buf'[b] = buf[b]
      /\ pc' = [pc EXCEPT ![t] = "idle"]
      /\ cur' \in [Agents -> Lines \cup {Null}]
      /\ oth' \in [Agents -> Lines \cup {Null}]
      /\ todo' \in [Agents -> SUBSET Loc]
      /\ val' \in [Agents -> Values]
      /\ buf' \in [Agents -> [Words -> Values \cup {Null}]]
  BY <1>1, <1>3, ReturnEffect
<1>5. /\ insert(granules[cur[t]], t) \in Seq(Threads \cup {Null})
      /\ \A h \in (Threads \cup {Null}) \ {Null} :
           exists(insert(granules[cur[t]], t), h) <=> (h = t \/ exists(granules[cur[t]], h))
  <2>1. granules[cur[t]] \in Seq(Threads \cup {Null})
    BY <1>1, <1>2 DEF TypeOK
  <2> QED BY <2>1, LinesFacts, InsertAdds
<1>6. ReservationLinked'
  <2> SUFFICES ASSUME NEW u \in Threads, NEW k \in Lines
               PROVE  exists(granules'[k], u) <=> line'[u] = k
    BY DEF ReservationLinked
  <2>1. exists(granules[k], u) <=> line[u] = k
    BY <1>1 DEF ReservationLinked
  <2>2. granules'[k] = IF k = cur[t] THEN insert(granules[cur[t]], t) ELSE granules[k]
    BY <1>1, <1>3 DEF TypeOK
  <2>3. line'[u] = IF u = t THEN cur[t] ELSE line[u]
    BY <1>1, <1>3 DEF TypeOK
  <2>4. u \in (Threads \cup {Null}) \ {Null}
    BY LinesFacts
  <2>5. CASE k = cur[t]
    BY <2>1, <2>2, <2>3, <2>4, <2>5, <1>5
  <2>6. CASE k # cur[t]
    BY <2>1, <2>2, <2>3, <2>6, <1>2, LinesFacts
  <2> QED BY <2>5, <2>6
<1>7. /\ \A l \in Lines : Holds(t, l) <=> l \in {cur[t]}
      /\ \A l \in Lines : ~Holds(t, l)'
  BY <1>2, <1>4 DEF Holds, HoldsOne
<1>8. /\ lock' \in [Lines -> Agents \cup {Null}]
      /\ LockHeld(t)'
      /\ \A l \in Lines : \/ lock'[l] = lock[l]
                          \/ lock[l] \in {Null, t} /\ lock'[l] \in {Null, t}
  BY <1>1, <1>3, <1>7, ReleaseEffect DEF OwnInv
<1>9. TypeOK'
  <2>1. granules' \in [Lines -> Seq(Threads \cup {Null})]
    BY <1>1, <1>3, <1>5 DEF TypeOK
  <2>2. /\ line' \in [Threads -> Lines \cup {Null}]
        /\ watch' \in [Threads -> Lines \cup {Null}]
        /\ notify' \in [Threads -> BOOLEAN]
        /\ view' \in [Threads -> [Words -> Values \cup {Null}]]
    BY <1>1, <1>2, <1>3 DEF TypeOK
  <2>3. pc' \in [Agents -> {"idle", "lr_old", "lr_drop", "lr_lock", "lr_copy",
                        "wc_lock", "uc_lock", "wc_check", "wc_copy", "uc_copy",
                        "st_lock", "st_next", "st_copy", "mark",
                        "wm_lock", "wm_copy", "rm_copy",
                        "rg_lock", "rg_clear", "gone"}]
    BY <1>1, <1>4 DEF TypeOK
  <2> QED BY <1>1, <1>3, <1>4, <1>8, <2>1, <2>2, <2>3 DEF TypeOK
<1>10. Rely(t)
  <2>1. \A l : ~Writing(t, l)
    BY <1>2 DEF Writing, Copying
  <2>2. \A u \in Threads \ {t} : /\ view'[u] = view[u] /\ watch'[u] = watch[u]
                                 /\ line'[u] = line[u] /\ notify'[u] = notify[u]
    BY <1>1, <1>3 DEF TypeOK
  <2> QED BY <1>3, <1>4, <1>8, <2>1, <2>2 DEF Rely
<1>11. LocalsShaped(t)' /\ ReservationPlaced(t)' /\ BufferFaithful(t)'
  BY <1>1, <1>4 DEF LocalsShaped, ReservationPlaced, BufferFaithful, Unlocked
<1>12. line'[t] = cur[t] /\ view'[t] = buf[t] /\ (notify'[t] <=> t \in Spus)
       /\ watch'[t] \in {Null, cur[t]} /\ (watch'[t] # Null => t \in Spus)
  BY <1>1, <1>2, <1>3 DEF TypeOK
<1>13. Watched(t)'
  <2>1. \A w \in Words : t \in Spus => buf[t][w] # Null
    BY <1>1, <1>2 DEF OwnInv, BufferFaithful
  <2> QED BY <1>12, <2>1 DEF Watched
<1>14. Unchanged(t)'
  <2>1. \A w \in Words : buf[t][w] \in {Null, mem[<<cur[t], w>>]}
    BY <1>1, <1>2 DEF OwnInv, BufferFaithful
  <2> QED BY <1>3, <1>12, <2>1 DEF Unchanged
<1> QED BY <1>1, <1>6, <1>8, <1>9, <1>10, <1>11, <1>13, <1>14, StepKeepsInv DEF OwnInv

\* The reservation is in place: the conditional write goes ahead.
LEMMA WcReservedInv ==
  ASSUME Inv, NEW t \in Threads, WcReserved(t)
  PROVE  Inv'
<1>1. TypeOK /\ ReservationLinked /\ OwnInv(t) /\ t \in Agents /\ t \notin Hosts
  BY ConstantsAssumption DEF Inv, Agents
<1>2. /\ pc[t] = "wc_check" /\ pc' = [pc EXCEPT ![t] = "wc_copy"]
      /\ UNCHANGED <<mem, lock, granules, line, notify, pending, marked, cur, oth, todo, val, buf, view, watch>>
  BY DEF WcReserved, Goto, shared
<1>3. pc'[t] = "wc_copy" /\ \A b \in Agents \ {t} : pc'[b] = pc[b]
  BY <1>1, <1>2 DEF TypeOK
<1>4. TypeOK' /\ ReservationLinked'
  BY <1>1, <1>2 DEF TypeOK, ReservationLinked
<1>5. Rely(t)
  <2>1. \A l : ~Writing(t, l)
    BY <1>2 DEF Writing, Copying
  <2> QED BY <1>2, <1>3, <2>1 DEF Rely
<1>6. LocalsShaped(t)' /\ LockHeld(t)'
  BY <1>1, <1>2, <1>3 DEF OwnInv, LocalsShaped, LockHeld, Holds, HoldsOne, Unlocked
<1>7. ReservationPlaced(t)' /\ BufferFaithful(t)' /\ Watched(t)'
  BY <1>1, <1>2, <1>3 DEF OwnInv, ReservationPlaced, BufferFaithful, Watched
<1>8. Unchanged(t)'
  BY <1>2, <1>5, UnchangedKept
<1> QED BY <1>1, <1>4, <1>5, <1>6, <1>7, <1>8, StepKeepsInv DEF OwnInv

\* Returning without a write, with at most the lock of one line to give back.
LEMMA ReturnInv ==
  ASSUME Inv, NEW a \in Agents, Return(a),
         \/ pc[a] = "wc_check" /\ Release(a, {cur[a]})
         \/ pc[a] \in {"mark", "rm_copy"} /\ lock' = lock,
         marked' \subseteq Nat,
         UNCHANGED <<mem, granules, line, notify, pending, view, watch>>
  PROVE  Inv'
<1>1. TypeOK /\ ReservationLinked /\ OwnInv(a)
  BY DEF Inv
<1>2. /\ pc'[a] = "idle" /\ todo'[a] = {} /\ \A w \in Words : buf'[a][w] = Null
      /\ \A b \in Agents \ {a} :
              /\ pc'[b] = pc[b] /\ cur'[b] = cur[b] /\ oth'[b] = oth[b]
              /\ todo'[b] = todo[b] /\ val'[b] = val[b] /\ buf'[b] = buf[b]
      /\ pc' = [pc EXCEPT ![a] = "idle"]
      /\ cur' \in [Agents -> Lines \cup {Null}]
      /\ oth' \in [Agents -> Lines \cup {Null}]
      /\ todo' \in [Agents -> SUBSET Loc]
      /\ val' \in [Agents -> Values]
      /\ buf' \in [Agents -> [Words -> Values \cup {Null}]]
  BY <1>1, ReturnEffect
<1>3. /\ lock' \in [Lines -> Agents \cup {Null}]
      /\ LockHeld(a)'
      /\ \A l \in Lines : \/ lock'[l] = lock[l]
                          \/ lock[l] \in {Null, a} /\ lock'[l] \in {Null, a}
  <2>1. CASE pc[a] = "wc_check" /\ Release(a, {cur[a]})
    <3>1. /\ \A l \in Lines : Holds(a, l) <=> l \in {cur[a]}
          /\ \A l \in Lines : ~Holds(a, l)'
      BY <1>2, <2>1 DEF Holds, HoldsOne
    <3> QED BY <1>1, <2>1, <3>1, ReleaseEffect DEF OwnInv
  <2>2. CASE pc[a] \in {"mark", "rm_copy"} /\ lock' = lock
    BY <1>1, <1>2, <2>2 DEF TypeOK, OwnInv, LockHeld, Holds, HoldsOne
  <2> QED BY <2>1, <2>2
<1>4. TypeOK' /\ ReservationLinked'
  BY <1>1, <1>2, <1>3 DEF TypeOK, ReservationLinked
<1>5. Rely(a)
  <2>1. \A l : ~Writing(a, l)
    BY DEF Writing, Copying
  <2> QED BY <1>2, <1>3, <2>1 DEF Rely
<1>6. LocalsShaped(a)'
  BY <1>1, <1>2 DEF LocalsShaped, Unlocked, HostPcs
<1>7. ASSUME a \in Threads
      PROVE  ReservationPlaced(a)' /\ BufferFaithful(a)' /\ Unchanged(a)' /\ Watched(a)'
  <2>1. ReservationPlaced(a)' /\ BufferFaithful(a)' /\ Watched(a)'
    BY <1>1, <1>2, <1>7 DEF OwnInv, ReservationPlaced, BufferFaithful, Watched
  <2>2. Unchanged(a)'
    BY <1>5, <1>7, UnchangedKept
  <2> QED BY <2>1, <2>2
<1> QED BY <1>3, <1>4, <1>5, <1>6, <1>7, StepKeepsInv DEF OwnInv

LEMMA ReturningStepsInv ==
  ASSUME Inv, NEW a \in Agents, WcFail(a) \/ Mark(a) \/ RmReturn(a)
  PROVE  Inv'
<1>1. TypeOK /\ LocalsShaped(a)
  BY DEF Inv, OwnInv
<1>2. CASE WcFail(a)
  BY <1>1, <1>2, ReturnInv DEF WcFail, TypeOK
<1>3. CASE Mark(a)
  <2>1. cur[a] \in Lines /\ <<cur[a], 1>> \in Loc
    BY <1>1, <1>3, ConstantsAssumption DEF Mark, LocalsShaped, Unlocked, Loc, Words
  <2>2. FirstLine({<<cur[a], 1>>}) \in Nat
    BY <2>1, FirstLineExists, LinesFacts
  <2>3. PICK p \in Nat : p = page(FirstLine({<<cur[a], 1>>}))
    BY <2>2, PageFacts
  <2>4. marked' = marked \cup {p, p + 1}
    BY <1>3, <2>3 DEF Mark, markScalar
  <2>5. marked' \subseteq Nat
    <3>1. marked \subseteq Nat
      BY <1>1 DEF TypeOK
    <3>2. p + 1 \in Nat
      OBVIOUS
    <3> QED BY <2>4, <3>1, <3>2
  <2> QED BY <1>3, <2>5, ReturnInv DEF Mark
<1>4. CASE RmReturn(a)
  BY <1>1, <1>4, ReturnInv DEF RmReturn, shared, TypeOK
<1> QED BY <1>2, <1>3, <1>4

\* writeCond has written: every reservation on the line goes with the lock.
LEMMA WcCommitInv ==
  ASSUME Inv, NEW t \in Threads, WcCommit(t)
  PROVE  Inv'
<1>1. TypeOK /\ ReservationLinked /\ OwnInv(t) /\ t \in Agents /\ t \notin Hosts
  BY ConstantsAssumption DEF Inv, Agents
<1>2. pc[t] \in {"wc_copy", "uc_copy"} /\ todo[t] = {} /\ cur[t] \in Lines
  BY <1>1 DEF WcCommit, OwnInv, LocalsShaped, Unlocked
<1>3. /\ DestroySingleLine(t, cur[t])
      /\ Release(t, {cur[t]})
      /\ watch' = [watch EXCEPT ![t] = IF @ = cur[t] THEN Null ELSE @]
      /\ pc' = [pc EXCEPT ![t] = "mark"]
      /\ UNCHANGED <<mem, marked, cur, oth, todo, val, buf, view>>
  BY DEF WcCommit, Goto
<1>4. pc'[t] = "mark" /\ \A b \in Agents \ {t} : pc'[b] = pc[b]
  BY <1>1, <1>3 DEF TypeOK
<1>5. /\ granules' \in [Lines -> Seq(Threads \cup {Null})]
      /\ line' \in [Threads -> Lines \cup {Null}]
      /\ notify' \in [Threads -> BOOLEAN]
      /\ pending' \in [Threads -> BOOLEAN]
      /\ ReservationLinked'
      /\ \A u \in Threads :
           /\ line'[u] = IF line[u] = cur[t] THEN Null ELSE line[u]
           /\ line'[u] = line[u] => notify'[u] = notify[u]
           /\ pending[u] => pending'[u]
           /\ line'[u] # line[u] /\ notify[u] /\ u # t => pending'[u]
  BY <1>1, <1>2, <1>3, DestroySingleLineEffect
<1>6. /\ \A l \in Lines : Holds(t, l) <=> l \in {cur[t]}
      /\ \A l \in Lines : ~Holds(t, l)'
  BY <1>2, <1>4 DEF Holds, HoldsOne
<1>7. /\ lock' \in [Lines -> Agents \cup {Null}]
      /\ LockHeld(t)'
      /\ \A l \in Lines : \/ lock'[l] = lock[l]
                          \/ lock[l] \in {Null, t} /\ lock'[l] \in {Null, t}
  BY <1>1, <1>3, <1>6, ReleaseEffect DEF OwnInv
<1>8. TypeOK'
  BY <1>1, <1>2, <1>3, <1>5, <1>7 DEF TypeOK
<1>9. Rely(t)
  <2>1. \A l : Writing(t, l) => l = cur[t]
    BY <1>2 DEF Writing, Hand
  <2>2. \A u \in Threads : line'[u] # cur[t]
    BY <1>2, <1>5, LinesFacts
  <2>3. \A u \in Threads \ {t} : watch'[u] = watch[u]
    BY <1>1, <1>3 DEF TypeOK
  <2> QED BY <1>3, <1>4, <1>5, <1>7, <2>1, <2>2, <2>3 DEF Rely
<1>10. LocalsShaped(t)' /\ ReservationPlaced(t)' /\ BufferFaithful(t)'
  BY <1>1, <1>2, <1>3, <1>4 DEF OwnInv, LocalsShaped, ReservationPlaced, BufferFaithful, Unlocked
<1>11. Watched(t)'
  <2>1. watch'[t] = IF watch[t] = cur[t] THEN Null ELSE watch[t]
    BY <1>1, <1>3 DEF TypeOK
  <2> QED BY <1>1, <1>3, <1>5, <2>1 DEF OwnInv, Watched
<1>12. Unchanged(t)'
  <2>1. CASE line'[t] = Null
    BY <2>1 DEF Unchanged
  <2>2. CASE line'[t] = line[t]
    BY <1>3, <1>9, <2>2, UnchangedKept
  <2> QED BY <1>5, <2>1, <2>2
<1> QED BY <1>1, <1>5, <1>7, <1>8, <1>9, <1>10, <1>11, <1>12, StepKeepsInv DEF OwnInv

\* A plain write ends with the lines in hand: the other threads' reservations
\* on them go with the locks.
LEMMA PlainCommitInv ==
  ASSUME Inv, NEW a \in Agents, pc[a] \in {"st_copy", "wm_copy"},
         DestroyExcept(a, Hand(a)), Release(a, Hand(a)),
         UNCHANGED <<mem, marked, view, watch>>,
         NEW where \in {"idle", "mark", "wm_lock"},
         pc' = [pc EXCEPT ![a] = where],
         cur' \in [Agents -> Lines \cup {Null}],
         oth' \in [Agents -> Lines \cup {Null}],
         todo' \in [Agents -> SUBSET Loc],
         val' \in [Agents -> Values],
         buf' \in [Agents -> [Words -> Values \cup {Null}]],
         \A b \in Agents \ {a} :
            /\ cur'[b] = cur[b] /\ oth'[b] = oth[b]
            /\ todo'[b] = todo[b] /\ val'[b] = val[b] /\ buf'[b] = buf[b],
         where # "idle" => cur'[a] \in Lines,
         where = "idle" => todo'[a] = {},
         a \in Threads => \A w \in Words : buf'[a][w] = Null
  PROVE  Inv'
<1>1. TypeOK /\ ReservationLinked /\ OwnInv(a)
  BY DEF Inv
<1>2. pc'[a] = where /\ \A b \in Agents \ {a} : pc'[b] = pc[b]
  BY <1>1 DEF TypeOK
<1>3. Hand(a) \in SUBSET Lines
  <2>1. cur[a] \in Lines /\ oth[a] \in Lines \cup {Null}
    BY <1>1 DEF OwnInv, LocalsShaped, Unlocked, TypeOK
  <2> QED BY <2>1 DEF Hand
<1>4. /\ granules' \in [Lines -> Seq(Threads \cup {Null})]
      /\ line' \in [Threads -> Lines \cup {Null}]
      /\ notify' \in [Threads -> BOOLEAN]
      /\ pending' \in [Threads -> BOOLEAN]
      /\ ReservationLinked'
      /\ \A t \in Threads :
           /\ line'[t] = IF line[t] \in Hand(a) /\ t # a THEN Null ELSE line[t]
           /\ line'[t] = line[t] => notify'[t] = notify[t]
           /\ pending[t] => pending'[t]
           /\ line'[t] # line[t] /\ notify[t] => pending'[t]
  BY <1>1, <1>3, DestroyExceptEffect
<1>5. /\ \A l \in Lines : Holds(a, l) <=> l \in Hand(a)
      /\ \A l \in Lines : ~Holds(a, l)'
  BY <1>2 DEF Holds, HoldsOne, Hand
<1>6. /\ lock' \in [Lines -> Agents \cup {Null}]
      /\ LockHeld(a)'
      /\ \A l \in Lines : \/ lock'[l] = lock[l]
                          \/ lock[l] \in {Null, a} /\ lock'[l] \in {Null, a}
  BY <1>1, <1>5, ReleaseEffect DEF OwnInv
<1>7. TypeOK'
  BY <1>1, <1>4, <1>6 DEF TypeOK
<1>8. Rely(a)
  <2>1. \A l : Writing(a, l) => l \in Hand(a)
    BY DEF Writing
  <2>2. \A t \in Threads \ {a} : line'[t] \notin Hand(a)
    BY <1>3, <1>4, LinesFacts
  <2> QED BY <1>2, <1>4, <1>6, <2>1, <2>2 DEF Rely
<1>9. LocalsShaped(a)'
  BY <1>1, <1>2 DEF LocalsShaped, Unlocked, HostPcs
<1>10. ASSUME a \in Threads
       PROVE  ReservationPlaced(a)' /\ BufferFaithful(a)' /\ Unchanged(a)' /\ Watched(a)'
  <2>1. line'[a] = line[a] /\ notify'[a] = notify[a] /\ (pending[a] => pending'[a])
    BY <1>4, <1>10
  <2>2. ReservationPlaced(a)' /\ BufferFaithful(a)'
    BY <1>2, <1>10 DEF ReservationPlaced, BufferFaithful
  <2>3. Watched(a)'
    BY <1>1, <1>10, <2>1 DEF OwnInv, Watched
  <2>4. Unchanged(a)'
    BY <1>8, <1>10, <2>1, UnchangedKept
  <2> QED BY <2>2, <2>3, <2>4
<1> QED BY <1>4, <1>6, <1>7, <1>8, <1>9, <1>10, StepKeepsInv DEF OwnInv

LEMMA StCommitInv ==
  ASSUME Inv, NEW a \in Agents, StCommit(a)
  PROVE  Inv'
<1>1. TypeOK /\ OwnInv(a)
  BY DEF Inv
<1>2. cur[a] \in Lines /\ (a \in Threads => \A w \in Words : buf[a][w] = Null)
  BY <1>1 DEF StCommit, OwnInv, LocalsShaped, Unlocked, BufferFaithful
<1>3. /\ pc[a] = "st_copy" /\ DestroyExcept(a, Hand(a)) /\ Release(a, Hand(a))
      /\ pc' = [pc EXCEPT ![a] = "mark"]
      /\ UNCHANGED <<mem, marked, cur, oth, todo, val, buf, view, watch>>
  BY DEF StCommit, Goto
<1> QED BY <1>1, <1>2, <1>3, PlainCommitInv DEF TypeOK

LEMMA WmCommitInv ==
  ASSUME Inv, NEW a \in Agents, WmCommit(a)
  PROVE  Inv'
<1>1. TypeOK /\ OwnInv(a)
  BY DEF Inv
<1>2. cur[a] \in Lines /\ (a \in Threads => \A w \in Words : buf[a][w] = Null)
  BY <1>1 DEF WmCommit, OwnInv, LocalsShaped, Unlocked, BufferFaithful
<1>3. /\ pc[a] = "wm_copy" /\ DestroyExcept(a, Hand(a)) /\ Release(a, Hand(a))
      /\ UNCHANGED <<mem, marked, view, watch>>
  BY DEF WmCommit, Hand
<1>4. CASE todo[a] = {}
  <2>1. Return(a)
    BY <1>4 DEF WmCommit
  <2>2. /\ pc'[a] = "idle" /\ todo'[a] = {} /\ \A w \in Words : buf'[a][w] = Null
        /\ \A b \in Agents \ {a} :
              /\ pc'[b] = pc[b] /\ cur'[b] = cur[b] /\ oth'[b] = oth[b]
              /\ todo'[b] = todo[b] /\ val'[b] = val[b] /\ buf'[b] = buf[b]
        /\ pc' = [pc EXCEPT ![a] = "idle"]
        /\ cur' \in [Agents -> Lines \cup {Null}]
        /\ oth' \in [Agents -> Lines \cup {Null}]
        /\ todo' \in [Agents -> SUBSET Loc]
        /\ val' \in [Agents -> Values]
        /\ buf' \in [Agents -> [Words -> Values \cup {Null}]]
    BY <1>1, <2>1, ReturnEffect
  <2> QED BY <1>3, <2>2, PlainCommitInv
<1>5. CASE todo[a] # {}
  <2>1. FirstLine(todo[a]) \in Lines
    BY <1>1, <1>5, FirstLineExists DEF TypeOK
  <2>2. /\ pc' = [pc EXCEPT ![a] = "wm_lock"]
        /\ cur' = [cur EXCEPT ![a] = FirstLine(todo[a])]
        /\ UNCHANGED <<oth, todo, val, buf>>
    BY <1>5 DEF WmCommit, Goto
  <2>3. /\ cur' \in [Agents -> Lines \cup {Null}] /\ cur'[a] \in Lines
        /\ \A b \in Agents \ {a} : cur'[b] = cur[b]
    BY <1>1, <2>1, <2>2 DEF TypeOK
  <2> QED BY <1>1, <1>2, <1>3, <2>2, <2>3, PlainCommitInv DEF TypeOK
<1> QED BY <1>4, <1>5

\* The destructor of a granule clears the whole line it was on.
LEMMA RgClearInv ==
  ASSUME Inv, NEW t \in Threads, RgClear(t)
  PROVE  Inv'
<1>1. TypeOK /\ ReservationLinked /\ OwnInv(t) /\ t \in Agents /\ t \notin Hosts
  BY ConstantsAssumption DEF Inv, Agents
<1>2. /\ pc[t] = "rg_clear" /\ todo[t] = {} /\ cur[t] \in Lines
      /\ line[t] \in {Null, cur[t]} /\ watch[t] = Null
  BY <1>1 DEF RgClear, OwnInv, LocalsShaped, Unlocked, ReservationPlaced
<1>3. /\ DestroySingleLine(Null, cur[t])
      /\ Release(t, {cur[t]})
      /\ pc' = [pc EXCEPT ![t] = "gone"]
      /\ cur' = [cur EXCEPT ![t] = Null]
      /\ UNCHANGED <<mem, marked, oth, todo, val, buf, view, watch>>
  BY DEF RgClear, Goto
<1>4. pc'[t] = "gone" /\ \A b \in Agents \ {t} : pc'[b] = pc[b] /\ cur'[b] = cur[b]
  BY <1>1, <1>3 DEF TypeOK
<1>5. /\ granules' \in [Lines -> Seq(Threads \cup {Null})]
      /\ line' \in [Threads -> Lines \cup {Null}]
      /\ notify' \in [Threads -> BOOLEAN]
      /\ pending' \in [Threads -> BOOLEAN]
      /\ ReservationLinked'
      /\ \A u \in Threads :
           /\ line'[u] = IF line[u] = cur[t] THEN Null ELSE line[u]
           /\ line'[u] = line[u] => notify'[u] = notify[u]
           /\ pending[u] => pending'[u]
           /\ line'[u] # line[u] /\ notify[u] /\ u # Null => pending'[u]
  BY <1>1, <1>2, <1>3, DestroySingleLineEffect
<1>6. /\ \A l \in Lines : Holds(t, l) <=> l \in {cur[t]}
      /\ \A l \in Lines : ~Holds(t, l)'
  BY <1>2, <1>4 DEF Holds, HoldsOne
<1>7. /\ lock' \in [Lines -> Agents \cup {Null}]
      /\ LockHeld(t)'
      /\ \A l \in Lines : \/ lock'[l] = lock[l]
                          \/ lock[l] \in {Null, t} /\ lock'[l] \in {Null, t}
  BY <1>1, <1>3, <1>6, ReleaseEffect DEF OwnInv
<1>8. TypeOK'
  BY <1>1, <1>2, <1>3, <1>5, <1>7 DEF TypeOK
<1>9. Rely(t)
  <2>1. \A l : ~Writing(t, l)
    BY <1>2 DEF Writing, Copying
  <2> QED BY <1>3, <1>4, <1>5, <1>7, <2>1, LinesFacts DEF Rely
<1>10. LocalsShaped(t)' /\ BufferFaithful(t)'
  BY <1>1, <1>2, <1>3, <1>4 DEF OwnInv, LocalsShaped, BufferFaithful, Unlocked
<1>11. ReservationPlaced(t)' /\ Watched(t)' /\ Unchanged(t)'
  BY <1>2, <1>3, <1>4, <1>5 DEF ReservationPlaced, Watched, Unchanged
<1> QED BY <1>1, <1>5, <1>7, <1>8, <1>9, <1>10, <1>11, StepKeepsInv DEF OwnInv

\* A new thread object takes the place of the destroyed one.
LEMMA CreateInv ==
  ASSUME Inv, NEW t \in Threads, Create(t)
  PROVE  Inv'
<1>1. TypeOK /\ ReservationLinked /\ OwnInv(t) /\ t \in Agents /\ t \notin Hosts
  BY ConstantsAssumption DEF Inv, Agents
<1>2. pc[t] = "gone" /\ todo[t] = {} /\ line[t] = Null /\ watch[t] = Null
  BY <1>1 DEF Create, OwnInv, LocalsShaped, ReservationPlaced
<1>3. /\ pc' = [pc EXCEPT ![t] = "idle"]
      /\ line' = line
      /\ notify' = [notify EXCEPT ![t] = FALSE]
      /\ pending' = [pending EXCEPT ![t] = FALSE]
      /\ UNCHANGED <<mem, lock, granules, marked, cur, oth, todo, val, buf, view, watch>>
  BY <1>1, <1>2 DEF Create, Goto, TypeOK
<1>4. /\ pc'[t] = "idle" /\ \A b \in Agents \ {t} : pc'[b] = pc[b]
      /\ \A u \in Threads \ {t} : notify'[u] = notify[u] /\ pending'[u] = pending[u]
  BY <1>1, <1>3 DEF TypeOK
<1>5. TypeOK' /\ ReservationLinked'
  BY <1>1, <1>3 DEF TypeOK, ReservationLinked
<1>6. Rely(t)
  <2>1. \A l : ~Writing(t, l)
    BY <1>2 DEF Writing, Copying
  <2> QED BY <1>3, <1>4, <2>1 DEF Rely
<1>7. LocalsShaped(t)' /\ LockHeld(t)'
  BY <1>1, <1>2, <1>3, <1>4 DEF OwnInv, LocalsShaped, LockHeld, Holds, HoldsOne, Unlocked
<1>8. ReservationPlaced(t)' /\ BufferFaithful(t)' /\ Watched(t)' /\ Unchanged(t)'
  BY <1>1, <1>2, <1>3, <1>4 DEF OwnInv, ReservationPlaced, BufferFaithful, Watched, Unchanged
<1> QED BY <1>1, <1>5, <1>6, <1>7, <1>8, StepKeepsInv DEF OwnInv
-----------------------------------------------------------------------------
(* The theorems.                                                           *)

LEMMA InitInv ==
  ASSUME Init
  PROVE  Inv
<1>1. TypeOK
  BY ConstantsAssumption, EmptySeq DEF Init, TypeOK, Agents
<1>2. ReservationLinked
  BY LinesFacts DEF Init, ReservationLinked, exists
<1>3. ASSUME NEW a \in Agents PROVE OwnInv(a)
  <2>1. LocalsShaped(a) /\ LockHeld(a)
    BY LinesFacts DEF Init, LocalsShaped, LockHeld, Holds, HoldsOne, Unlocked, HostPcs
  <2>2. a \in Threads => ReservationPlaced(a) /\ BufferFaithful(a) /\ Unchanged(a) /\ Watched(a)
    BY DEF Init, ReservationPlaced, BufferFaithful, Unchanged, Watched
  <2> QED BY <2>1, <2>2 DEF OwnInv
<1> QED BY <1>1, <1>2, <1>3 DEF Inv

LEMMA NextInv ==
  ASSUME Inv, [Next]_vars
  PROVE  Inv'
<1>1. CASE UNCHANGED vars
  <2>1. UNCHANGED <<mem, lock, granules, line, notify, pending, marked,
                    pc, cur, oth, todo, val, buf, view, watch>>
    BY <1>1 DEF vars, shared, local
  <2>2. TypeOK' /\ ReservationLinked'
    BY <2>1 DEF Inv, TypeOK, ReservationLinked
  <2>3. ASSUME NEW a \in Agents PROVE OwnInv(a)'
    <3>1. OwnInv(a)
      BY DEF Inv
    <3>2. LocalsShaped(a)' /\ LockHeld(a)'
      BY <2>1, <3>1 DEF OwnInv, LocalsShaped, LockHeld, Holds, Hand
    <3>3. ASSUME a \in Threads
          PROVE  ReservationPlaced(a)' /\ BufferFaithful(a)' /\ Unchanged(a)' /\ Watched(a)'
      <4>1. ReservationPlaced(a)' /\ BufferFaithful(a)' /\ Watched(a)'
        BY <2>1, <3>1, <3>3 DEF OwnInv, ReservationPlaced, BufferFaithful, Watched
      <4>2. Unchanged(a)'
        BY <2>1, <3>1, <3>3 DEF OwnInv, Unchanged, Writing, Hand
      <4> QED BY <4>1, <4>2
    <3> QED BY <3>2, <3>3 DEF OwnInv
  <2> QED BY <2>2, <2>3 DEF Inv
<1>2. ASSUME NEW a \in Agents, Call(a) PROVE Inv'
  <2>1. CASE /\ a \in Threads
             /\ \/ \E R \in ReservedLocs(a) : LoadReserve(a, R)
                \/ \E R \in ReservedLocs(a), v \in Gives[a] : WriteCond(a, R, v)
                \/ \E l \in Lines, v \in Gives[a] : WriteUncond(a, LineLocs(l), v)
                \/ Acknowledge(a)
                \/ Destroy(a)
    BY <2>1, LoadReserveInv, WriteCondInv, WriteUncondInv, AcknowledgeInv, DestroyInv
  <2>2. CASE \E R \in ScalarLocs, v \in Gives[a] : Store(a, R, v)
    BY <2>2, StoreInv
  <2>3. CASE \E R \in Blocks, v \in Gives[a] : WriteMemory(a, R, v)
    BY <2>3, WriteMemoryInv
  <2>4. CASE \E R \in Blocks : ReadMemory(a, R)
    BY <2>4, ReadMemoryInv
  <2> QED BY <1>2, <2>1, <2>2, <2>3, <2>4 DEF Call
<1>3. ASSUME NEW a \in Agents, Continue(a) PROVE Inv'
  <2>1. CASE WriteWord(a) \/ ReadWord(a) \/ Mark(a) \/ RmReturn(a)
    BY <2>1, WriteWordInv, ReadWordInv, ReturningStepsInv
  <2>2. CASE StLock(a) \/ StLockNext(a) \/ StCommit(a) \/ WmLock(a) \/ WmCommit(a)
    BY <2>2, LockStepsInv, StCommitInv, WmCommitInv
  <2>3. CASE /\ a \in Threads
             /\ \/ LrLockOld(a) \/ LrDropOld(a) \/ LrLock(a) \/ LrReserve(a)
                \/ WcLock(a) \/ WcReserved(a) \/ WcFail(a) \/ WcCommit(a)
                \/ RgLock(a) \/ RgClear(a) \/ Create(a)
    BY <2>3, LockStepsInv, LrDropOldInv, LrReserveInv, WcReservedInv, ReturningStepsInv,
       WcCommitInv, RgClearInv, CreateInv
  <2> QED BY <1>3, <2>1, <2>2, <2>3 DEF Continue
<1> QED BY <1>1, <1>2, <1>3 DEF Next

\* The invariant holds in every state of every execution of the memory.
THEOREM MemoryInvariant == Spec => []Inv
<1>1. Init => Inv
  BY InitInv
<1>2. Inv /\ [Next]_vars => Inv'
  BY NextInv
<1> QED BY <1>1, <1>2, PTL DEF Spec

\* Type correctness.
THEOREM MemoryTypes == Spec => []TypeOK
<1>1. Inv => TypeOK
  BY DEF Inv
<1> QED BY <1>1, MemoryInvariant, PTL

\* A granule is in the vector of exactly the line it points to: the granule
\* vectors never hold a pointer to a granule that does not know of it.
THEOREM ReservationsLinked == Spec => []ReservationLinked
<1>1. Inv => ReservationLinked
  BY DEF Inv
<1> QED BY <1>1, MemoryInvariant, PTL

\* A reservation that is still in place means that nobody else has completed a
\* write to the line since the load.
THEOREM ReservationsMeanUnchanged == Spec => []ReservationMeansUnchanged
<1>1. Inv => ReservationMeansUnchanged
  BY DEF Inv, OwnInv, Agents, ReservationMeansUnchanged
<1> QED BY <1>1, MemoryInvariant, PTL

\* No SPU misses the lost-reservation event it waits for.
THEOREM LostEventsArrive == Spec => []NoMissedLostEvent
<1>1. ASSUME Inv PROVE NoMissedLostEvent
  <2> SUFFICES ASSUME NEW t \in Spus, watch[t] # Null,
                      \A a \in Agents \ {t} : ~Writing(a, watch[t]),
                      NEW w \in Words, mem[<<watch[t], w>>] # view[t][w],
                      ~pending[t]
               PROVE  FALSE
    BY <1>1 DEF NoMissedLostEvent, Inv, TypeOK
  <2>1. t \in Threads /\ OwnInv(t)
    BY <1>1, ConstantsAssumption DEF Inv, Agents
  <2>2. line[t] = watch[t] /\ view[t][w] # Null
    BY <2>1 DEF OwnInv, Watched
  <2>3. mem[<<line[t], w>>] = view[t][w]
    BY <2>1, <2>2 DEF OwnInv, Unchanged
  <2> QED BY <2>2, <2>3
<1>2. Inv => NoMissedLostEvent
  BY <1>1
<1> QED BY <1>2, MemoryInvariant, PTL
-----------------------------------------------------------------------------
(* The vectors do not grow without bound: a granule has one slot at most,  *)
(* and a vector grows only when every slot it has is taken.                *)

OneSlotEach(arr) == \A i, j \in DOMAIN arr : arr[i] = arr[j] /\ arr[i] # Null => i = j

SlotInv == \A l \in Lines : /\ OneSlotEach(granules[l])
                            /\ Len(granules[l]) <= Cardinality(Threads)

\* A vector without an empty slot and without g has fewer slots than granules.
LEMMA FullVectorIsShorter ==
  ASSUME NEW arr \in Seq(Threads \cup {Null}), NEW g \in Threads,
         OneSlotEach(arr), ~exists(arr, Null), ~exists(arr, g)
  PROVE  Len(arr) + 1 <= Cardinality(Threads)
<1>. DEFINE T == Threads \ {g}
<1>1. IsFiniteSet(T) /\ Cardinality(T) = Cardinality(Threads) - 1
      /\ Cardinality(T) \in Nat /\ Cardinality(Threads) \in Nat
  BY ThreadsFinite, FS_RemoveElement, FS_CardinalityType
<1>2. /\ DOMAIN arr = 1 .. Len(arr) /\ Len(arr) \in Nat
      /\ \A i \in 1 .. Len(arr) : arr[i] \in Threads \cup {Null}
      /\ arr = [i \in 1 .. Len(arr) |-> arr[i]]
  BY LenProperties, ElementOfSeq
<1>3. \A i \in 1 .. Len(arr) : arr[i] \in T /\ arr[i] # Null
  BY <1>2 DEF exists
<1>4. arr \in [1 .. Len(arr) -> T]
  BY <1>2, <1>3
<1>5. IsFiniteSet(1 .. Len(arr)) /\ Cardinality(1 .. Len(arr)) = Len(arr)
  <2>1. PICK n \in Nat : n = Len(arr)
    BY <1>2
  <2>2. /\ IsFiniteSet(1 .. n)
        /\ Cardinality(1 .. n) = IF 1 > n THEN 0 ELSE n - 1 + 1
    BY FS_Interval
  <2>. QED BY <2>1, <2>2
<1>6. ~(Cardinality(T) < Len(arr))
  <2>1. ASSUME Cardinality(T) < Len(arr)
        PROVE  \E i, j \in 1 .. Len(arr) : i # j /\ arr[i] = arr[j]
    <3>. HIDE DEF T
    <3>. QED BY <1>1, <1>4, <1>5, <2>1, FS_PigeonHole
  <2>. QED BY <1>2, <1>3, <2>1 DEF OneSlotEach
<1>. QED BY <1>1, <1>2, <1>6

LEMMA InsertKeepsSlots ==
  ASSUME NEW arr \in Seq(Threads \cup {Null}), NEW g \in Threads,
         OneSlotEach(arr), Len(arr) <= Cardinality(Threads), ~exists(arr, g)
  PROVE  OneSlotEach(insert(arr, g)) /\ Len(insert(arr, g)) <= Cardinality(Threads)
<1>1. DOMAIN arr = 1 .. Len(arr) /\ Len(arr) \in Nat
  BY LenProperties
<1>2. CASE exists(arr, Null)
  <2>1. PICK f : f = firstFree(arr)
    OBVIOUS
  <2>2. f \in 1 .. Len(arr)
    BY <1>1, <1>2, <2>1, FirstFreeIsASlot
  <2>3. PICK new : new = [arr EXCEPT ![f] = g]
    OBVIOUS
  <2>4. /\ insert(arr, g) = new /\ DOMAIN new = DOMAIN arr
        /\ new[f] = g /\ \A j \in DOMAIN arr : j # f => new[j] = arr[j]
    BY <1>1, <1>2, <2>1, <2>2, <2>3 DEF insert
  <2>5. Len(new) = Len(arr)
    BY <2>2, <2>3, ExceptSeq
  <2>6. OneSlotEach(new)
    BY <2>4 DEF OneSlotEach, exists
  <2>. QED BY <2>4, <2>5, <2>6
<1>3. CASE ~exists(arr, Null)
  <2>1. PICK new : new = Append(arr, g)
    OBVIOUS
  <2>2. /\ new \in Seq(Threads \cup {Null})
        /\ Len(new) = Len(arr) + 1
        /\ \A j \in 1 .. Len(arr) : new[j] = arr[j]
        /\ new[Len(arr) + 1] = g
    BY <2>1, AppendProperties
  <2>3. DOMAIN new = 1 .. Len(arr) + 1
    BY <2>2, LenProperties
  <2>4. OneSlotEach(new)
    BY <1>1, <2>2, <2>3 DEF OneSlotEach, exists
  <2>5. Len(new) <= Cardinality(Threads)
    BY <1>3, <2>2, FullVectorIsShorter
  <2>. QED BY <1>3, <2>1, <2>4, <2>5 DEF insert
<1>. QED BY <1>2, <1>3

\* The other methods only empty slots or shorten the vector.
LEMMA RemovalKeepsSlots ==
  ASSUME NEW arr \in Seq(Threads \cup {Null}), NEW g \in Threads \cup {Null},
         OneSlotEach(arr), Len(arr) <= Cardinality(Threads)
  PROVE  /\ OneSlotEach(clear(arr)) /\ Len(clear(arr)) <= Cardinality(Threads)
         /\ OneSlotEach(clearOne(arr, g)) /\ Len(clearOne(arr, g)) <= Cardinality(Threads)
         /\ OneSlotEach(clearExcept(arr, g)) /\ Len(clearExcept(arr, g)) <= Cardinality(Threads)
<1>1. /\ DOMAIN arr = 1 .. Len(arr) /\ Len(arr) \in Nat
      /\ \A i \in 1 .. Len(arr) : arr[i] \in Threads \cup {Null}
  BY LenProperties, ElementOfSeq
<1>2. Cardinality(Threads) \in Nat
  BY ThreadsFinite, FS_CardinalityType
<1>3. OneSlotEach(<< >>) /\ Len(<< >>) <= Cardinality(Threads)
  BY <1>2 DEF OneSlotEach
<1>4. OneSlotEach(clearOne(arr, g)) /\ Len(clearOne(arr, g)) <= Cardinality(Threads)
  <2>1. PICK new : new = clearOne(arr, g)
    OBVIOUS
  <2>2. /\ DOMAIN new = 1 .. Len(arr)
        /\ \A i \in 1 .. Len(arr) : new[i] = IF arr[i] = g THEN Null ELSE arr[i]
        /\ new \in [1 .. Len(arr) -> Threads \cup {Null}]
    BY <1>1, <2>1 DEF clearOne
  <2>3. new \in Seq(Threads \cup {Null}) /\ Len(new) = Len(arr)
    BY <1>1, <2>2, SeqDef, LenProperties
  <2>4. OneSlotEach(new)
    BY <1>1, <2>2 DEF OneSlotEach
  <2>. QED BY <2>1, <2>3, <2>4
<1>5. OneSlotEach(clearExcept(arr, g)) /\ Len(clearExcept(arr, g)) <= Cardinality(Threads)
  <2>1. CASE g = Null \/ ~exists(arr, g)
    BY <1>3, <2>1 DEF clearExcept
  <2>2. CASE g # Null /\ exists(arr, g)
    <3>1. PICK n : n = lastIndex(arr, g)
      OBVIOUS
    <3>2. n \in 1 .. Len(arr)
      BY <1>1, <2>2, <3>1, LastIndexIsASlot
    <3>3. PICK new : new = clearExcept(arr, g)
      OBVIOUS
    <3>4. /\ DOMAIN new = 1 .. n
          /\ \A i \in 1 .. n : new[i] = IF arr[i] = g THEN g ELSE Null
          /\ new \in [1 .. n -> Threads \cup {Null}]
      BY <1>1, <2>2, <3>1, <3>2, <3>3 DEF clearExcept
    <3>5. new \in Seq(Threads \cup {Null}) /\ Len(new) = n
      BY <3>2, <3>4, SeqDef, LenProperties
    <3>6. OneSlotEach(new)
      BY <1>1, <2>2, <3>2, <3>4 DEF OneSlotEach
    <3>7. n <= Cardinality(Threads)
      BY <1>1, <1>2, <3>2
    <3>. QED BY <3>3, <3>5, <3>6, <3>7
  <2>. QED BY <2>1, <2>2
<1>. QED BY <1>3, <1>4, <1>5 DEF clear

LEMMA SlotsNext ==
  ASSUME Inv, SlotInv, [Next]_vars
  PROVE  SlotInv'
<1>0. /\ TypeOK /\ ReservationLinked /\ \A a \in Agents : OwnInv(a)
      /\ \A l \in Lines : granules[l] \in Seq(Threads \cup {Null})
  BY DEF Inv, TypeOK
<1>1. ASSUME granules' = granules PROVE SlotInv'
  BY <1>1 DEF SlotInv
<1>2. ASSUME NEW k \in Lines, NEW new, granules' = [granules EXCEPT ![k] = new],
             OneSlotEach(new), Len(new) <= Cardinality(Threads)
      PROVE  SlotInv'
  BY <1>0, <1>2 DEF SlotInv, TypeOK
<1>3. ASSUME NEW a, NEW k \in Lines, DestroySingleLine(a, k) PROVE SlotInv'
  <2>1. /\ granules' = [granules EXCEPT ![k] = clear(granules[k])]
        /\ OneSlotEach(clear(granules[k])) /\ Len(clear(granules[k])) <= Cardinality(Threads)
    BY <1>0, <1>3, RemovalKeepsSlots DEF DestroySingleLine, SlotInv
  <2>. QED BY <1>2, <2>1
<1>4. ASSUME NEW a, NEW ls, DestroyExcept(a, ls) PROVE SlotInv'
  <2>1. granule(a) \in Threads \cup {Null}
    BY DEF granule
  <2>2. granules' = [l \in Lines |-> IF l \in ls THEN clearExcept(granules[l], granule(a))
                                     ELSE granules[l]]
    BY <1>4 DEF DestroyExcept
  <2>3. ASSUME NEW l \in Lines
        PROVE  OneSlotEach(granules'[l]) /\ Len(granules'[l]) <= Cardinality(Threads)
    BY <1>0, <2>1, <2>2, RemovalKeepsSlots DEF SlotInv
  <2>. QED BY <2>3 DEF SlotInv
<1>5. ASSUME NEW a \in Agents, Call(a) PROVE SlotInv'
  BY <1>1, <1>5 DEF Call, LoadReserve, WriteCond, WriteUncond, Acknowledge, Destroy, Store,
     WriteMemory, ReadMemory, shared
<1>6. ASSUME NEW a \in Agents,
             WriteWord(a) \/ ReadWord(a) \/ Mark(a) \/ RmReturn(a)
               \/ StLock(a) \/ StLockNext(a) \/ WmLock(a)
      PROVE  SlotInv'
  BY <1>1, <1>6 DEF WriteWord, ReadWord, Mark, RmReturn, StLock, StLockNext, WmLock, shared
<1>7. ASSUME NEW a \in Agents, StCommit(a) \/ WmCommit(a) PROVE SlotInv'
  BY <1>4, <1>7 DEF StCommit, WmCommit
<1>8. ASSUME NEW t \in Threads,
             \/ LrLockOld(t) \/ LrLock(t) \/ WcLock(t) \/ WcReserved(t) \/ WcFail(t)
             \/ RgLock(t) \/ Create(t)
      PROVE  SlotInv'
  BY <1>1, <1>8 DEF LrLockOld, LrLock, WcLock, WcReserved, WcFail, RgLock, Create, shared
<1>9. ASSUME NEW t \in Threads, LrDropOld(t) PROVE SlotInv'
  <2>1. CASE line[t] # Null
    <3>1. PICK k \in Lines : k = line[t]
      BY <1>0, <2>1 DEF TypeOK
    <3>2. granules' = [granules EXCEPT ![k] = clearOne(granules[k], t)]
      BY <1>9, <2>1, <3>1 DEF LrDropOld
    <3>3. OneSlotEach(clearOne(granules[k], t)) /\ Len(clearOne(granules[k], t)) <= Cardinality(Threads)
      BY <1>0, RemovalKeepsSlots DEF SlotInv
    <3>. QED BY <1>2, <3>2, <3>3
  <2>2. CASE line[t] = Null
    BY <1>1, <1>9, <2>2 DEF LrDropOld
  <2>. QED BY <2>1, <2>2
<1>10. ASSUME NEW t \in Threads, LrReserve(t) PROVE SlotInv'
  <2>1. OwnInv(t)
    BY <1>0 DEF Agents
  <2>2. PICK k \in Lines : k = cur[t]
    BY <1>10, <2>1 DEF LrReserve, OwnInv, LocalsShaped, Unlocked
  <2>3. line[t] = Null
    BY <1>10, <2>1 DEF LrReserve, OwnInv, ReservationPlaced
  <2>4. ~exists(granules[k], t)
    BY <1>0, <2>3, LinesFacts DEF ReservationLinked
  <2>5. granules' = [granules EXCEPT ![k] = insert(granules[k], t)]
    BY <1>10, <2>2 DEF LrReserve
  <2>6. OneSlotEach(insert(granules[k], t)) /\ Len(insert(granules[k], t)) <= Cardinality(Threads)
    BY <1>0, <2>4, InsertKeepsSlots DEF SlotInv
  <2>. QED BY <1>2, <2>5, <2>6
<1>11. ASSUME NEW t \in Threads, WcCommit(t) PROVE SlotInv'
  <2>1. cur[t] \in Lines
    BY <1>0, <1>11 DEF WcCommit, OwnInv, LocalsShaped, Unlocked, Agents
  <2>. QED BY <1>3, <1>11, <2>1 DEF WcCommit
<1>12. ASSUME NEW t \in Threads, RgClear(t) PROVE SlotInv'
  <2>1. cur[t] \in Lines
    BY <1>0, <1>12 DEF RgClear, OwnInv, LocalsShaped, Unlocked, Agents
  <2>. QED BY <1>3, <1>12, <2>1 DEF RgClear
<1>13. CASE UNCHANGED vars
  BY <1>1, <1>13 DEF vars, shared
<1>14. ASSUME NEW a \in Agents, Continue(a) PROVE SlotInv'
  BY <1>6, <1>7, <1>8, <1>9, <1>10, <1>11, <1>12, <1>14 DEF Continue
<1>. QED BY <1>5, <1>13, <1>14 DEF Next

\* A line never has more slots than there are granules, however many reservations
\* come and go.  Behaviour: insert, clearOne, clearExcept.
THEOREM SlotsStayBounded == Spec => []SlotsBounded
<1>1. Init => SlotInv
  <2>1. Cardinality(Threads) \in Nat
    BY ThreadsFinite, FS_CardinalityType
  <2>2. OneSlotEach(<< >>) /\ Len(<< >>) <= Cardinality(Threads)
    BY <2>1 DEF OneSlotEach
  <2>. QED BY <2>2 DEF Init, SlotInv
<1>2. Inv /\ SlotInv /\ [Next]_vars => SlotInv'
  BY SlotsNext
<1>3. SlotInv => SlotsBounded
  BY DEF SlotInv, SlotsBounded
<1>. QED BY <1>1, <1>2, <1>3, MemoryInvariant, PTL DEF Spec
-----------------------------------------------------------------------------
(* No deadlock over the spin locks: a store that crosses into the next line  *)
(* is the only operation that asks for a lock while it holds one, and it     *)
(* asks for the one that follows.                                            *)

\* The agent spins on the lock of the line.
Waits(a, l) ==
  \/ pc[a] \in {"lr_old", "lr_lock", "wc_lock", "uc_lock", "st_lock", "wm_lock", "rg_lock"}
     /\ l = cur[a]
  \/ pc[a] = "st_next" /\ l = oth[a]

\* Each of the agents spins on a lock that one of them holds.
Deadlocked(S) == \A a \in S : \E l \in Lines : Waits(a, l) /\ lock[l] \in S
NoDeadlock == \A S \in (SUBSET Agents) \ {{}} : ~Deadlocked(S)

Ascends(a) == pc[a] \in {"st_lock", "st_next"} /\ oth[a] # Null => oth[a] = cur[a] + 1
AscendInv == \A a \in Agents : Ascends(a)

LEMMA AscendNext ==
  ASSUME Inv, AscendInv, [Next]_vars
  PROVE  AscendInv'
<1>1. TypeOK
  BY DEF Inv
<1>2. ASSUME UNCHANGED <<pc, cur, oth>> PROVE AscendInv'
  BY <1>2 DEF AscendInv, Ascends
<1>3. ASSUME NEW a \in Agents, \A b \in Agents \ {a} : pc'[b] = pc[b] /\ cur'[b] = cur[b] /\ oth'[b] = oth[b],
             pc'[a] \notin {"st_lock", "st_next"} \/ Ascends(a)'
      PROVE  AscendInv'
  BY <1>3 DEF AscendInv, Ascends
<1>4. ASSUME NEW a \in Agents, NEW op, NEW where, NEW l, NEW second, NEW R, NEW v,
             Begin(a, op, where, l, second, R, v),
             where = "st_lock" => second \in {Null, l + 1}, where # "st_next"
      PROVE  AscendInv'
  BY <1>1, <1>3, <1>4, BeginLocals DEF Ascends
<1>5. ASSUME NEW a \in Agents, NEW where, Goto(a, where), where # "st_lock",
             where = "st_next" => pc[a] = "st_lock" /\ UNCHANGED <<cur, oth>>,
             \A b \in Agents \ {a} : cur'[b] = cur[b] /\ oth'[b] = oth[b]
      PROVE  AscendInv'
  <2>1. pc'[a] = where /\ \A b \in Agents \ {a} : pc'[b] = pc[b]
    BY <1>1, <1>5 DEF Goto, TypeOK
  <2>. QED BY <1>3, <1>5, <2>1 DEF AscendInv, Ascends
<1>6. ASSUME NEW a \in Agents, Return(a) PROVE AscendInv'
  BY <1>1, <1>5, <1>6 DEF Return, TypeOK
<1>7. ASSUME NEW a \in Agents, NEW R, NEW v, Store(a, R, v) PROVE AscendInv'
  BY <1>4, <1>7 DEF Store
<1>8. ASSUME NEW a \in Agents, Call(a) PROVE AscendInv'
  BY <1>2, <1>4, <1>7, <1>8 DEF Call, LoadReserve, WriteCond, WriteUncond, Acknowledge, Destroy,
     WriteMemory, ReadMemory, local
<1>9. ASSUME NEW a \in Agents,
             \/ WriteWord(a) \/ ReadWord(a) \/ Mark(a) \/ RmReturn(a) \/ StLock(a) \/ StLockNext(a)
             \/ StCommit(a) \/ WmLock(a) \/ WmCommit(a)
      PROVE  AscendInv'
  <2>1. CASE WriteWord(a) \/ ReadWord(a)
    BY <1>2, <2>1 DEF WriteWord, ReadWord
  <2>2. CASE Mark(a) \/ RmReturn(a)
    BY <1>6, <2>2 DEF Mark, RmReturn
  <2>3. CASE StLock(a) \/ StLockNext(a) \/ StCommit(a) \/ WmLock(a)
    BY <1>5, <2>3 DEF StLock, StLockNext, StCommit, WmLock
  <2>4. CASE WmCommit(a)
    BY <1>1, <1>5, <1>6, <2>4 DEF WmCommit, TypeOK
  <2>. QED BY <1>9, <2>1, <2>2, <2>3, <2>4
<1>10. ASSUME NEW t \in Threads,
              \/ LrLockOld(t) \/ LrDropOld(t) \/ LrLock(t) \/ LrReserve(t) \/ WcLock(t)
              \/ WcReserved(t) \/ WcFail(t) \/ WcCommit(t) \/ RgLock(t) \/ RgClear(t) \/ Create(t)
       PROVE  AscendInv'
  <2>0. t \in Agents
    BY DEF Agents
  <2>1. CASE LrReserve(t) \/ WcFail(t)
    BY <1>6, <2>0, <2>1 DEF LrReserve, WcFail
  <2>2. CASE LrDropOld(t) \/ RgClear(t)
    BY <1>1, <1>5, <2>0, <2>2 DEF LrDropOld, RgClear, TypeOK
  <2>3. CASE LrLockOld(t) \/ LrLock(t) \/ WcReserved(t) \/ WcCommit(t) \/ RgLock(t) \/ Create(t)
    BY <1>5, <2>0, <2>3 DEF LrLockOld, LrLock, WcReserved, WcCommit, RgLock, Create
  <2>4. CASE WcLock(t)
    BY <1>5, <2>0, <2>4 DEF WcLock
  <2>. QED BY <1>10, <2>1, <2>2, <2>3, <2>4
<1>11. CASE UNCHANGED vars
  BY <1>2, <1>11 DEF vars, local
<1>. QED BY <1>8, <1>9, <1>10, <1>11 DEF Next, Continue

\* A nonempty set of lines has a last one.
LEMMA LastLine ==
  ASSUME NEW L \in SUBSET Lines, L # {}
  PROVE  \E l \in L : \A k \in L : k <= l
<1>1. NLines \in Nat /\ L \subseteq Nat /\ \A l \in L : NLines - l \in Nat
  BY ConstantsAssumption DEF Lines
<1>2. PICK m \in {NLines - l : l \in L} : \A k \in {NLines - l : l \in L} : m <= k
  BY <1>1, LeastNatural
<1>3. PICK l \in L : m = NLines - l
  BY <1>2
<1>4. ASSUME NEW k \in L PROVE k <= l
  <2>1. NLines - l <= NLines - k
    BY <1>2, <1>3
  <2>. QED BY <1>1, <2>1
<1>. QED BY <1>4

\* Who is waited for and waits has asked for the line after.
LEMMA AsksForTheNext ==
  ASSUME Inv, AscendInv, NEW b \in Agents, NEW l \in Lines, lock[l] = b,
         NEW k \in Lines, Waits(b, k)
  PROVE  k = l + 1
<1>1. OwnInv(b) /\ Ascends(b)
  BY DEF Inv, AscendInv
<1>2. Holds(b, l)
  BY <1>1 DEF OwnInv, LockHeld
<1>3. pc[b] = "st_next" /\ l = cur[b] /\ k = oth[b]
  BY <1>2 DEF Waits, Holds, HoldsOne
<1>. QED BY <1>1, <1>3, LinesFacts DEF Ascends

\* However the operations of the threads meet on the lines, and however many
\* stores cross from one line to the next, there is no set of threads each of
\* which spins on a lock that another of them holds.  Behaviour: store takes the
\* lock of the first line and then that of the second, loadReserve lets go of the
\* old line before it locks the new one, writeMemory locks one line at a time.
THEOREM SpinLocksDoNotDeadlock == Spec => []NoDeadlock
<1>1. Init => AscendInv
  BY DEF Init, AscendInv, Ascends
<1>2. Inv /\ AscendInv /\ [Next]_vars => AscendInv'
  BY AscendNext
<1>3. ASSUME Inv, AscendInv PROVE NoDeadlock
  <2>. SUFFICES ASSUME NEW S \in SUBSET Agents, S # {}, Deadlocked(S) PROVE FALSE
    BY DEF NoDeadlock
  <2>. DEFINE L == {l \in Lines : \E a \in S : Waits(a, l) /\ lock[l] \in S}
  <2>1. L # {}
    BY DEF Deadlocked
  <2>2. PICK l \in L : \A k \in L : k <= l
    BY <2>1, LastLine
  <2>3. PICK k \in Lines : Waits(lock[l], k) /\ lock[k] \in S
    BY <2>2 DEF Deadlocked
  <2>4. k \in L
    BY <2>2, <2>3
  <2>5. k = l + 1
    BY <1>3, <2>2, <2>3, AsksForTheNext
  <2>. QED BY <2>2, <2>4, <2>5, LinesFacts
<1>. QED BY <1>1, <1>2, <1>3, MemoryInvariant, PTL DEF Spec
=============================================================================
