--------------------------- MODULE RewriterProofs ---------------------------
(***************************************************************************)
(* Theorems about Rewriter, for any segments.                              *)
(*                                                                         *)
(* What the recursive functions of the module compute is proved by an      *)
(* induction over the set of the numbers for which it holds.  The parts of *)
(* the proof: a search of the reversed graph leaves the greatest set of    *)
(* blocks without a bad one that nothing leads out of; a split leaves no   *)
(* place inside of a block; and a scan of a block finds whatever the block *)
(* loads into the register it branches through.                            *)
(***************************************************************************)
EXTENDS Rewriter, FiniteSetTheorems, WellFoundedInduction, TLAPS

\* A set of natural numbers has a least element.
LEMMA LeastNumber == ASSUME NEW T, T \subseteq Nat, T # {} PROVE \E x \in T : \A y \in T : x <= y
<1>. DEFINE R == OpToRel(<, Nat)
<1>1. IsWellFoundedOn(R, Nat)
  BY NatLessThanWellFounded
<1>2. \A x, y \in Nat : <<y, x>> \in R <=> y < x
  BY DEF OpToRel
<1>. HIDE DEF R
<1>3. PICK x \in T : \A y \in T : ~(<<y, x>> \in R)
  BY <1>1, WFMin
<1>4. ASSUME NEW y \in T PROVE x <= y
  <2>1. x \in Nat /\ y \in Nat
    OBVIOUS
  <2>2. ~(y < x)
    BY <1>2, <1>3, <2>1
  <2>. QED BY <2>1, <2>2
<1>. QED BY <1>4

\* Min of the community modules is what it says.
LEMMA MinIs == ASSUME NEW T, T \subseteq Nat, T # {} PROVE Min(T) \in T /\ \A y \in T : Min(T) <= y
BY LeastNumber DEF Min

\* Induction up to a bound, over the set of the numbers with a property.
LEMMA UpTo ==
  ASSUME NEW lo \in Nat, NEW hi \in Nat, NEW P, lo \in P,
         \A n \in lo .. hi : n \in P /\ n < hi => n + 1 \in P
  PROVE  lo .. hi \subseteq P
<1>. DEFINE T == (lo .. hi) \ P
<1>1. ASSUME T # {} PROVE FALSE
  <2>1. T \subseteq Nat
    OBVIOUS
  <2>2. PICK n \in T : \A k \in T : n <= k
    BY <1>1, <2>1, LeastNumber
  <2>3. n \in lo .. hi /\ n \notin P /\ n # lo
    BY <2>2
  <2>4. n - 1 \in lo .. hi /\ n - 1 < hi /\ n - 1 + 1 = n /\ ~(n <= n - 1)
    BY <2>3
  <2>5. n - 1 \in P
    BY <2>2, <2>4
  <2>. QED BY <2>3, <2>4, <2>5
<1>. QED BY <1>1

\* A recursion over numbers defines a function.
Closed(G, lo, hi, V) == \A n \in lo + 1 .. hi : \A x \in V : G[<<n, x>>] \in V

Recursion(f, lo, hi, V, v, G) ==
  /\ f \in [lo .. hi -> V]
  /\ \A n \in lo .. hi : f[n] = IF n = lo THEN v ELSE G[<<n, f[n - 1]>>]

LEMMA RecursionExists ==
  ASSUME NEW lo \in Nat, NEW hi \in Nat, lo <= hi, NEW V, NEW v \in V, NEW G, Closed(G, lo, hi, V)
  PROVE  \E f : Recursion(f, lo, hi, V, v, G)
<1>. DEFINE Solves(f, m) == \A n \in lo .. m : f[n] = IF n = lo THEN v ELSE G[<<n, f[n - 1]>>]
            P == {m \in Nat : \E f \in [lo .. m -> V] : Solves(f, m)}
<1>1. lo \in P
  <2>1. [n \in lo .. lo |-> v] \in [lo .. lo -> V] /\ Solves([n \in lo .. lo |-> v], lo)
    OBVIOUS
  <2>. QED BY <2>1
<1>2. ASSUME NEW m \in lo .. hi, m \in P, m < hi PROVE m + 1 \in P
  <2>1. PICK f \in [lo .. m -> V] : Solves(f, m)
    BY <1>2
  <2>. DEFINE g == [n \in lo .. m + 1 |-> IF n \in lo .. m THEN f[n] ELSE G[<<m + 1, f[m]>>]]
  <2>2. m \in Nat /\ m \in lo .. m /\ f[m] \in V /\ m + 1 \in Nat /\ m + 1 \in lo + 1 .. hi
    BY <1>2
  <2>3. g \in [lo .. m + 1 -> V]
    <3>1. G[<<m + 1, f[m]>>] \in V
      BY <2>2 DEF Closed
    <3>. QED BY <3>1
  <2>4. ASSUME NEW n \in lo .. m PROVE g[n] = IF n = lo THEN v ELSE G[<<n, g[n - 1]>>]
    <3>1. n \in lo .. m + 1 /\ g[n] = f[n]
      OBVIOUS
    <3>2. n # lo => n - 1 \in lo .. m /\ n - 1 \in lo .. m + 1 /\ g[n - 1] = f[n - 1]
      OBVIOUS
    <3>3. f[n] = IF n = lo THEN v ELSE G[<<n, f[n - 1]>>]
      BY <2>1
    <3>. HIDE DEF g
    <3>. QED BY <3>1, <3>2, <3>3
  <2>5. g[m + 1] = G[<<m + 1, g[m]>>] /\ m + 1 # lo
    <3>1. m + 1 \in lo .. m + 1 /\ m \in lo .. m + 1 /\ m + 1 \notin lo .. m /\ m + 1 # lo
      BY <2>2
    <3>2. g[m] = f[m] /\ g[m + 1] = G[<<m + 1, f[m]>>]
      BY <2>2, <3>1
    <3>. HIDE DEF g
    <3>. QED BY <3>1, <3>2
  <2>6. Solves(g, m + 1)
    <3>1. \A n \in lo .. m + 1 : n \in lo .. m \/ n = m + 1
      OBVIOUS
    <3>2. m + 1 - 1 = m
      OBVIOUS
    <3>. HIDE DEF g
    <3>. QED BY <2>4, <2>5, <3>1, <3>2
  <2>. HIDE DEF g, Solves
  <2>. QED BY <2>2, <2>3, <2>6
<1>3. hi \in P
  <2>. HIDE DEF P
  <2>1. hi \in lo .. hi
    OBVIOUS
  <2>. QED BY <1>1, <1>2, <2>1, UpTo
<1>. QED BY <1>3 DEF Recursion

-----------------------------------------------------------------------------
(* removeVertices.                                                         *)

\* What a step of the search finds, of what it has found.
reach(bs, X) == X \cup {b \in bs : edges(bs, b) \cap X # {}}

\* The search, until nothing new can be found.
Finds(found, bs, bad) ==
  found = [n \in 0 .. Cardinality(bs) |-> IF n = 0 THEN bad ELSE reach(bs, found[n - 1])]

LEMMA FindsExists ==
  ASSUME NEW bs, IsFiniteSet(bs), NEW bad \in SUBSET bs
  PROVE  \E found : Finds(found, bs, bad)
<1>. DEFINE G == [a \in Nat \X SUBSET bs |-> reach(bs, a[2])]
<1>1. \A X \in SUBSET bs : reach(bs, X) \in SUBSET bs
  BY DEF reach
<1>2. G \in [Nat \X SUBSET bs -> SUBSET bs] /\ \A n \in Nat, X \in SUBSET bs : G[<<n, X>>] = reach(bs, X)
  BY <1>1
<1>. DEFINE m == Cardinality(bs)
            V == SUBSET bs
<1>3. m \in Nat /\ 0 \in Nat /\ 0 <= m
  BY FS_CardinalityType
<1>4. PICK f : Recursion(f, 0, m, V, bad, G)
  <2>1. bad \in V /\ Closed(G, 0, m, V)
    BY <1>1, <1>3 DEF Closed
  <2>. HIDE DEF G, m, V
  <2>. QED BY <1>3, <2>1, RecursionExists
<1>5. \A n \in 0 .. m : f[n] = IF n = 0 THEN bad ELSE reach(bs, f[n - 1])
  <2>1. \A n \in 0 .. m : n # 0 => n \in Nat /\ n - 1 \in 0 .. m
    BY <1>3
  <2>2. \A n \in 0 .. m : f[n] \in V /\ f[n] = IF n = 0 THEN bad ELSE G[<<n, f[n - 1]>>]
    BY <1>4 DEF Recursion
  <2>. HIDE DEF G, m
  <2>. QED BY <1>2, <2>1, <2>2
<1>6. f = [n \in 0 .. m |-> f[n]]
  BY <1>4 DEF Recursion
<1>. HIDE DEF m
<1>. QED BY <1>5, <1>6 DEF Finds, m

\* When it has made as many steps as there are blocks the search has found all
\* that leads to a bad block, and nothing else.
LEMMA RemovesVertices ==
  ASSUME NEW bs, IsFiniteSet(bs), NEW bad \in SUBSET bs
  PROVE  removeVertices(bs, bad) = greatestWithout(bs, bad)
<1>. DEFINE N == Cardinality(bs)
<1>1. PICK found : Finds(found, bs, bad) /\ removeVertices(bs, bad) = bs \ found[N]
  <2>1. (CHOOSE found : Finds(found, bs, bad)) = CHOOSE found :
          found = [n \in 0 .. N |-> IF n = 0 THEN bad
                                    ELSE found[n - 1] \cup {b \in bs : edges(bs, b) \cap found[n - 1] # {}}]
    BY DEF Finds, reach
  <2>2. Finds(CHOOSE found : Finds(found, bs, bad), bs, bad)
    BY FindsExists
  <2>. QED BY <2>1, <2>2 DEF removeVertices
<1>2. N \in Nat
  BY FS_CardinalityType
<1>3. found[0] = bad /\ \A n \in 0 .. N : n < N => found[n + 1] = reach(bs, found[n])
  <2>1. \A n \in 0 .. N : n < N => n + 1 \in 0 .. N /\ n + 1 # 0 /\ n + 1 - 1 = n
    BY <1>2
  <2>2. 0 \in 0 .. N
    BY <1>2
  <2>. HIDE DEF N
  <2>. QED BY <1>1, <2>1, <2>2 DEF Finds, N
<1>. DEFINE In == {n \in 0 .. N : found[n] \in SUBSET bs /\ bad \subseteq found[n]}
            Full == {n \in 0 .. N : reach(bs, found[n]) = found[n] \/ Cardinality(found[n]) >= n}
<1>4. 0 .. N \subseteq In
  <2>1. 0 \in In
    BY <1>2, <1>3
  <2>2. ASSUME NEW n \in 0 .. N, n \in In, n < N PROVE n + 1 \in In
    BY <1>2, <1>3, <2>2 DEF reach
  <2>. HIDE DEF In, N
  <2>. QED BY <1>2, <2>1, <2>2, UpTo
<1>5. 0 .. N \subseteq Full
  <2>1. 0 \in Full
    <3>1. IsFiniteSet(bad)
      BY FS_Subset
    <3>. QED BY <1>2, <1>3, <3>1, FS_CardinalityType
  <2>2. ASSUME NEW n \in 0 .. N, n \in Full, n < N PROVE n + 1 \in Full
    <3>1. found[n + 1] = reach(bs, found[n]) /\ n + 1 \in 0 .. N /\ n \in Nat
      BY <1>2, <1>3, <2>2
    <3>2. CASE reach(bs, found[n]) = found[n]
      BY <3>1, <3>2
    <3>3. CASE reach(bs, found[n]) # found[n]
      <4>1. Cardinality(found[n]) >= n
        BY <2>2, <3>3
      <4>2. found[n] \subseteq found[n + 1] /\ found[n] # found[n + 1]
        BY <3>1, <3>3 DEF reach
      <4>3. IsFiniteSet(found[n + 1])
        BY <1>4, <3>1, FS_Subset
      <4>4. Cardinality(found[n]) <= Cardinality(found[n + 1])
            /\ Cardinality(found[n]) # Cardinality(found[n + 1])
        BY <4>2, <4>3, FS_Subset
      <4>5. Cardinality(found[n]) \in Nat /\ Cardinality(found[n + 1]) \in Nat
        BY <4>2, <4>3, FS_Subset, FS_CardinalityType
      <4>6. Cardinality(found[n + 1]) >= n + 1
        BY <3>1, <4>1, <4>4, <4>5
      <4>. QED BY <3>1, <4>6
    <3>. QED BY <3>2, <3>3
  <2>. HIDE DEF Full, N
  <2>. QED BY <1>2, <2>1, <2>2, UpTo
<1>. DEFINE R == found[N]
<1>6. R \in SUBSET bs /\ bad \subseteq R
  BY <1>2, <1>4
<1>7. reach(bs, R) = R
  <2>1. N \in Full
    BY <1>2, <1>5
  <2>2. CASE Cardinality(R) >= N
    <3>1. R = bs
      <4>1. Cardinality(R) \in Nat
        BY <1>6, FS_Subset, FS_CardinalityType
      <4>2. Cardinality(R) <= N
        BY <1>6, FS_Subset
      <4>3. Cardinality(R) = N
        <5>. HIDE DEF R, N
        <5>. QED BY <1>2, <2>2, <4>1, <4>2
      <4>. HIDE DEF R
      <4>. QED BY <1>6, <4>3, FS_Subset
    <3>. HIDE DEF R
    <3>. QED BY <3>1 DEF reach
  <2>. QED BY <2>1, <2>2
<1>8. bs \ R \subseteq greatestWithout(bs, bad)
  <2>. HIDE DEF R
  <2>1. bs \ R \in SUBSET (bs \ bad)
    BY <1>6
  <2>2. \A b \in bs \ R : edges(bs, b) \subseteq bs \ R
    BY <1>7 DEF reach, edges
  <2>. QED BY <2>1, <2>2 DEF greatestWithout
<1>9. ASSUME NEW s \in SUBSET (bs \ bad), \A b \in s : edges(bs, b) \subseteq s
      PROVE  s \cap R = {}
  <2>. DEFINE Out == {n \in 0 .. N : s \cap found[n] = {}}
  <2>1. 0 \in Out
    BY <1>2, <1>3
  <2>2. ASSUME NEW n \in 0 .. N, n \in Out, n < N PROVE n + 1 \in Out
    BY <1>2, <1>3, <1>9, <2>2 DEF reach
  <2>3. 0 .. N \subseteq Out
    <3>. HIDE DEF Out, N
    <3>. QED BY <1>2, <2>1, <2>2, UpTo
  <2>. QED BY <1>2, <2>3
<1>10. greatestWithout(bs, bad) \subseteq bs \ R
  <2>. HIDE DEF R
  <2>. QED BY <1>9 DEF greatestWithout
<1>. QED BY <1>1, <1>8, <1>10

-----------------------------------------------------------------------------
(* splitBlocks.                                                            *)

\* A stretch that is not empty.
Stretches == [start : Nat \ {0}, len : Nat \ {0}]

\* Where the pieces of a stretch begin, and where the one that begins at s ends.
starts(b, places) == {b.start} \cup (places \cap words(b))
after(b, places, s) == Min({b.start + b.len} \cup {t \in starts(b, places) : s < t})

\* c is a piece of b: it has none of the places inside, and ends with b or at a place.
Piece(c, b, places) ==
  /\ c \in Stretches /\ words(c) \subseteq words(b)
  /\ (places \cup {b.start}) \cap words(c) \subseteq {c.start}
  /\ c.start + c.len \in places \cup {b.start + b.len}

LEMMA StretchWords ==
  ASSUME NEW b \in Stretches
  PROVE  /\ b.start \in Nat \ {0} /\ b.len \in Nat \ {0}
         /\ words(b) = b.start .. b.start + b.len - 1
         /\ last(b) = b.start + b.len - 1 /\ last(b) \in Nat \ {0}
         /\ words(b) \subseteq Nat \ {0} /\ b.start \in words(b) /\ last(b) \in words(b)
         /\ last(b) + 1 = b.start + b.len
BY DEF Stretches, words, last

LEMMA PieceOf ==
  ASSUME NEW b \in Stretches, NEW places, NEW s \in starts(b, places)
  PROVE  Piece(block(s, after(b, places, s) - s), b, places)
<1>. DEFINE S == starts(b, places)
            T == {b.start + b.len} \cup {t \in S : s < t}
            n == after(b, places, s)
            c == block(s, n - s)
<1>1. S \subseteq words(b) /\ S \subseteq Nat /\ b.start \in S /\ places \cap words(b) \subseteq S
  BY StretchWords DEF starts
<1>2. n \in T /\ \A t \in T : n <= t
  <2>1. T \subseteq Nat /\ T # {}
    BY <1>1, StretchWords
  <2>2. n = Min(T)
    BY DEF after
  <2>. HIDE DEF T, n
  <2>. QED BY <2>1, <2>2, MinIs
<1>3. s \in Nat /\ s # 0 /\ s \in words(b) /\ n \in Nat /\ s < n /\ n <= b.start + b.len
  <2>1. s \in words(b) /\ s \in Nat /\ s # 0 /\ s < b.start + b.len
    BY <1>1, StretchWords
  <2>2. \A t \in T : t \in Nat /\ s < t
    BY <1>1, <2>1, StretchWords
  <2>3. b.start + b.len \in T
    OBVIOUS
  <2>. HIDE DEF T, n
  <2>. QED BY <1>2, <2>1, <2>2, <2>3
<1>4. c.start = s /\ c.len = n - s /\ c \in Stretches /\ c.start + c.len = n
      /\ words(c) = s .. n - 1
  <2>1. c = [start |-> s, len |-> n - s]
    BY DEF block
  <2>2. n - s \in Nat \ {0} /\ s + (n - s) = n
    <3>. HIDE DEF n
    <3>. QED BY <1>3
  <2>. HIDE DEF n, c
  <2>. QED BY <1>3, <2>1, <2>2 DEF Stretches, words
<1>5. words(c) \subseteq words(b)
  <2>1. /\ b.start \in Nat /\ b.len \in Nat /\ b.start <= s
        /\ words(b) = b.start .. b.start + b.len - 1
    BY <1>3, StretchWords
  <2>. HIDE DEF n, c
  <2>. QED BY <1>3, <1>4, <2>1
<1>6. (places \cup {b.start}) \cap words(c) \subseteq {c.start}
  <2>1. ASSUME NEW p \in places \cup {b.start}, p \in words(c) PROVE p = s
    <3>1. p \in S /\ p \in Nat /\ s <= p /\ ~(n <= p)
      <4>1. p \in S
        BY <1>1, <1>5, <2>1, StretchWords
      <4>. HIDE DEF n, c, S
      <4>. QED BY <1>1, <1>3, <1>4, <2>1, <4>1
    <3>2. ~(s < p)
      BY <1>2, <3>1
    <3>. QED BY <1>3, <3>1, <3>2
  <2>. QED BY <1>4, <2>1
<1>7. c.start + c.len \in places \cup {b.start + b.len}
  <2>1. n \in places \cup {b.start + b.len}
    <3>1. \A t \in S : s < t => t \in places
      BY <1>1, <1>3, StretchWords DEF starts
    <3>. HIDE DEF n
    <3>. QED BY <1>2, <3>1
  <2>. QED BY <1>4, <2>1
<1>8. Piece(c, b, places)
  <2>. HIDE DEF c
  <2>. QED BY <1>4, <1>5, <1>6, <1>7 DEF Piece
<1>. QED BY <1>8

\* All that a split leaves are pieces, and there are finitely many.
LEMMA SplitsInPieces ==
  ASSUME NEW stretches, IsFiniteSet(stretches), stretches \subseteq Stretches, NEW places
  PROVE  /\ IsFiniteSet(splitBlocks(stretches, places))
         /\ \A c \in splitBlocks(stretches, places) : \E b \in stretches : Piece(c, b, places)
<1>. DEFINE pieces(b) == {block(s, after(b, places, s) - s) : s \in starts(b, places)}
<1>1. splitBlocks(stretches, places) = UNION {pieces(b) : b \in stretches}
  BY DEF splitBlocks, starts, after
<1>2. ASSUME NEW b \in stretches PROVE IsFiniteSet(pieces(b))
  <2>1. IsFiniteSet(starts(b, places))
    <3>1. b.start \in Int /\ b.start + b.len - 1 \in Int /\ words(b) = b.start .. b.start + b.len - 1
          /\ b.start \in words(b)
      BY StretchWords
    <3>2. IsFiniteSet(words(b))
      BY <3>1, FS_Interval
    <3>3. starts(b, places) \in SUBSET words(b)
      BY <3>1 DEF starts
    <3>. QED BY <3>2, <3>3, FS_Subset
  <2>. DEFINE f == [s \in starts(b, places) |-> block(s, after(b, places, s) - s)]
  <2>2. f \in Surjection(starts(b, places), pieces(b))
    BY DEF Surjection
  <2>. HIDE DEF f, pieces
  <2>. QED BY <2>1, <2>2, FS_Surjection
<1>3. IsFiniteSet(UNION {pieces(b) : b \in stretches})
  <2>. DEFINE f == [b \in stretches |-> pieces(b)]
              T == {pieces(b) : b \in stretches}
  <2>1. f \in Surjection(stretches, T)
    BY DEF Surjection
  <2>2. IsFiniteSet(T)
    <3>. HIDE DEF f, T
    <3>. QED BY <2>1, FS_Surjection
  <2>3. \A X \in T : IsFiniteSet(X)
    <3>. HIDE DEF pieces
    <3>. QED BY <1>2
  <2>4. IsFiniteSet(UNION T)
    <3>. HIDE DEF T
    <3>. QED BY <2>2, <2>3, FS_UNION
  <2>. QED BY <2>4
<1>4. ASSUME NEW c \in splitBlocks(stretches, places) PROVE \E b \in stretches : Piece(c, b, places)
  <2>1. PICK b \in stretches : c \in pieces(b)
    BY <1>1
  <2>2. PICK s \in starts(b, places) : c = block(s, after(b, places, s) - s)
    BY <2>1
  <2>. QED BY <2>2, PieceOf
<1>. QED BY <1>1, <1>3, <1>4

-----------------------------------------------------------------------------
(* The greatest set without bad blocks is what each phase keeps.           *)

\* The parameters of discoverBasicBlocks are those of a segment.
InSegment == \E s \in Segments : program = s.program /\ confidence = s.confidence

Phases == {"start", "cut", "marked", "pruned", "split", "tables", "targets", "done"}

RewriterInv ==
  /\ InSegment
  /\ past \in First + 1 .. First + Cardinality(DOMAIN program)
  /\ phase \in Phases
  /\ phase \in {"pruned", "split", "tables", "targets"} => confidence
  /\ phase \in {"start", "cut", "marked"} => blocks = {}
  /\ ~confidence => tables = {}
  /\ IsFiniteSet(blocks) /\ blocks \subseteq Stretches
  /\ \A b \in blocks : words(b) \subseteq First .. past - 1
  /\ kept \subseteq blocks
  /\ phase = "split" => kept = blocks

LEMMA SegmentIs ==
  ASSUME InSegment
  PROVE  /\ First \in Nat \ {0} /\ confidence \in BOOLEAN
         /\ Cardinality(DOMAIN program) \in Nat \ {0}
         /\ DOMAIN program = First .. First + Cardinality(DOMAIN program) - 1
         /\ \A a \in DOMAIN program :
              /\ program[a].op = "selb" => {program[a].a, program[a].b} \subseteq Registers
              /\ program[a].op = "bi" => program[a].reg \in Registers
              /\ program[a].op = "ila" => confidence
<1>1. PICK s \in Segments : program = s.program /\ confidence = s.confidence
  BY DEF InSegment
<1>2. Cardinality(DOMAIN program) \in Nat
  BY <1>1, RewriterAssumption, FS_CardinalityType
<1>3. First \in Nat \ {0} /\ First \in DOMAIN program
      /\ DOMAIN program = First .. First + Cardinality(DOMAIN program) - 1
  BY <1>1, RewriterAssumption DEF Nowhere
<1>4. Cardinality(DOMAIN program) # 0
  BY <1>2, <1>3
<1>. QED BY <1>1, <1>2, <1>3, <1>4, RewriterAssumption

\* The whole segment, of which the first split makes the blocks.
LEMMA SegmentStretch ==
  ASSUME RewriterInv
  PROVE  /\ {block(First, past - First)} \subseteq Stretches
         /\ words(block(First, past - First)) = First .. past - 1
         /\ block(First, past - First).start + block(First, past - First).len = past
<1>1. First \in Nat \ {0} /\ past \in Nat /\ First < past
  BY SegmentIs DEF RewriterInv
<1>2. block(First, past - First) = [start |-> First, len |-> past - First]
  BY DEF block
<1>3. past - First \in Nat \ {0} /\ First + (past - First) = past
  BY <1>1
<1>. QED BY <1>1, <1>2, <1>3 DEF Stretches, words

\* removeVertices keeps some of the blocks.
LEMMA KeepsSome == ASSUME NEW bs, NEW bad PROVE removeVertices(bs, bad) \subseteq bs
BY DEF removeVertices

LEMMA InvStart == RewriterInit => RewriterInv
<1>. SUFFICES ASSUME RewriterInit PROVE RewriterInv
  OBVIOUS
<1>1. InSegment
  BY DEF RewriterInit, InSegment
<1>2. past \in First + 1 .. First + Cardinality(DOMAIN program)
  BY <1>1, SegmentIs DEF RewriterInit
<1>. QED BY <1>1, <1>2, FS_EmptySet DEF RewriterInit, RewriterInv, Phases

LEMMA CutStep == ASSUME RewriterInv, cut PROVE RewriterInv'
<1>1. past' \in First + 1 .. First + Cardinality(DOMAIN program)
  <2>. DEFINE T == {a \in First + 1 .. past - 1 : isZero(a - 1) /\ isZero(a)}
  <2>1. First \in Nat /\ past \in Nat /\ Cardinality(DOMAIN program) \in Nat
    BY SegmentIs DEF RewriterInv
  <2>2. T # {} => Min(T) \in First + 1 .. past - 1
    <3>1. T \subseteq Nat
      BY <2>1
    <3>. QED BY <3>1, MinIs
  <2>3. findDataCutoff = IF T = {} THEN past ELSE Min(T)
    BY DEF findDataCutoff
  <2>4. past' = past \/ past' = findDataCutoff
    BY DEF cut
  <2>. HIDE DEF T
  <2>. QED BY <2>1, <2>2, <2>3, <2>4 DEF RewriterInv
<1>. QED BY <1>1 DEF cut, RewriterInv, InSegment, Phases, parameters

LEMMA BreaksStep == ASSUME RewriterInv, DiscoverBreaks PROVE RewriterInv'
BY DEF DiscoverBreaks, RewriterInv, InSegment, Phases, parameters, words

LEMMA PruneStep == ASSUME RewriterInv, prune PROVE RewriterInv'
<1>1. /\ IsFiniteSet(blocks')
      /\ \A c \in blocks' : Piece(c, block(First, past - First), breaks)
  <2>. DEFINE B == {block(First, past - First)}
  <2>1. IsFiniteSet(B) /\ B \subseteq Stretches
    BY FS_Singleton, SegmentStretch
  <2>2. blocks' = splitBlocks(B, breaks)
    BY DEF prune, MakeBasicBlocks
  <2>3. IsFiniteSet(blocks') /\ \A c \in blocks' : \E b \in B : Piece(c, b, breaks)
    <3>. HIDE DEF B
    <3>. QED BY <2>1, <2>2, SplitsInPieces
  <2>. QED BY <2>3
<1>2. blocks' \subseteq Stretches /\ \A c \in blocks' : words(c) \subseteq First .. past - 1
  BY <1>1, SegmentStretch DEF Piece
<1>3. kept' \subseteq blocks'
  BY KeepsSome DEF prune
<1>. QED BY <1>1, <1>2, <1>3 DEF prune, RewriterInv, InSegment, Phases, parameters, words

LEMMA SplitStep == ASSUME RewriterInv, split PROVE RewriterInv'
<1>1. IsFiniteSet(kept) /\ kept \subseteq Stretches
  BY FS_Subset DEF RewriterInv
<1>2. PICK places : blocks' = splitBlocks(kept, places)
  BY DEF split
<1>3. IsFiniteSet(blocks') /\ \A c \in blocks' : \E b \in kept : Piece(c, b, places)
  BY <1>1, <1>2, SplitsInPieces
<1>4. blocks' \subseteq Stretches /\ \A c \in blocks' : words(c) \subseteq First .. past - 1
  BY <1>3 DEF Piece, RewriterInv
<1>. QED BY <1>3, <1>4 DEF split, RewriterInv, InSegment, Phases, parameters, words

LEMMA RemovalSteps ==
  ASSUME RewriterInv, removeTables \/ removeLoadStoreTargets \/ removeLonelyStops
  PROVE  RewriterInv'
<1>1. kept' \subseteq kept
  BY KeepsSome DEF removeTables, removeLoadStoreTargets, removeLonelyStops
<1>. QED BY <1>1 DEF removeTables, removeLoadStoreTargets, removeLonelyStops,
                     RewriterInv, InSegment, Phases, parameters, words

LEMMA RewriterInvNext == RewriterInv /\ [RewriterNext]_rewriterVars => RewriterInv'
<1>. SUFFICES ASSUME RewriterInv, [RewriterNext]_rewriterVars PROVE RewriterInv'
  OBVIOUS
<1>1. CASE UNCHANGED rewriterVars
  BY <1>1 DEF rewriterVars, parameters, RewriterInv, InSegment, words
<1>. QED BY <1>1, CutStep, BreaksStep, PruneStep, SplitStep, RemovalSteps DEF RewriterNext

\* What the graph of a set of blocks is depends on the program alone.
LEMMA GreatestStays ==
  ASSUME program' = program, NEW bs, NEW bad
  PROVE  greatestWithout(bs, bad)' = greatestWithout(bs, bad)
<1>1. \A b : edges(bs, b)' = edges(bs, b)
  BY DEF edges, targets, passthrough, flow, last
<1>. QED BY <1>1 DEF greatestWithout

\* Each removal keeps the greatest set.
LEMMA KeepsNext ==
  ASSUME RewriterInv, RewriterInv', KeepsTheGreatest, [RewriterNext]_rewriterVars
  PROVE  KeepsTheGreatest'
<1>0. confidence \in BOOLEAN /\ confidence' \in BOOLEAN
  <2>1. confidence \in BOOLEAN
    BY SegmentIs DEF RewriterInv
  <2>2. confidence' = confidence
    BY DEF RewriterNext, cut, DiscoverBreaks, prune, split, removeTables, removeLoadStoreTargets,
           removeLonelyStops, parameters, rewriterVars
  <2>. QED BY <2>1, <2>2
<1>1. CASE prune
  <2>1. program' = program /\ phase' \in {"pruned", "done"}
    BY <1>0, <1>1 DEF prune, parameters
  <2>. DEFINE bad == {b \in blocks' : containsIllegalInstruction(b)}
  <2>2. kept' = greatestWithout(blocks', bad)
    <3>1. kept' = removeVertices(blocks', bad) /\ IsFiniteSet(blocks') /\ bad \in SUBSET blocks'
      BY <1>1 DEF prune, RewriterInv
    <3>. HIDE DEF bad
    <3>. QED BY <3>1, RemovesVertices
  <2>3. {b \in blocks' : containsIllegalInstruction(b)'} = bad
    BY <2>1 DEF containsIllegalInstruction, words
  <2>4. (kept = greatestWithout(blocks, {b \in blocks : containsIllegalInstruction(b)}))'
    <3>. HIDE DEF bad
    <3>. QED BY <2>1, <2>2, <2>3, GreatestStays
  <2>. QED BY <2>1, <2>4 DEF KeepsTheGreatest
<1>2. CASE removeTables
  <2>1. program' = program /\ phase' = "tables" /\ kept = blocks /\ UNCHANGED <<blocks, tables>>
    BY <1>2 DEF removeTables, parameters, RewriterInv
  <2>. DEFINE bad == {b \in blocks : isTable(b)}
  <2>2. kept' = greatestWithout(blocks, bad)
    <3>1. kept' = removeVertices(blocks, bad) /\ IsFiniteSet(blocks) /\ bad \in SUBSET blocks
      BY <1>2, <2>1 DEF removeTables, RewriterInv
    <3>. HIDE DEF bad
    <3>. QED BY <3>1, RemovesVertices
  <2>3. {b \in blocks' : isTable(b)'} = bad
    BY <2>1 DEF isTable, intersects, words
  <2>4. (kept = greatestWithout(blocks, {b \in blocks : isTable(b)}))'
    <3>. HIDE DEF bad
    <3>. QED BY <2>1, <2>2, <2>3, GreatestStays
  <2>. QED BY <2>1, <2>4 DEF KeepsTheGreatest
<1>3. CASE removeLoadStoreTargets
  <2>1. program' = program /\ phase = "tables" /\ phase' = "targets" /\ UNCHANGED <<blocks, tables>>
    BY <1>3 DEF removeLoadStoreTargets, parameters
  <2>. DEFINE bad == {b \in kept : words(b) \cap accessed(kept) # {}}
              left == greatestWithout(blocks, {b \in blocks : isTable(b)})
  <2>2. kept = left
    BY <2>1 DEF KeepsTheGreatest
  <2>3. kept' = greatestWithout(kept, bad)
    <3>1. kept' = removeVertices(kept, bad) /\ IsFiniteSet(kept) /\ bad \in SUBSET kept
      BY <1>3, FS_Subset DEF removeLoadStoreTargets, RewriterInv
    <3>. HIDE DEF bad
    <3>. QED BY <3>1, RemovesVertices
  <2>4. left' = left
    <3>1. {b \in blocks' : isTable(b)'} = {b \in blocks : isTable(b)}
      BY <2>1 DEF isTable, intersects, words
    <3>. QED BY <2>1, <3>1, GreatestStays
  <2>5. kept' = greatestWithout(left, {b \in left : words(b) \cap accessed(left) # {}})
    <3>. HIDE DEF left
    <3>. QED BY <2>2, <2>3
  <2>6. (kept = greatestWithout(left, {b \in left : words(b) \cap accessed(left) # {}}))'
    <3>1. {b \in left' : words(b)' \cap accessed(left)' # {}}
            = {b \in left : words(b) \cap accessed(left) # {}}
      <4>. HIDE DEF left
      <4>. QED BY <2>1, <2>4 DEF accessed, words
    <3>. HIDE DEF left
    <3>. QED BY <2>1, <2>4, <2>5, <3>1, GreatestStays
  <2>7. phase = "targets" =>
          kept = greatestWithout(left, {b \in left : words(b) \cap accessed(left) # {}})
    BY <2>1
  <2>. QED BY <2>1, <2>6 DEF KeepsTheGreatest
<1>4. CASE cut \/ DiscoverBreaks \/ split \/ removeLonelyStops
  <2>1. phase' \in {"cut", "marked", "split"} \/ (phase' = "done" /\ confidence')
    BY <1>4 DEF cut, DiscoverBreaks, split, removeLonelyStops, parameters, RewriterInv
  <2>. QED BY <1>0, <2>1 DEF KeepsTheGreatest
<1>5. CASE UNCHANGED rewriterVars
  <2>1. program' = program /\ UNCHANGED <<confidence, phase, blocks, kept, tables>>
    BY <1>5 DEF rewriterVars, parameters
  <2>2. /\ {b \in blocks' : containsIllegalInstruction(b)'} = {b \in blocks : containsIllegalInstruction(b)}
        /\ {b \in blocks' : isTable(b)'} = {b \in blocks : isTable(b)}
    BY <2>1 DEF containsIllegalInstruction, isTable, intersects, words
  <2>. DEFINE left == greatestWithout(blocks, {b \in blocks : isTable(b)})
  <2>3. /\ left' = left
        /\ greatestWithout(blocks, {b \in blocks : containsIllegalInstruction(b)})'
             = greatestWithout(blocks, {b \in blocks : containsIllegalInstruction(b)})
    BY <2>1, <2>2, GreatestStays
  <2>4. greatestWithout(left, {b \in left : words(b) \cap accessed(left) # {}})'
          = greatestWithout(left, {b \in left : words(b) \cap accessed(left) # {}})
    <3>1. {b \in left' : words(b)' \cap accessed(left)' # {}}
            = {b \in left : words(b) \cap accessed(left) # {}}
      <4>. HIDE DEF left
      <4>. QED BY <2>1, <2>3 DEF accessed, words
    <3>. HIDE DEF left
    <3>. QED BY <2>1, <2>3, <3>1, GreatestStays
  <2>. QED BY <2>1, <2>3, <2>4, Zenon DEF KeepsTheGreatest
<1>. QED BY <1>1, <1>2, <1>3, <1>4, <1>5 DEF RewriterNext

\* What is kept after each removal is exactly the blocks that lead to nothing bad,
\* for any segment: removeVertices finds every block that leads to a bad one,
\* however long the way and whatever the loops, and removes no other.
THEOREM GreatestIsKept == RewriterSpec => []KeepsTheGreatest
<1>1. RewriterInit => KeepsTheGreatest
  BY DEF RewriterInit, KeepsTheGreatest
<1>2. RewriterInv /\ RewriterInv' /\ KeepsTheGreatest /\ [RewriterNext]_rewriterVars => KeepsTheGreatest'
  BY KeepsNext
<1>. QED BY <1>1, <1>2, InvStart, RewriterInvNext, PTL DEF RewriterSpec

-----------------------------------------------------------------------------
(* What a block loads into the register it branches through.               *)

Values == {program[a].value : a \in DOMAIN program}

\* The registers before the instruction at a, from those before the one before it.
execute(c, a, held) ==
  [r \in Registers |->
     LET i == program[a - 1]
     IN IF a <= c.start + 1 THEN {}
        ELSE CASE i.op = "ila" /\ i.reg = r -> {i.value}
               [] i.op = "selb" /\ i.reg = r -> held[i.a] \cup held[i.b]
               [] OTHER -> held[r]]

LEMMA LoadedIs ==
  ASSUME InSegment, NEW c \in Stretches, words(c) \subseteq DOMAIN program
  PROVE  \A a \in c.start .. last(c) : loaded(c)[a] = execute(c, a, loaded(c)[a - 1])
<1>. DEFINE lo == c.start
            hi == last(c)
            V == [Registers -> SUBSET Values]
            v == [r \in Registers |-> {}]
            G == [n \in Nat \X V |-> execute(c, n[1], n[2])]
            Runs(f) == f = [a \in lo .. hi |-> execute(c, a, f[a - 1])]
<1>1. lo \in Nat /\ hi \in Nat /\ lo <= hi /\ words(c) = lo .. hi
  BY StretchWords
<1>2. ASSUME NEW a \in lo + 1 .. hi, NEW w \in V PROVE execute(c, a, w) \in V
  <2>1. a - 1 \in DOMAIN program
    BY <1>1
  <2>2. program[a - 1].op = "selb" => program[a - 1].a \in Registers /\ program[a - 1].b \in Registers
    BY <2>1, SegmentIs
  <2>3. program[a - 1].value \in Values
    BY <2>1 DEF Values
  <2>. QED BY <2>2, <2>3 DEF execute
<1>3. v \in V
  OBVIOUS
<1>4. Closed(G, lo, hi, V) /\ \A a \in lo + 1 .. hi, w \in V : G[<<a, w>>] = execute(c, a, w)
  <2>1. ASSUME NEW a \in lo + 1 .. hi, NEW w \in V PROVE G[<<a, w>>] = execute(c, a, w)
    <3>1. a \in Nat
      BY <1>1
    <3>. HIDE DEF V
    <3>. QED BY <3>1
  <2>. HIDE DEF G, V
  <2>. QED BY <1>2, <2>1 DEF Closed
<1>5. PICK f : Recursion(f, lo, hi, V, v, G)
  <2>. HIDE DEF lo, hi, V, v, G
  <2>. QED BY <1>1, <1>3, <1>4, RecursionExists
<1>6. Runs(f)
  <2>1. ASSUME NEW a \in lo .. hi PROVE f[a] = execute(c, a, f[a - 1])
    <3>1. CASE a = lo
      <4>1. f[a] = v
        <5>. HIDE DEF lo, hi, V, v, G
        <5>. QED BY <1>5, <3>1 DEF Recursion
      <4>2. execute(c, a, f[a - 1]) = v
        BY <1>1, <3>1 DEF execute
      <4>. QED BY <4>1, <4>2
    <3>2. CASE a # lo
      <4>1. a \in lo + 1 .. hi /\ a - 1 \in lo .. hi
        BY <1>1, <3>2
      <4>2. f[a - 1] \in V /\ f[a] = G[<<a, f[a - 1]>>]
        <5>. HIDE DEF lo, hi, V, v, G
        <5>. QED BY <1>5, <3>2, <4>1 DEF Recursion
      <4>. HIDE DEF lo, hi, V, v, G
      <4>. QED BY <1>4, <4>1, <4>2
    <3>. QED BY <3>1, <3>2
  <2>2. f = [a \in lo .. hi |-> f[a]]
    <3>. HIDE DEF lo, hi, V, v, G
    <3>. QED BY <1>5 DEF Recursion
  <2>3. [a \in lo .. hi |-> f[a]] = [a \in lo .. hi |-> execute(c, a, f[a - 1])]
    <3>. HIDE DEF lo, hi, V, v, G
    <3>. QED BY <2>1
  <2>. QED BY <2>2, <2>3, Zenon
<1>7. loaded(c) = CHOOSE g : Runs(g)
  BY DEF loaded, execute
<1>8. Runs(loaded(c))
  <2>. HIDE DEF Runs
  <2>. QED BY <1>6, <1>7
<1>9. ASSUME NEW a \in lo .. hi PROVE loaded(c)[a] = execute(c, a, loaded(c)[a - 1])
  <2>. DEFINE L == loaded(c)
  <2>1. L = [d \in lo .. hi |-> execute(c, d, L[d - 1])]
    BY <1>8
  <2>. HIDE DEF L, lo, hi
  <2>2. L[a] = execute(c, a, L[a - 1])
    BY <2>1
  <2>. QED BY <2>2 DEF L
<1>. QED BY <1>9

\* What a scan knows.
Found == [marked : SUBSET Registers, labels : SUBSET Values]
Nothing == [marked |-> {}, labels |-> {}]

Scanned(S, b) ==
  S = [k \in 0 .. b.len - 1 |-> IF k = 0 THEN Nothing ELSE scan(S[k - 1], last(b) + 1 - k)]

LEMMA ScanFinds ==
  ASSUME InSegment, NEW a \in DOMAIN program, NEW state \in Found
  PROVE  /\ scan(state, a) \in Found
         /\ state.marked \subseteq scan(state, a).marked /\ state.labels \subseteq scan(state, a).labels
         /\ program[a].op = "bi" => program[a].reg \in scan(state, a).marked
         /\ program[a].op = "selb" /\ program[a].reg \in state.marked
              => program[a].a \in scan(state, a).marked /\ program[a].b \in scan(state, a).marked
         /\ program[a].op = "ila" /\ program[a].reg \in state.marked
              => program[a].value \in scan(state, a).labels
<1>1. /\ program[a].op = "selb" => program[a].a \in Registers /\ program[a].b \in Registers
      /\ program[a].op = "bi" => program[a].reg \in Registers
  BY SegmentIs
<1>2. program[a].value \in Values
  BY DEF Values
<1>. QED BY <1>1, <1>2 DEF scan, Found

LEMMA ScannedIs ==
  ASSUME InSegment, NEW b \in Stretches, words(b) \subseteq DOMAIN program
  PROVE  \E S : /\ Scanned(S, b) /\ discoverIndirectLocations(b) = S[b.len - 1].labels
                /\ \A k \in 0 .. b.len - 1 : S[k] \in Found
<1>. DEFINE hi == b.len - 1
            G == [n \in Nat \X Found |-> scan(n[2], last(b) + 1 - n[1])]
<1>1. 0 \in Nat /\ hi \in Nat /\ 0 <= hi
      /\ \A k \in 1 .. hi : last(b) + 1 - k \in words(b)
  BY StretchWords
<1>2. ASSUME NEW k \in 0 + 1 .. hi, NEW w \in Found
      PROVE  G[<<k, w>>] = scan(w, last(b) + 1 - k) /\ scan(w, last(b) + 1 - k) \in Found
  <2>1. k \in Nat /\ last(b) + 1 - k \in DOMAIN program
    BY <1>1
  <2>2. G[<<k, w>>] = scan(w, last(b) + 1 - k)
    BY <2>1
  <2>. QED BY <2>1, <2>2, ScanFinds
<1>3. Nothing \in Found
  BY DEF Nothing, Found
<1>4. Closed(G, 0, hi, Found)
  <2>. HIDE DEF G, hi
  <2>. QED BY <1>2 DEF Closed
<1>5. PICK f : Recursion(f, 0, hi, Found, Nothing, G)
  <2>. HIDE DEF G, hi
  <2>. QED BY <1>1, <1>3, <1>4, RecursionExists
<1>6. Scanned(f, b)
  <2>1. ASSUME NEW k \in 0 .. hi
        PROVE  f[k] = IF k = 0 THEN Nothing ELSE scan(f[k - 1], last(b) + 1 - k)
    <3>1. k # 0 => k \in 0 + 1 .. hi /\ k - 1 \in 0 .. hi
      BY <1>1
    <3>2. f[k] = (IF k = 0 THEN Nothing ELSE G[<<k, f[k - 1]>>])
          /\ (k # 0 => f[k - 1] \in Found)
      <4>. HIDE DEF G, hi
      <4>. QED BY <1>5, <3>1 DEF Recursion
    <3>. HIDE DEF G, hi
    <3>. QED BY <1>2, <3>1, <3>2
  <2>2. f = [k \in 0 .. hi |-> f[k]]
    <3>. HIDE DEF G, hi
    <3>. QED BY <1>5 DEF Recursion
  <2>3. [k \in 0 .. hi |-> f[k]]
          = [k \in 0 .. hi |-> IF k = 0 THEN Nothing ELSE scan(f[k - 1], last(b) + 1 - k)]
    <3>. HIDE DEF hi
    <3>. QED BY <2>1
  <2>. QED BY <2>2, <2>3, Zenon DEF Scanned
<1>. DEFINE S == CHOOSE s : Scanned(s, b)
<1>7. Scanned(S, b)
  BY <1>6
<1>8. discoverIndirectLocations(b) = S[b.len - 1].labels
  BY DEF discoverIndirectLocations, Scanned, Nothing
<1>. DEFINE P == {k \in 0 .. hi : S[k] \in Found}
<1>9. 0 .. hi \subseteq P
  <2>. HIDE DEF S
  <2>1. \A k \in 0 .. hi : S[k] = IF k = 0 THEN Nothing ELSE scan(S[k - 1], last(b) + 1 - k)
    BY <1>7 DEF Scanned
  <2>2. 0 \in P
    BY <1>1, <1>3, <2>1
  <2>3. ASSUME NEW k \in 0 .. hi, k \in P, k < hi PROVE k + 1 \in P
    <3>1. k + 1 \in 0 + 1 .. hi /\ k + 1 \in 0 .. hi /\ k + 1 # 0 /\ k + 1 - 1 = k
      BY <1>1, <2>3
    <3>2. S[k] \in Found
      BY <2>3
    <3>. HIDE DEF hi, G
    <3>3. S[k + 1] = scan(S[k], last(b) + 1 - (k + 1))
      BY <2>1, <3>1
    <3>. QED BY <1>2, <3>1, <3>2, <3>3
  <2>. HIDE DEF P, hi
  <2>. QED BY <1>1, <2>2, <2>3, UpTo
<1>. HIDE DEF S
<1>. QED BY <1>7, <1>8, <1>9

LEMMA Executes ==
  ASSUME NEW c, NEW a, NEW held, NEW r \in Registers, ~(a <= c.start + 1), NEW i, i = program[a - 1]
  PROVE  /\ i.op = "ila" /\ i.reg = r => execute(c, a, held)[r] = {i.value}
         /\ i.op = "selb" /\ i.reg = r => execute(c, a, held)[r] = held[i.a] \cup held[i.b]
         /\ ~(i.op = "ila" /\ i.reg = r) /\ ~(i.op = "selb" /\ i.reg = r)
              => execute(c, a, held)[r] = held[r]
BY DEF execute

\* The addresses that a piece c of b loads into the register it branches through
\* are among the labels that the scan of b finds: the scan goes backwards, and
\* marks all the registers that these addresses may come from.
LEMMA LabelsAreFound ==
  ASSUME InSegment, NEW b \in Stretches, words(b) \subseteq DOMAIN program,
         NEW c \in Stretches, words(c) \subseteq words(b), last(c) = last(b),
         program[last(c)].op = "bi"
  PROVE  loaded(c)[last(c)][program[last(c)].reg] \subseteq discoverIndirectLocations(b)
<1>. DEFINE n == last(c)
            reg == program[n].reg
            L == loaded(c)
            hi == b.len - 1
<1>1. PICK S : /\ Scanned(S, b) /\ discoverIndirectLocations(b) = S[hi].labels
               /\ \A k \in 0 .. hi : S[k] \in Found
  BY ScannedIs
<1>2. /\ n \in Nat /\ hi \in Nat /\ c.start \in Nat /\ c.start <= n
      /\ b.start \in Nat /\ b.start <= c.start
      /\ n = b.start + hi /\ words(c) = c.start .. n /\ words(b) = b.start .. n
      /\ n \in DOMAIN program /\ words(c) \subseteq DOMAIN program
  <2>1. /\ b.start \in Nat /\ b.len \in Nat \ {0} /\ n = b.start + b.len - 1 /\ hi \in Nat
        /\ words(b) = b.start .. n
    <3>1. /\ b.start \in Nat /\ b.len \in Nat \ {0} /\ last(b) = b.start + b.len - 1
          /\ words(b) = b.start .. b.start + b.len - 1
      BY StretchWords
    <3>2. n = last(b)
      OBVIOUS
    <3>. HIDE DEF n
    <3>. QED BY <3>1, <3>2
  <2>2. c.start \in Nat /\ n \in Nat /\ words(c) = c.start .. n /\ c.start \in words(c) /\ n \in words(c)
    BY StretchWords
  <2>. QED BY <2>1, <2>2
<1>3. reg \in Registers
  BY <1>2, SegmentIs
<1>4. \A a \in c.start .. n : L[a] = execute(c, a, L[a - 1])
  BY <1>2, LoadedIs
<1>5. \A a \in c.start .. n, r \in Registers : a <= c.start + 1 => L[a][r] = {}
  <2>. HIDE DEF L, n
  <2>. QED BY <1>4 DEF execute
<1>6. \A k \in 0 .. hi : S[k] = IF k = 0 THEN Nothing ELSE scan(S[k - 1], n + 1 - k)
  BY <1>1 DEF Scanned
\* What is not found yet is in a marked register before the last instruction scanned.
<1>. DEFINE Covered(x, k) == \/ x \in S[k].labels
                             \/ n + 1 - k > c.start + 1
                                /\ \E r \in S[k].marked : x \in L[n + 1 - k][r]
<1>. HIDE DEF L, n, reg, hi
<1>7. ASSUME NEW x \in L[n][reg] PROVE x \in S[hi].labels
  <2>1. n > c.start + 1
    BY <1>2, <1>3, <1>5, <1>7
  <2>. DEFINE P == {k \in 1 .. hi : Covered(x, k)}
  <2>2. 1 \in P
    <3>1. 1 \in 0 .. hi /\ 0 \in 0 .. hi /\ 1 \in 1 .. hi /\ n + 1 - 1 = n
      BY <1>2, <2>1
    <3>2. S[1] = scan(S[0], n) /\ S[0] \in Found
      BY <1>1, <1>6, <3>1
    <3>3. program[n].op = "bi" /\ reg = program[n].reg
      BY DEF n, reg
    <3>4. reg \in S[1].marked
      BY <1>2, <3>2, <3>3, ScanFinds
    <3>. QED BY <1>7, <2>1, <3>1, <3>4
  <2>3. ASSUME NEW k \in 1 .. hi, k \in P, k < hi PROVE k + 1 \in P
    <3>. DEFINE d == n - k
    <3>1. /\ k \in 0 .. hi /\ k + 1 \in 0 .. hi /\ k + 1 \in 1 .. hi /\ k + 1 # 0 /\ k + 1 - 1 = k
          /\ n + 1 - (k + 1) = d /\ d \in Nat /\ d \in DOMAIN program /\ n + 1 - k = d + 1
          /\ d + 1 <= n
      <4>1. k \in Nat /\ 1 <= k /\ k < hi
        BY <1>2, <2>3
      <4>2. n \in Nat /\ hi \in Nat /\ b.start \in Nat /\ n = b.start + hi
        BY <1>2
      <4>3. d \in Nat /\ d \in b.start .. n /\ d + 1 <= n /\ n + 1 - (k + 1) = d /\ n + 1 - k = d + 1
        BY <4>1, <4>2
      <4>4. d \in DOMAIN program
        <5>. HIDE DEF d
        <5>. QED BY <1>2, <4>3
      <4>5. k \in 0 .. hi /\ k + 1 \in 0 .. hi /\ k + 1 \in 1 .. hi /\ k + 1 # 0 /\ k + 1 - 1 = k
        BY <4>1, <4>2
      <4>. HIDE DEF d
      <4>. QED BY <4>3, <4>4, <4>5
    <3>2. S[k + 1] = scan(S[k], d) /\ S[k] \in Found
      BY <1>1, <1>6, <3>1
    <3>3. CASE x \in S[k].labels
      BY <3>1, <3>2, <3>3, ScanFinds
    <3>4. ASSUME d + 1 > c.start + 1, NEW r \in S[k].marked, x \in L[d + 1][r]
          PROVE  k + 1 \in P
      <4>1. r \in Registers /\ d + 1 \in c.start .. n /\ d \in c.start .. n
            /\ ~(d + 1 <= c.start + 1) /\ d + 1 - 1 = d
        <5>1. S[k].marked \subseteq Registers
          BY <3>2 DEF Found
        <5>. HIDE DEF d
        <5>2. d \in Nat /\ n \in Nat /\ c.start \in Nat /\ d + 1 <= n /\ d + 1 > c.start + 1
          BY <1>2, <3>1, <3>4
        <5>3. d + 1 \in c.start .. n /\ d \in c.start .. n /\ ~(d + 1 <= c.start + 1) /\ d + 1 - 1 = d
          BY <5>2
        <5>4. r \in Registers
          BY <5>1
        <5>. QED BY <5>3, <5>4
      <4>2. L[d + 1] = execute(c, d + 1, L[d])
        BY <1>4, <4>1
      <4>. DEFINE i == program[d]
      <4>3. /\ i.op = "ila" /\ i.reg = r => L[d + 1][r] = {i.value}
            /\ i.op = "selb" /\ i.reg = r => L[d + 1][r] = L[d][i.a] \cup L[d][i.b]
            /\ ~(i.op = "ila" /\ i.reg = r) /\ ~(i.op = "selb" /\ i.reg = r) => L[d + 1][r] = L[d][r]
        <5>1. i = program[d + 1 - 1]
          BY <4>1
        <5>. HIDE DEF d, i
        <5>. QED BY <4>1, <4>2, <5>1, Executes
      <4>4. CASE i.op = "ila" /\ i.reg = r
        <5>1. x = i.value
          BY <3>4, <4>3, <4>4
        <5>2. i.value \in S[k + 1].labels
          BY <3>1, <3>2, <3>4, <4>4, ScanFinds
        <5>. QED BY <3>1, <5>1, <5>2
      <4>5. ASSUME NEW q \in S[k + 1].marked, x \in L[d][q] PROVE k + 1 \in P
        <5>1. q \in Registers
          BY <3>1, <3>2, ScanFinds DEF Found
        <5>2. d > c.start + 1
          <6>1. d <= c.start + 1 => FALSE
            <7>. HIDE DEF d
            <7>. QED BY <1>5, <4>1, <4>5, <5>1
          <6>2. d \in Nat /\ c.start \in Nat
            BY <1>2, <3>1
          <6>. HIDE DEF d
          <6>. QED BY <6>1, <6>2
        <5>. HIDE DEF d
        <5>. QED BY <3>1, <4>5, <5>2
      <4>6. CASE i.op = "selb" /\ i.reg = r
        <5>1. x \in L[d][i.a] \/ x \in L[d][i.b]
          BY <3>4, <4>3, <4>6
        <5>2. i.a \in S[k + 1].marked /\ i.b \in S[k + 1].marked
          BY <3>1, <3>2, <3>4, <4>6, ScanFinds
        <5>. QED BY <4>5, <5>1, <5>2
      <4>7. CASE ~(i.op = "ila" /\ i.reg = r) /\ ~(i.op = "selb" /\ i.reg = r)
        <5>1. x \in L[d][r]
          BY <3>4, <4>3, <4>7
        <5>2. r \in S[k + 1].marked
          BY <3>1, <3>2, <3>4, ScanFinds
        <5>. QED BY <4>5, <5>1, <5>2
      <4>. QED BY <4>4, <4>6, <4>7
    <3>. QED BY <2>3, <3>1, <3>3, <3>4
  <2>4. hi \in P
    <3>1. 1 \in Nat /\ hi \in Nat /\ hi \in 1 .. hi
      BY <1>2, <2>1
    <3>. HIDE DEF P
    <3>. QED BY <2>2, <2>3, <3>1, UpTo
  <2>5. ~(n + 1 - hi > c.start + 1)
    BY <1>2
  <2>. QED BY <2>4, <2>5
<1>. QED BY <1>1, <1>7 DEF L, n, reg, hi

\* PPU code loads no address with ila.
LEMMA NothingIsLoaded ==
  ASSUME InSegment, ~confidence, NEW c \in Stretches, words(c) \subseteq DOMAIN program
  PROVE  \A r \in Registers : loaded(c)[last(c)][r] = {}
<1>. DEFINE lo == c.start
            hi == last(c)
            L == loaded(c)
            P == {a \in lo .. hi : \A r \in Registers : L[a][r] = {}}
<1>1. lo \in Nat /\ hi \in Nat /\ lo <= hi /\ words(c) = lo .. hi
  BY StretchWords
<1>2. \A a \in lo .. hi : L[a] = execute(c, a, L[a - 1])
  BY LoadedIs
<1>. HIDE DEF L, hi
<1>3. lo \in P
  <2>1. lo \in lo .. hi /\ lo <= c.start + 1 /\ L[lo] = execute(c, lo, L[lo - 1])
    BY <1>1, <1>2
  <2>. QED BY <2>1 DEF execute
<1>4. ASSUME NEW a \in lo .. hi, a \in P, a < hi PROVE a + 1 \in P
  <2>1. a + 1 \in lo .. hi /\ a + 1 - 1 = a /\ a \in DOMAIN program
    BY <1>1, <1>4
  <2>2. L[a + 1] = execute(c, a + 1, L[a])
    BY <1>2, <2>1
  <2>3. /\ program[a].op # "ila"
        /\ program[a].op = "selb" => program[a].a \in Registers /\ program[a].b \in Registers
    BY <2>1, SegmentIs
  <2>4. ASSUME NEW r \in Registers PROVE L[a + 1][r] = {}
    <3>. DEFINE i == program[a]
    <3>1. CASE a + 1 <= c.start + 1
      BY <2>2, <3>1 DEF execute
    <3>2. CASE ~(a + 1 <= c.start + 1)
      <4>1. /\ i.op = "selb" /\ i.reg = r => L[a + 1][r] = L[a][i.a] \cup L[a][i.b]
            /\ ~(i.op = "selb" /\ i.reg = r) => L[a + 1][r] = L[a][r]
        <5>1. i = program[a + 1 - 1]
          BY <2>1
        <5>. HIDE DEF i
        <5>. QED BY <2>2, <2>3, <3>2, <5>1, Executes DEF i
      <4>. QED BY <1>4, <2>3, <4>1
    <3>. QED BY <3>1, <3>2
  <2>. QED BY <2>1, <2>4
<1>5. hi \in P
  <2>1. hi \in lo .. hi
    BY <1>1
  <2>. HIDE DEF P, lo
  <2>. QED BY <1>1, <1>3, <1>4, <2>1, UpTo
<1>. QED BY <1>5 DEF L, hi

-----------------------------------------------------------------------------
(* No block is entered but at its start.                                   *)

\* None of the places is inside of a block, and every block ends at one or with
\* the code.
SplitAt(bs, places) ==
  \A b \in bs : places \cap words(b) \subseteq {b.start} /\ b.start + b.len \in places \cup {past}

\* The places branches go to and those after a branch are among them.
Marks(places) ==
  \A from, a \in First .. past - 1 :
    a \in targets(program[from]) \/ (flow(program[from]) /\ a = from + 1) => a \in places

Entered(bs, ts) ==
  \A b \in bs :
    words(b) \cap ((UNION {successors(c) : c \in bs})
                     \cup (UNION {{read(a) : a \in words(t)} : t \in ts}))
      \subseteq {b.start}

EntryInv ==
  /\ phase \notin {"start", "cut"} => Marks(breaks)
  /\ phase = "pruned" => SplitAt(blocks, breaks)
  /\ phase \in {"split", "tables", "targets", "done"} => Entered(kept, tables)

LEMMA EntersFrom ==
  ASSUME NEW bs, NEW ts, NEW places, RewriterInv,
         bs \subseteq Stretches, \A b \in bs : words(b) \subseteq First .. past - 1,
         SplitAt(bs, places), Marks(places),
         \A c \in bs : program[last(c)].op = "bi"
                         => loaded(c)[last(c)][program[last(c)].reg] \subseteq places,
         \A t \in ts : \A a \in words(t) : read(a) \in places
  PROVE  Entered(bs, ts)
<1>0. First \in Nat /\ past \in Nat
  BY SegmentIs DEF RewriterInv
<1>1. ASSUME NEW b \in bs, NEW c \in bs, NEW x \in words(b), x \in successors(c)
      PROVE  x \in places
  <2>. DEFINE i == program[last(c)]
  <2>1. /\ last(c) \in First .. past - 1 /\ last(c) + 1 = c.start + c.len
        /\ x \in First .. past - 1 /\ x # past
    BY <1>0, StretchWords
  <2>2. \/ x \in targets(i)
        \/ i.op = "bi" /\ x \in loaded(c)[last(c)][i.reg]
        \/ x = last(c) + 1
    BY <1>1 DEF successors
  <2>3. CASE x \in targets(i)
    BY <2>1, <2>3 DEF Marks
  <2>4. CASE i.op = "bi" /\ x \in loaded(c)[last(c)][i.reg]
    BY <2>4
  <2>5. CASE x = last(c) + 1
    BY <2>1, <2>5 DEF SplitAt
  <2>. QED BY <2>2, <2>3, <2>4, <2>5
<1>2. \A b \in bs : \A x \in words(b) :
        (\E c \in bs : x \in successors(c)) \/ (\E t \in ts : \E a \in words(t) : x = read(a))
          => x = b.start
  BY <1>1 DEF SplitAt
<1>. QED BY <1>2 DEF Entered

\* Fewer blocks are entered at fewer places.
LEMMA EntersFewer ==
  ASSUME NEW bs, NEW ts, NEW some \in SUBSET bs, Entered(bs, ts)
  PROVE  Entered(some, ts)
BY DEF Entered

LEMMA EnteredStays ==
  ASSUME program' = program, NEW bs, NEW ts
  PROVE  Entered(bs, ts)' = Entered(bs, ts)
<1>1. \A c : successors(c)' = successors(c)
  BY DEF successors, targets, passthrough, flow, last, loaded
<1>2. \A a : read(a)' = read(a)
  BY DEF read
<1>3. /\ UNION {successors(c)' : c \in bs} = UNION {successors(c) : c \in bs}
      /\ UNION {{read(a)' : a \in words(t)} : t \in ts} = UNION {{read(a) : a \in words(t)} : t \in ts}
  BY <1>1, <1>2
<1>. QED BY <1>3 DEF Entered

LEMMA BreaksEntry == ASSUME RewriterInv, DiscoverBreaks PROVE Marks(breaks)'
<1>1. \A from, a \in First .. past - 1 :
        a \in targets(program[from]) \/ (flow(program[from]) /\ a = from + 1) => a \in breaks'
  BY DEF DiscoverBreaks
<1>2. program' = program /\ past' = past
  BY DEF DiscoverBreaks, parameters
<1>. QED BY <1>1, <1>2 DEF Marks, targets, flow

LEMMA PruneEntry ==
  ASSUME RewriterInv, EntryInv, RewriterInv', prune
  PROVE  EntryInv'
<1>1. program' = program /\ UNCHANGED <<past, breaks, confidence, tables>> /\ phase = "marked"
      /\ phase' = IF confidence THEN "pruned" ELSE "done"
  BY DEF prune, parameters
<1>2. \A c \in blocks' : Piece(c, block(First, past - First), breaks)
  <2>. DEFINE B == {block(First, past - First)}
  <2>1. IsFiniteSet(B) /\ B \subseteq Stretches
    BY FS_Singleton, SegmentStretch
  <2>2. blocks' = splitBlocks(B, breaks)
    BY DEF prune, MakeBasicBlocks
  <2>3. \A c \in blocks' : \E b \in B : Piece(c, b, breaks)
    <3>. HIDE DEF B
    <3>. QED BY <2>1, <2>2, SplitsInPieces
  <2>. QED BY <2>3
<1>3. SplitAt(blocks', breaks)
  BY <1>2, SegmentStretch DEF SplitAt, Piece
<1>4. Marks(breaks) /\ Marks(breaks)'
  BY <1>1 DEF EntryInv, Marks, targets, flow
<1>5. SplitAt(blocks, breaks)'
  BY <1>1, <1>3 DEF SplitAt, words
<1>6. ASSUME ~confidence PROVE Entered(kept, tables)'
  <2>1. /\ kept' \subseteq blocks' /\ kept' \subseteq Stretches
        /\ \A b \in kept' : words(b) \subseteq First .. past - 1
    BY <1>1 DEF RewriterInv, words
  <2>2. tables = {}
    BY <1>6 DEF RewriterInv
  <2>3. SplitAt(kept', breaks)
    BY <1>3, <2>1 DEF SplitAt
  <2>4. ASSUME NEW c \in kept', program[last(c)].op = "bi"
        PROVE  loaded(c)[last(c)][program[last(c)].reg] \subseteq breaks
    <3>1. InSegment /\ First .. past - 1 \subseteq DOMAIN program
      <4>1. First \in Nat /\ Cardinality(DOMAIN program) \in Nat
            /\ DOMAIN program = First .. First + Cardinality(DOMAIN program) - 1
            /\ past \in First + 1 .. First + Cardinality(DOMAIN program)
        BY SegmentIs DEF RewriterInv
      <4>. QED BY <4>1 DEF RewriterInv
    <3>2. c \in Stretches /\ words(c) \subseteq DOMAIN program
      BY <2>1, <3>1
    <3>3. last(c) \in DOMAIN program
      BY <3>2, StretchWords
    <3>4. program[last(c)].reg \in Registers
      BY <2>4, <3>1, <3>3, SegmentIs
    <3>. QED BY <1>6, <3>1, <3>2, <3>4, NothingIsLoaded
  <2>5. Entered(kept', tables)
    BY <1>4, <2>1, <2>2, <2>3, <2>4, EntersFrom
  <2>. QED BY <1>1, <2>5, EnteredStays
<1>. QED BY <1>1, <1>4, <1>5, <1>6 DEF EntryInv

\* A piece that ends with a branch ends where the block did.
LEMMA SplitEntry ==
  ASSUME RewriterInv, EntryInv, RewriterInv', split
  PROVE  EntryInv'
<1>. DEFINE labels == UNION {discoverIndirectLocations(b) : b \in kept}
            entries == UNION {{t.start + t.len} \cup {read(a) : a \in words(t)} : t \in tables'}
            new == labels \cup entries
            places == breaks \cup new
<1>1. /\ program' = program /\ UNCHANGED <<past, breaks, confidence>>
      /\ phase = "pruned" /\ phase' = "split" /\ kept' = blocks'
      /\ blocks' = splitBlocks(kept, new)
  BY DEF split, parameters
<1>2. /\ First \in Nat /\ past \in Nat /\ InSegment /\ First .. past - 1 \subseteq DOMAIN program
  <2>1. First \in Nat /\ Cardinality(DOMAIN program) \in Nat
        /\ DOMAIN program = First .. First + Cardinality(DOMAIN program) - 1
        /\ past \in First + 1 .. First + Cardinality(DOMAIN program)
    BY SegmentIs DEF RewriterInv
  <2>. QED BY <2>1 DEF RewriterInv
<1>3. /\ kept \subseteq Stretches /\ IsFiniteSet(kept)
      /\ \A b \in kept : words(b) \subseteq First .. past - 1
  BY FS_Subset DEF RewriterInv
<1>4. Marks(breaks) /\ SplitAt(kept, breaks)
  BY <1>1 DEF EntryInv, RewriterInv, SplitAt
<1>. HIDE DEF new
<1>5. \A c \in blocks' : \E b \in kept : Piece(c, b, new)
  BY <1>1, <1>3, SplitsInPieces
<1>6. blocks' \subseteq Stretches /\ \A c \in blocks' : words(c) \subseteq First .. past - 1
  BY <1>3, <1>5 DEF Piece
<1>7. SplitAt(blocks', places)
  <2>. SUFFICES ASSUME NEW c \in blocks'
                PROVE  places \cap words(c) \subseteq {c.start} /\ c.start + c.len \in places \cup {past}
    BY DEF SplitAt
  <2>1. PICK b \in kept : Piece(c, b, new)
    BY <1>5
  <2>2. breaks \cap words(b) \subseteq {b.start} /\ b.start + b.len \in breaks \cup {past}
    BY <1>4 DEF SplitAt
  <2>. QED BY <2>1, <2>2 DEF Piece
<1>8. ASSUME NEW c \in blocks', program[last(c)].op = "bi"
      PROVE  loaded(c)[last(c)][program[last(c)].reg] \subseteq places
  <2>1. PICK b \in kept : Piece(c, b, new)
    BY <1>5
  <2>2. b \in Stretches /\ c \in Stretches /\ words(c) \subseteq words(b)
        /\ words(b) \subseteq DOMAIN program
    BY <1>2, <1>3, <2>1 DEF Piece
  <2>3. last(c) = last(b)
    <3>1. /\ b.start \in Nat /\ last(b) \in Nat /\ words(b) = b.start .. last(b)
          /\ c.start \in Nat /\ last(c) \in Nat /\ words(c) = c.start .. last(c)
          /\ c.start \in words(c) /\ last(c) \in words(c)
      BY <2>2, StretchWords
    <3>2. b.start <= c.start /\ c.start <= last(c) /\ last(c) <= last(b)
      BY <2>2, <3>1
    <3>3. ASSUME last(c) < last(b) PROVE FALSE
      <4>1. last(c) + 1 \in words(b) /\ last(c) + 1 # b.start
        BY <3>1, <3>2, <3>3
      <4>2. last(c) \in First .. past - 1 /\ last(c) + 1 \in First .. past - 1
        BY <1>3, <2>2, <3>1, <4>1
      <4>3. flow(program[last(c)])
        BY <1>8 DEF flow
      <4>4. last(c) + 1 \in breaks
        BY <1>4, <4>2, <4>3 DEF Marks
      <4>. QED BY <1>4, <4>1, <4>4 DEF SplitAt
    <3>. QED BY <3>1, <3>2, <3>3
  <2>4. loaded(c)[last(c)][program[last(c)].reg] \subseteq discoverIndirectLocations(b)
    BY <1>2, <1>8, <2>2, <2>3, LabelsAreFound
  <2>5. discoverIndirectLocations(b) \subseteq places
    BY DEF new
  <2>. QED BY <2>4, <2>5
<1>9. \A t \in tables' : \A a \in words(t) : read(a) \in places
  BY DEF new
<1>10. Marks(places)
  BY <1>4 DEF Marks
<1>11. Entered(blocks', tables')
  <2>. HIDE DEF places
  <2>. QED BY <1>6, <1>7, <1>8, <1>9, <1>10, EntersFrom
<1>12. Entered(kept, tables)'
  BY <1>1, <1>11, EnteredStays
<1>13. Marks(breaks)'
  BY <1>1, <1>4 DEF Marks, targets, flow
<1>. QED BY <1>1, <1>12, <1>13 DEF EntryInv

LEMMA EntryNext ==
  ASSUME RewriterInv, EntryInv, RewriterInv', [RewriterNext]_rewriterVars
  PROVE  EntryInv'
<1>1. CASE cut
  BY <1>1 DEF cut, EntryInv
<1>2. CASE DiscoverBreaks
  <2>1. phase' = "marked"
    BY <1>2 DEF DiscoverBreaks
  <2>. QED BY <1>2, <2>1, BreaksEntry DEF EntryInv
<1>3. ASSUME UNCHANGED <<program, past, breaks>>, kept' \subseteq kept, tables' = tables,
             \/ phase \in {"split", "tables", "targets"} /\ phase' \in {"tables", "targets", "done"}
             \/ phase' = phase /\ blocks' = blocks
      PROVE  EntryInv'
  <2>1. Marks(breaks)' = Marks(breaks)
    BY <1>3 DEF Marks, targets, flow
  <2>2. SplitAt(blocks, breaks)' = SplitAt(blocks', breaks)
    BY <1>3 DEF SplitAt
  <2>3. Entered(kept, tables) => Entered(kept, tables)'
    BY <1>3, EntersFewer, EnteredStays
  <2>. QED BY <1>3, <2>1, <2>2, <2>3 DEF EntryInv
<1>4. CASE removeTables \/ removeLoadStoreTargets \/ removeLonelyStops
  BY <1>3, <1>4, KeepsSome DEF removeTables, removeLoadStoreTargets, removeLonelyStops, parameters
<1>5. CASE UNCHANGED rewriterVars
  BY <1>3, <1>5 DEF rewriterVars, parameters
<1>. QED BY <1>1, <1>2, <1>4, <1>5, PruneEntry, SplitEntry DEF RewriterNext

\* No block that is kept can be entered but at its start, for any segment: not by a
\* branch, not by a jump through a register that the block loads after its first
\* instruction, in whatever way selb chooses among the addresses, and not by a jump
\* table, though the tables are found in blocks that are split only afterwards.
THEOREM BlocksEnterAtStarts == RewriterSpec => []EntersAtStarts
<1>1. RewriterInit => EntryInv
  BY DEF RewriterInit, EntryInv
<1>2. RewriterInv /\ RewriterInv' /\ EntryInv /\ [RewriterNext]_rewriterVars => EntryInv'
  BY EntryNext
<1>3. EntryInv => EntersAtStarts
  BY DEF EntryInv, Entered, EntersAtStarts
<1>. QED BY <1>1, <1>2, <1>3, InvStart, RewriterInvNext, PTL DEF RewriterSpec
=============================================================================
