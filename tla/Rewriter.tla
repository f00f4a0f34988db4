------------------------------ MODULE Rewriter ------------------------------
(***************************************************************************)
(* ps3tool-core/Rewriter.cpp and GraphTools.cpp: the rewriter looks for    *)
(* the basic blocks of a segment of code, which it then translates.        *)
(*                                                                         *)
(* A segment holds code and data.  PPU code is taken as it is, but for     *)
(* what leads to an illegal instruction.  Of an SPU segment, with          *)
(* confidence, the end is cut off as data; branches through a register and *)
(* jump tables are looked for, since the blocks they enter have to begin   *)
(* there; and what looks like data is left out, with all that leads to it. *)
(*                                                                         *)
(* Addresses are counted in words.  Of an instruction the model has what   *)
(* analyze, the disassembler and a read of its word tell of it; the word   *)
(* of a true instruction is neither zero nor an address in the segment,    *)
(* and a word that is one of these disassembles as a stop.                 *)
(***************************************************************************)
EXTENDS Naturals, FiniteSets, FiniteSetsExt

CONSTANTS
  First,         \* the address of the segment
  Registers,
  Segments       \* records of a program, a function of the addresses in the
                 \* segment, its leads, and whether it is the SPU's

\* An address that is in no segment.
Nowhere == 0

\* A segment is not empty.  selb and bi name registers, and ila is an instruction
\* of the SPU, whose segments are the ones with confidence.
ASSUME RewriterAssumption ==
  /\ First \in Nat \ {Nowhere}
  /\ \A segment \in Segments :
       LET p == segment.program
       IN /\ IsFiniteSet(DOMAIN p) /\ First \in DOMAIN p
          /\ DOMAIN p = First .. First + Cardinality(DOMAIN p) - 1
          /\ segment.confidence \in BOOLEAN
          /\ \A a \in DOMAIN p :
               /\ p[a].op = "selb" => {p[a].a, p[a].b} \subseteq Registers
               /\ p[a].op = "bi" => p[a].reg \in Registers
               /\ p[a].op = "ila" => segment.confidence

VARIABLES
  program, leads, confidence,   \* the parameters of discoverBasicBlocks
  past,          \* the address after the segment, as far as it is code
  phase,         \* how far discoverBasicBlocks is
  breaks,        \* CodeMap, the addresses where a block begins
  blocks,        \* the basic blocks
  kept,          \* those that are left in the graph
  tables         \* the jump tables that were found

parameters == <<program, leads, confidence>>
rewriterVars == <<parameters, past, phase, breaks, blocks, kept, tables>>

RewriterInit ==
  /\ \E segment \in Segments :
       /\ program = segment.program
       /\ leads = segment.leads /\ confidence = segment.confidence
  /\ past = First + Cardinality(DOMAIN program)
  /\ phase = "start" /\ breaks = {} /\ blocks = {} /\ kept = {} /\ tables = {}

inrange(address) == First <= address /\ address < past

\* A stretch of words.
block(start, len) == [start |-> start, len |-> len]
words(b) == b.start .. b.start + b.len - 1
intersects(b, c) == words(b) \cap words(c) # {}
last(b) == b.start + b.len - 1

-----------------------------------------------------------------------------
(* Instructions: branches with a target, conditional or with link            *)
(* (condition) or not (branch), a branch through a register (bi), loads and  *)
(* stores at an address, ila, selb, words of data, others, and illegal ones. *)

flow(i) == i.op \in {"branch", "condition", "bi"}
targets(i) == IF i.op \in {"branch", "condition"} THEN {i.to} ELSE {}
passthrough(i) == i.op = "condition"
read(address) == IF program[address].op = "word" THEN program[address].value ELSE Nowhere
isZero(address) == program[address].op = "word" /\ program[address].value = Nowhere

-----------------------------------------------------------------------------
(* Breaks and blocks                                                       *)

\* The second of two zero words that follow each other ends the code.
findDataCutoff ==
  LET seconds == {a \in First + 1 .. past - 1 : isZero(a - 1) /\ isZero(a)}
  IN IF seconds = {} THEN past ELSE Min(seconds)

cut ==
  /\ phase = "start" /\ phase' = "cut"
  /\ past' = IF confidence THEN findDataCutoff ELSE past
  /\ UNCHANGED <<parameters, breaks, blocks, kept, tables>>

DiscoverBreaks ==
  /\ phase = "cut" /\ phase' = "marked"
  /\ breaks' = leads \cup
       {a \in First .. past - 1 : \E from \in First .. past - 1 :
          \/ a \in targets(program[from])
          \/ flow(program[from]) /\ a = from + 1}
  /\ UNCHANGED <<parameters, past, blocks, kept, tables>>

\* The stretches with a new one at each of the places.
splitBlocks(stretches, places) ==
  UNION {LET starts == {b.start} \cup (places \cap words(b))
             after(s) == Min({b.start + b.len} \cup {t \in starts : s < t})
         IN {block(s, after(s) - s) : s \in starts} : b \in stretches}

MakeBasicBlocks == splitBlocks({block(First, past - First)}, breaks)

-----------------------------------------------------------------------------
(* The graph of the blocks                                                 *)

\* buildGraph: the blocks that the last instruction of b leads to.
edges(bs, b) ==
  LET i == program[last(b)]
  IN {c \in bs : /\ flow(i)
                 /\ c.start \in targets(i) \cup (IF passthrough(i) THEN {last(b) + 1} ELSE {})}

\* Mutant: the graph is not reversed, and what the bad blocks lead to is removed.
removeSuccessors(bs, bad) ==
  LET found[n \in 0 .. Cardinality(bs)] ==
        IF n = 0 THEN bad
        ELSE LET reached == found[n - 1]
             IN reached \cup {c \in bs : \E b \in reached : c \in edges(bs, b)}
  IN bs \ found[Cardinality(bs)]

\* removeVertices: a search of the reversed graph from each bad block.
removeVertices(bs, bad) ==
  LET found[n \in 0 .. Cardinality(bs)] ==
        IF n = 0 THEN bad
        ELSE LET reached == found[n - 1]
             IN reached \cup {b \in bs : edges(bs, b) \cap reached # {}}
  IN bs \ found[Cardinality(bs)]

containsIllegalInstruction(b) == \E a \in words(b) : program[a].op = "illegal"

prune ==
  /\ phase = "marked" /\ phase' = IF confidence THEN "pruned" ELSE "done"
  /\ blocks' = MakeBasicBlocks
  /\ kept' = removeVertices(blocks', {b \in blocks' : containsIllegalInstruction(b)})
  /\ UNCHANGED <<parameters, past, breaks, tables>>

-----------------------------------------------------------------------------
(* Indirect branches and jump tables                                       *)

\* Mutant: selb is not looked at.
scanNoSelb(state, a) ==
  LET i == program[a]
  IN CASE i.op = "bi" -> [state EXCEPT !.marked = @ \cup {i.reg}]
       [] i.op = "ila" /\ i.reg \in state.marked -> [state EXCEPT !.labels = @ \cup {i.value}]
       [] OTHER -> state

\* One step of discoverIndirectLocations, which goes backwards: the registers a
\* branch takes its target from, and the addresses that are loaded into them.
scan(state, a) ==
  LET i == program[a]
  IN CASE i.op = "bi" -> [state EXCEPT !.marked = @ \cup {i.reg}]
       [] i.op = "selb" /\ i.reg \in state.marked -> [state EXCEPT !.marked = @ \cup {i.a, i.b}]
       [] i.op = "ila" /\ i.reg \in state.marked -> [state EXCEPT !.labels = @ \cup {i.value}]
       [] OTHER -> state

\* It leaves out the first instruction of the block.
discoverIndirectLocations(b) ==
  LET scanned[k \in 0 .. b.len - 1] ==
        IF k = 0 THEN [marked |-> {}, labels |-> {}]
        ELSE scan(scanned[k - 1], last(b) + 1 - k)
  IN scanned[b.len - 1].labels

\* How many words from there on are addresses in the segment.
tableLength(table) ==
  Cardinality({a \in table .. past - 1 : \A c \in table .. a : inrange(c) /\ inrange(read(c))})

\* The table at the first ila in the block that has a table at its address.
discoverJumpTable(b) ==
  LET found == {a \in words(b) : program[a].op = "ila" /\ tableLength(program[a].value) > 0}
      table == program[Min(found)].value
  IN IF found = {} THEN {} ELSE {block(table, tableLength(table))}

split ==
  /\ phase = "pruned" /\ phase' = "split"
  /\ tables' = UNION {discoverJumpTable(b) : b \in kept}
  /\ blocks' = splitBlocks(kept,
       (UNION {discoverIndirectLocations(b) : b \in kept})
         \cup (UNION {{t.start + t.len} \cup {read(a) : a \in words(t)} : t \in tables'}))
  /\ kept' = blocks'
  /\ UNCHANGED <<parameters, past, breaks>>

-----------------------------------------------------------------------------
(* What looks like data                                                    *)

isTable(b) == \E t \in tables : intersects(b, t)

removeTables ==
  /\ phase = "split" /\ phase' = "tables"
  /\ kept' = removeVertices(kept, {b \in kept : isTable(b)})
  /\ UNCHANGED <<parameters, past, breaks, blocks, tables>>

\* Where the loads and stores of the blocks go.
accessed(bs) == {program[a].to : a \in {a \in UNION {words(b) : b \in bs} : program[a].op = "load"}}

removeLoadStoreTargets ==
  /\ phase = "tables" /\ phase' = "targets"
  /\ kept' = removeVertices(kept, {b \in kept : words(b) \cap accessed(kept) # {}})
  /\ UNCHANGED <<parameters, past, breaks, blocks, tables>>

lonelyStop(b) == b.len = 1 /\ program[b.start].op = "word"

\* Nothing that leads to a lonely stop is removed with it.
removeLonelyStops ==
  /\ phase = "targets" /\ phase' = "done"
  /\ kept' = {b \in kept : ~lonelyStop(b)}
  /\ UNCHANGED <<parameters, past, breaks, blocks, tables>>

\* discoverBasicBlocks
RewriterNext ==
  \/ cut \/ DiscoverBreaks \/ prune \/ split
  \/ removeTables \/ removeLoadStoreTargets \/ removeLonelyStops

RewriterSpec == RewriterInit /\ [][RewriterNext]_rewriterVars

-----------------------------------------------------------------------------
(* Properties                                                              *)

\* The largest set of the blocks that has none of the bad ones and that no block
\* leads out of.
greatestWithout(bs, bad) ==
  UNION {s \in SUBSET (bs \ bad) : \A b \in s : edges(bs, b) \subseteq s}

\* What is kept is all that leads to nothing bad, and nothing else: of the first
\* graph, illegal instructions; of the second, jump tables, and then what is
\* loaded or stored by a block that was kept until then.
\* Behaviour: removeVertices searches the reversed graph from every bad block.
KeepsTheGreatest ==
  /\ phase \in {"pruned", "done"} /\ (confidence => phase = "pruned") =>
       kept = greatestWithout(blocks, {b \in blocks : containsIllegalInstruction(b)})
  /\ phase = "tables" => kept = greatestWithout(blocks, {b \in blocks : isTable(b)})
  /\ phase = "targets" =>
       LET left == greatestWithout(blocks, {b \in blocks : isTable(b)})
       IN kept = greatestWithout(left, {b \in left : words(b) \cap accessed(left) # {}})

\* The addresses a register may hold at an instruction of the block, as far as the
\* block loads them after its first instruction.
loaded(b) ==
  LET before[a \in b.start .. last(b)] ==
        [r \in Registers |->
          LET i == program[a - 1]
          IN IF a <= b.start + 1 THEN {}
             ELSE CASE i.op = "ila" /\ i.reg = r -> {i.value}
                    [] i.op = "selb" /\ i.reg = r -> before[a - 1][i.a] \cup before[a - 1][i.b]
                    [] OTHER -> before[a - 1][r]]
  IN before

\* Where the last instruction of a block may go on: a target, the addresses in
\* the register of the branch, or the next instruction.
successors(b) ==
  LET i == program[last(b)]
  IN targets(i)
       \cup (IF i.op = "bi" THEN loaded(b)[last(b)][i.reg] ELSE {})
       \cup (IF passthrough(i) \/ ~flow(i) THEN {last(b) + 1} ELSE {})

\* No block that is kept can be entered anywhere but at its start, be it by a
\* branch, by a jump through a register that the block loads (but not with its
\* first instruction), or by a jump table.
\* Behaviour: every such place is marked before the blocks are made or split at
\* afterwards, and tables are looked for in blocks that are split later.
EntersAtStarts ==
  phase = "done" =>
    \A b \in kept :
      words(b) \cap ((UNION {successors(c) : c \in kept})
                       \cup (UNION {{read(a) : a \in words(t)} : t \in tables}))
        \subseteq {b.start}
=============================================================================
