----------------------------- MODULE MCRewriter -----------------------------
(* Segments for TLC: PPU segments of four words with branches of any kind; SPU *)
(* segments of six words that load addresses, branch through a register and    *)
(* end with words that may be a jump table, data or code.                      *)
EXTENDS Rewriter

plain == [op |-> "plain"]
illegal == [op |-> "illegal"]
branch(place) == [op |-> "branch", to |-> place]
condition(place) == [op |-> "condition", to |-> place]
ilas(places) == {[op |-> "ila", reg |-> r, value |-> v] : r \in Registers, v \in places}
selb == [op |-> "selb", reg |-> "x", a |-> "x", b |-> "y"]
bi == [op |-> "bi", reg |-> "x"]
data(values) == {[op |-> "word", value |-> v] : v \in values}

PPUSegments ==
  {[program |-> p, leads |-> l, confidence |-> FALSE] :
     p \in [1 .. 4 -> {plain, illegal} \cup {branch(t) : t \in {0, 1, 3, 4}}
                                      \cup {condition(t) : t \in {0, 1, 3, 4}}],
     l \in {{}, {3}}}

Loads == {plain} \cup ilas({3, 5})
Joins == {plain, selb} \cup ilas({5, 6}) \cup {condition(2)}
Jumps == {plain, selb, bi, branch(5)}
Rests == {illegal, bi, [op |-> "load", to |-> 5]} \cup data({0, 2, 5})

SPUSegments ==
  {[program |-> <<a, b, c, d, e, f>>, leads |-> {}, confidence |-> TRUE] :
     a \in Loads, b \in Joins, c \in Jumps, d, e, f \in Rests}

MCSegments == PPUSegments \cup SPUSegments
=============================================================================
