------------------------------- MODULE LLSC -------------------------------
(***************************************************************************)
(* What guest programs are promised about reservations: every operation    *)
(* on a line is one step.  A thread that reserves a line sees its words as *)
(* they are in that step; a write takes the reservations of all the other  *)
(* threads on the lines it touches; a conditional write happens only with  *)
(* the reservation in place.  A reservation may be lost at any time.       *)
(***************************************************************************)
CONSTANTS Threads, Hosts, Lines, Words, Values, Zero, Null

Loc == Lines \X Words

VARIABLES
  mem,        \* [Loc -> Values]
  reserved,   \* [Threads -> Lines or Null]
  storing,    \* the threads whose conditional write has succeeded and that
              \* have not been told yet
  view        \* [Threads -> [Words -> Values or Null]], the words of the
              \* reserved line that the thread has loaded or written

vars == <<mem, reserved, storing, view>>

Init ==
  /\ mem = [x \in Loc |-> Zero]
  /\ reserved = [t \in Threads |-> Null]
  /\ storing = {}
  /\ view = [t \in Threads |-> [w \in Words |-> Null]]

\* Load the locations R of line l and reserve the line.
Reserve(t, l, R) ==
  /\ R \subseteq {l} \X Words
  /\ reserved' = [reserved EXCEPT ![t] = l]
  /\ view' = [view EXCEPT ![t] = [w \in Words |-> IF <<l, w>> \in R THEN mem[<<l, w>>] ELSE Null]]
  /\ UNCHANGED <<mem, storing>>

Lose(T) ==
  /\ reserved' = [t \in Threads |-> IF t \in T THEN Null ELSE reserved[t]]
  /\ UNCHANGED <<mem, storing, view>>

\* A write by a, which keeps its own reservation or gives it up.
Write(a, R, v, keep) ==
  /\ mem' = [x \in Loc |-> IF x \in R THEN v ELSE mem[x]]
  /\ reserved' = [t \in Threads |->
                    IF /\ reserved[t] \in {x[1] : x \in R}
                       /\ ~(t = a /\ keep)
                    THEN Null ELSE reserved[t]]
  /\ view' = [t \in Threads |-> [w \in Words |->
                    IF t = a /\ <<reserved[t], w>> \in R THEN v ELSE view[t][w]]]

\* writeCond returns true: the thread has its reservation, and gives it up.
WriteConditional(t, R, v) ==
  /\ reserved[t] # Null /\ R \subseteq {reserved[t]} \X Words
  /\ Write(t, R, v, FALSE)
  /\ storing' = storing \cup {t}

\* ... and the thread learns of its success.
Stored(t) ==
  /\ storing' = storing \ {t}
  /\ UNCHANGED <<mem, reserved, view>>

Next ==
  \/ \E t \in Threads, l \in Lines, R \in SUBSET Loc : Reserve(t, l, R)
  \/ \E T \in SUBSET Threads : Lose(T)
  \/ \E a \in Threads \cup Hosts, R \in SUBSET Loc, v \in Values, keep \in BOOLEAN :
        Write(a, R, v, keep) /\ UNCHANGED storing
  \/ \E t \in Threads, R \in SUBSET Loc, v \in Values : WriteConditional(t, R, v)
  \/ \E t \in Threads : Stored(t)

Spec == Init /\ [][Next]_vars
=============================================================================
