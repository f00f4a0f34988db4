--------------------------- MODULE GranuleArray ---------------------------
(***************************************************************************)
(* ReservationGranuleArray of ReservationMap.h: the vector, kept by each   *)
(* 128-byte reservation line, of pointers to the granules (one granule per *)
(* guest thread) that hold a reservation on the line.  A slot emptied in   *)
(* place holds a null pointer and is reused by a later insert.             *)
(*                                                                         *)
(* The operators return the vector that a method leaves behind.  Notifying *)
(* the removed granules and nulling their `line` is done by the caller of  *)
(* these operators (module MainMemory), from `holders`.                    *)
(***************************************************************************)
EXTENDS Naturals, Sequences

CONSTANT Null      \* the null pointer: an empty slot

\* The granules whose pointers are in the vector.
holders(arr) == {arr[i] : i \in DOMAIN arr} \ {Null}

\* Is this granule in the vector?
exists(arr, g) == \E i \in DOMAIN arr : arr[i] = g

\* Index of the first empty slot of a vector that has one.
firstFree(arr) ==
  CHOOSE i \in DOMAIN arr : /\ arr[i] = Null
                            /\ \A j \in DOMAIN arr : arr[j] = Null => i <= j

\* Mutant: empty slots are never reused.
insertAtEnd(arr, g) == Append(arr, g)

insert(arr, g) ==
  IF exists(arr, Null) THEN [arr EXCEPT ![firstFree(arr)] = g]
                       ELSE Append(arr, g)

clear(arr) == << >>

\* The new size: one past the last slot that holds the granule to keep.
lastIndex(arr, g) ==
  CHOOSE i \in DOMAIN arr : /\ arr[i] = g
                            /\ \A j \in DOMAIN arr : arr[j] = g => j <= i

clearExcept(arr, g) ==
  IF g = Null \/ ~exists(arr, g)
  THEN << >>
  ELSE [i \in 1 .. lastIndex(arr, g) |-> IF arr[i] = g THEN g ELSE Null]

clearOne(arr, g) == [i \in DOMAIN arr |-> IF arr[i] = g THEN Null ELSE arr[i]]
=============================================================================
