--------------------------- MODULE BlockingQueue ---------------------------
(***************************************************************************)
(* What a bounded queue of events promises: a send appends when there is   *)
(* room, a receive takes the oldest event when the caller is the one to be *)
(* served, and a call that cannot be served yet waits.  The waiting is     *)
(* abstract: a call that can be served is served, and nothing is said of   *)
(* how its thread learns of it.                                            *)
(***************************************************************************)
EXTENDS Naturals, Sequences

CONSTANTS Threads, Events, Size, Null

VARIABLES
  q,        \* the events
  call,     \* [Threads -> {"none", "send", "receive"}], the calls that wait
  item,     \* what a waiting send wants to append
  turn,     \* the receiver to be served, chosen by the order of service
  got       \* [Threads -> Seq(Events)], what a thread's last call returned

absVars == <<q, call, item, turn, got>>

Init ==
  /\ q = << >>
  /\ call = [t \in Threads |-> "none"]
  /\ item = [t \in Threads |-> Null]
  /\ turn = Null
  /\ got = [t \in Threads |-> << >>]

Begin(t, what) == call[t] = "none" /\ call' = [call EXCEPT ![t] = what]
End(t, result) == call' = [call EXCEPT ![t] = "none"] /\ got' = [got EXCEPT ![t] = result]

\* The turn goes to a thread that waits to receive, if there is one.
receivers == {t \in Threads : call[t] = "receive"}
turnOf(R) == IF R = {} THEN {Null} ELSE R

\* A send that does not wait, successful or refused, and one that must wait.
Send(t, e) ==
  /\ call[t] = "none" /\ Len(q) < Size
  /\ q' = Append(q, e)
  /\ UNCHANGED <<call, item, turn, got>>

AwaitRoom(t, e) ==
  /\ Begin(t, "send") /\ Len(q) >= Size
  /\ item' = [item EXCEPT ![t] = e]
  /\ UNCHANGED <<q, turn, got>>

CompleteSend(t) ==
  /\ call[t] = "send" /\ Len(q) < Size
  /\ q' = Append(q, item[t])
  /\ call' = [call EXCEPT ![t] = "none"]
  /\ UNCHANGED <<item, turn, got>>

AwaitEvent(t) ==
  /\ Begin(t, "receive")
  /\ turn' \in turnOf(receivers \cup {t})
  /\ UNCHANGED <<q, item, got>>

\* The caller is served at once when there is an event and nobody goes first.
Receive(t) ==
  /\ call[t] = "none" /\ q # << >>
  /\ End(t, <<Head(q)>>) /\ q' = Tail(q)
  /\ turn' \in turnOf(receivers)
  /\ UNCHANGED item

CompleteReceive(t) ==
  /\ call[t] = "receive" /\ turn = t /\ q # << >>
  /\ End(t, <<Head(q)>>) /\ q' = Tail(q)
  /\ turn' \in turnOf(receivers \ {t})
  /\ UNCHANGED item

\* Some of the oldest events are taken, or all of them thrown away.
Poll(t, n) ==
  /\ call[t] = "none"
  /\ End(t, SubSeq(q, 1, n)) /\ q' = SubSeq(q, n + 1, Len(q))
  /\ UNCHANGED <<item, turn>>

Clear(t) ==
  /\ call[t] = "none"
  /\ q' = << >>
  /\ UNCHANGED <<call, item, turn, got>>

Next ==
  \E t \in Threads :
    \/ \E e \in Events : Send(t, e) \/ AwaitRoom(t, e)
    \/ CompleteSend(t) \/ AwaitEvent(t) \/ Receive(t) \/ CompleteReceive(t)
    \/ \E n \in 0 .. Len(q) : Poll(t, n)
    \/ Clear(t)

AbsSpec == Init /\ [][Next]_absVars

\* A call that can be served for good is served.
AbsFairSpec ==
  AbsSpec /\ \A t \in Threads : WF_absVars(CompleteSend(t)) /\ WF_absVars(CompleteReceive(t))
=============================================================================
