----------------------------- MODULE EventQueue -----------------------------
(***************************************************************************)
(* What a node may rely on when the orchestrator pushes it events: a queue *)
(* that keeps the order in which they were sent, never holds one of them   *)
(* twice, and may lose any of them.  (That an event it handled does not    *)
(* come again is HandedOutOnce of EventStream.)  Custody uses these        *)
(* actions for the seeds it handles; EventStream shows that the channels,  *)
(* connections and goroutines between the orchestrator's push and the      *)
(* node's event loop implement them.                                       *)
(***************************************************************************)
EXTENDS Naturals, Sequences

CONSTANTS
  Event,     \* the events that can be pushed
  Capacity   \* how many of them the queue may hold

VARIABLE queue

Init == queue = <<>>

(* A push that goes through, of an event that is not under way already. *)
Push(e) ==
  /\ Len(queue) < Capacity
  /\ \A i \in 1 .. Len(queue) : queue[i] # e
  /\ queue' = Append(queue, e)

(* A push that finds no subscriber, or a channel that is full. *)
Drop == UNCHANGED queue

(* The event loop takes the oldest event. *)
Take(e) ==
  /\ queue # <<>> /\ e = Head(queue)
  /\ queue' = Tail(queue)

(* A cut stream, or a restart of either side, loses what was sent last. *)
Lose == \E k \in 0 .. Len(queue) : queue' = SubSeq(queue, 1, k)

Next == Drop \/ Lose \/ \E e \in Event : Push(e) \/ Take(e)
Spec == Init /\ [][Next]_queue
=============================================================================
