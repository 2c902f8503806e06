---------------------------- MODULE FifoQueue ----------------------------
(***************************************************************************)
(* What a queue promises: values leave in the order they came, and delete  *)
(* takes out the oldest occurrence of a value and nothing else.            *)
(***************************************************************************)
EXTENDS Sequences, SequencesExt

CONSTANTS Values, Nil

VARIABLES
  queue,  \* the values, the oldest first
  out     \* what the last pop() returned

Init == queue = <<>> /\ out = Nil

Push(v) == queue' = Append(queue, v) /\ UNCHANGED out

Pop ==
  \/ /\ queue = <<>> /\ out' = Nil /\ UNCHANGED queue
  \/ /\ queue # <<>> /\ out' = Head(queue) /\ queue' = Tail(queue)

Delete(v) == queue' = RemoveFirst(queue, v) /\ UNCHANGED out

Clear == queue' = <<>> /\ UNCHANGED out

Next == Pop \/ Clear \/ \E v \in Values : Push(v) \/ Delete(v)

Spec == Init /\ [][Next]_<<queue, out>>
=============================================================================
