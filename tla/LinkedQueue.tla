--------------------------- MODULE LinkedQueue ---------------------------
(***************************************************************************)
(* The doubly linked queue of packages/utils (queue.ts) that holds the     *)
(* download service's waiting jobs: its nodes, its two ends and its count. *)
(* A node that cannot be reached from head is garbage and may be allocated *)
(* again.                                                                  *)
(***************************************************************************)
EXTENDS Integers, Sequences, FiniteSets, SequencesExt

CONSTANTS
  Values, Nil,
  Nodes,       \* bound: nodes in the queue at once
  LastDeletes  \* whether delete() is called for the only value of a queue

QueueAssumption == Nil \notin Nodes \cup Values /\ LastDeletes \in BOOLEAN

VARIABLES head, tail, size, node, out

vars == <<head, tail, size, node, out>>

Init ==
  /\ head = Nil /\ tail = Nil /\ size = 0 /\ out = Nil
  /\ node \in [Nodes -> {[value |-> Nil, prev |-> Nil, next |-> Nil]}]

-----------------------------------------------------------------------------
\* The nodes from head on, as toJSON() and delete() visit them.
Visited ==
  LET from[n \in Nodes \cup {Nil}] == IF n = Nil THEN <<>> ELSE <<n>> \o from[node[n].next]
  IN from[head]

\* The nodes from tail back.
VisitedBack ==
  LET from[n \in Nodes \cup {Nil}] == IF n = Nil THEN <<>> ELSE from[node[n].prev] \o <<n>>
  IN from[tail]

Contents == [i \in DOMAIN Visited |-> node[Visited[i]].value]

Push(v) ==
  /\ \E n \in Nodes \ ToSet(Visited) :
       LET new == [value |-> v, prev |-> tail, next |-> Nil] IN
       /\ node' = IF tail = Nil THEN [node EXCEPT ![n] = new]
                  ELSE [node EXCEPT ![n] = new, ![tail].next = n]
       /\ tail' = n
       /\ head' = IF head = Nil THEN n ELSE head
  /\ size' = size + 1
  /\ UNCHANGED out

Cleared == head' = Nil /\ tail' = Nil /\ UNCHANGED node

\* The node after head becomes the head.
NewHead(n) == head' = n /\ node' = [node EXCEPT ![n].prev = Nil]

Pop ==
  \/ /\ head = Nil
     /\ out' = Nil
     /\ UNCHANGED <<head, tail, size, node>>
  \/ /\ head # Nil
     /\ out' = node[head].value
     /\ \/ /\ node[head].next # Nil
           /\ NewHead(node[head].next) /\ UNCHANGED tail
           /\ size' = size - 1
        \/ /\ node[head].next = Nil
           /\ Cleared
           /\ size' = 0

\* Takes node n, which is not the only one, out of the list.
Unlinked(n) ==
  LET p == node[n].prev  q == node[n].next IN
  \/ /\ n = head
     /\ NewHead(q) /\ UNCHANGED tail
  \/ /\ n # head /\ n = tail
     /\ tail' = p
     /\ node' = [node EXCEPT ![p].next = Nil]
     /\ UNCHANGED head
  \/ /\ n \notin {head, tail}
     /\ node' = [node EXCEPT ![p].next = q, ![q].prev = p]
     /\ UNCHANGED <<head, tail>>

\* (mutant of Found) The search goes from the tail.
FoundLast(v) == CHOOSE i \in DOMAIN Contents :
  Contents[i] = v /\ \A j \in DOMAIN Contents : Contents[j] = v => j <= i

\* The place of the first node that holds the value.
Found(v) == CHOOSE i \in DOMAIN Contents :
  Contents[i] = v /\ \A j \in DOMAIN Contents : Contents[j] = v => i <= j

CountAfterDelete(k) == k - 1

\* delete(): when nothing is left clear() resets the count, which is counted
\* down all the same.
Delete(v) ==
  /\ UNCHANGED out
  /\ \/ /\ v \notin ToSet(Contents)
        /\ UNCHANGED <<head, tail, size, node>>
     \/ /\ v \in ToSet(Contents)
        /\ LET n == Visited[Found(v)] IN
           \/ /\ n = head /\ node[n].next = Nil /\ LastDeletes
              /\ Cleared
              /\ size' = CountAfterDelete(0)
           \/ /\ ~(n = head /\ node[n].next = Nil)
              /\ Unlinked(n)
              /\ size' = CountAfterDelete(size)

Clear == Cleared /\ size' = 0 /\ UNCHANGED out

Next == Pop \/ Clear \/ \E v \in Values : Push(v) \/ Delete(v)

Spec == Init /\ [][Next]_vars

-----------------------------------------------------------------------------
TypeOK ==
  /\ head \in Nodes \cup {Nil} /\ tail \in Nodes \cup {Nil}
  /\ size \in -1..Cardinality(Nodes)
  /\ node \in [Nodes -> [value : Values \cup {Nil}, prev : Nodes \cup {Nil},
                         next : Nodes \cup {Nil}]]
  /\ out \in Values \cup {Nil}

\* Both directions visit the same nodes, each once: a delete in the middle or
\* at an end leaves neither a cycle nor a node that one direction misses.
LinksAgree == Visited = VisitedBack /\ IsInjective(Visited)

\* "Queue is empty, no jobs to process" is decided by the count alone: it is
\* the number of values, however they were taken out.
SizeIsLength == size = Len(Contents)

Fifo == INSTANCE FifoQueue WITH queue <- Contents

\* The list behaves as a queue of values, and can be walked both ways.
IsAQueue == Fifo!Spec /\ []LinksAgree
=============================================================================
