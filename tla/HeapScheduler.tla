----------------------------- MODULE HeapScheduler -----------------------------
(***************************************************************************)
(* Scheduler/Heap: the events in a binary heap, ordered by time and then   *)
(* by h_s_key, the number of the insertion (common/heap.h).  Positions     *)
(* start at 1 here and at 0 in h_elems.                                    *)
(***************************************************************************)
EXTENDS Naturals, Sequences, SequencesExt

CONSTANT KeyRange   \* h_s_key is an unsigned int: 2^32

empty == [elems |-> <<>>, s_key |-> 0]

\* KEY_LESS_THAN
Less(x, y) ==
  x.elem.time < y.elem.time \/ (x.elem.time = y.elem.time /\ x.s_key < y.s_key)

Swap(s, i, j) == [s EXCEPT ![i] = s[j], ![j] = s[i]]

\* Heap::heap_insert: the element at i rises past the larger ones above it.
RECURSIVE Rise(_, _)
Rise(s, i) ==
  IF i > 1 /\ Less(s[i], s[i \div 2]) THEN Rise(Swap(s, i, i \div 2), i \div 2) ELSE s

insert(h, e) ==
  {[elems |-> Rise(Append(h.elems, [elem |-> e, s_key |-> h.s_key]), Len(h.elems) + 1),
    s_key |-> (h.s_key + 1) % KeyRange]}

\* Heapify: the element at i sinks past the smaller of its children.
RECURSIVE Sink(_, _)
Sink(s, i) ==
  LET l == 2 * i
      r == 2 * i + 1
      x == IF r <= Len(s) THEN IF Less(s[l], s[r]) THEN l ELSE r
           ELSE IF l <= Len(s) THEN l ELSE i
  IN IF x # i /\ Less(s[x], s[i]) THEN Sink(Swap(s, i, x), x) ELSE s

\* Heap::heap_extract_min, whose root need not be the least
ExtractMin(s) == IF Len(s) = 1 THEN <<>> ELSE Sink(Front([s EXCEPT ![1] = Last(s)]), 1)

RECURSIVE ToRoot(_, _)
ToRoot(s, i) == IF i = 1 THEN s ELSE ToRoot(Swap(s, i, i \div 2), i \div 2)

\* Heap::heap_delete
cancel(h, e) ==
  LET i == CHOOSE j \in 1 .. Len(h.elems) : h.elems[j].elem = e
  IN {[h EXCEPT !.elems = ExtractMin(ToRoot(h.elems, i))]}

deque(h) ==
  {[event |-> h.elems[1].elem, rest |-> [h EXCEPT !.elems = ExtractMin(h.elems)]]}

contents(h) == {x.elem : x \in ToSet(h.elems)}
================================================================================
