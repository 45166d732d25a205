----------------------------- MODULE ListScheduler -----------------------------
(***************************************************************************)
(* Scheduler/List: the events in a linked list, the next one first.        *)
(***************************************************************************)
EXTENDS Naturals, Sequences, SequencesExt

empty == <<>>

\* The number of events that an event of time t is not before
Passed(s, t) == CHOOSE i \in 0 .. Len(s) :
  /\ \A j \in 1 .. i : t >= s[j].time
  /\ i < Len(s) => t < s[i + 1].time

insert(s, e) == {InsertAt(s, Passed(s, e.time) + 1, e)}

cancel(s, e) == {Remove(s, e)}

deque(s) == {[event |-> Head(s), rest |-> Tail(s)]}

contents(s) == ToSet(s)
================================================================================
