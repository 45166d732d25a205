----------------------------- MODULE MapScheduler -----------------------------
(***************************************************************************)
(* Scheduler/Map: the events in a std::set ordered by time and uid.        *)
(* deque() reads the element through the iterator it has erased; in the    *)
(* freed node, which nothing has reused yet, it still is.                  *)
(***************************************************************************)
EXTENDS Naturals

empty == {}

Less(e, f) == e.time < f.time \/ (e.time = f.time /\ e.uid < f.uid)

insert(s, e) == {s \cup {e}}

cancel(s, e) == {s \ {e}}

deque(s) ==
  LET begin == CHOOSE e \in s : \A f \in s : ~Less(f, e)
  IN {[event |-> begin, rest |-> s \ {begin}]}
================================================================================
