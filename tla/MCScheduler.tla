------------------------------ MODULE MCScheduler ------------------------------
(***************************************************************************)
(* Small instances of Scheduler for TLC.  The heap starts with three full  *)
(* levels.  The calendar starts with scripts after which one event more    *)
(* makes its 4 buckets grow; events of one time are in the second, and one *)
(* bucket of five times in the third.                                      *)
(***************************************************************************)
EXTENDS Scheduler

Calendars ==
  {<<9, 0, 3, 7, 12, 5, 1, 14>>, <<5, 2, 2, 5, 9, 0, 13, 1, 7, 3>>,
   <<16, 0, 4, 8, 8, 12, 1, 3, 2>>}

AllSetups ==
  {[kind |-> "List", script |-> <<>>, delays |-> {0, 1, 2},
    events |-> 4, cancels |-> 4, clock |-> 0],
   [kind |-> "Heap", script |-> <<0, 3, 1, 4, 5, 2, 2>>, delays |-> {0, 2},
    events |-> 8, cancels |-> 8, clock |-> 0],
   [kind |-> "Splay", script |-> <<>>, delays |-> {0, 1, 2},
    events |-> 5, cancels |-> 5, clock |-> 0],
   [kind |-> "Map", script |-> <<>>, delays |-> {0, 1, 2},
    events |-> 4, cancels |-> 4, clock |-> 0],
   [kind |-> "RealTime", script |-> <<6, 2, 2>>, delays |-> {0, 1, 6},
    events |-> 5, cancels |-> 1, clock |-> 7]}
  \cup
  {[kind |-> "Calendar", script |-> s, delays |-> {0, 6},
    events |-> 11, cancels |-> 1, clock |-> 0] : s \in Calendars}

AnyWidths == {<<1, 2>>, <<3, 1>>}
================================================================================
