------------------------------- MODULE Scheduler -------------------------------
(***************************************************************************)
(* Scheduler: scheduling, cancelling and dispatching events, with each of  *)
(* the queues that Scheduler/List, Scheduler/Heap, Scheduler/Splay,        *)
(* Scheduler/Map and Scheduler/Calendar keep them in, and with             *)
(* Scheduler/RealTime, a calendar whose clock is the computer's.  An       *)
(* operation on a queue is the set of its possible results, of which the   *)
(* calendar, whose bucket width depends on its past, has several.          *)
(***************************************************************************)
EXTENDS Naturals, Sequences, SequencesExt, FiniteSets

CONSTANTS
  Setups,      \* the simulations: scheduler, script and bounds, see below
  KeyRange,    \* as in HeapScheduler
  Widths       \* as in CalendarScheduler

\* kind, the scheduler; script, the times of the events scheduled before
\* "run"; delays, with which others are scheduled; and bounds on the number of
\* events, on those cancelled and on the real-time clock
SetupRecords ==
  [kind : {"List", "Heap", "Splay", "Map", "Calendar", "RealTime"},
   script : Seq(Nat), delays : SUBSET Nat, events : Nat, cancels : Nat, clock : Nat]

ASSUME SchedulerAssumption == Setups \subseteq SetupRecords /\ KeyRange \in Nat \ {0}

VARIABLES
  setup,       \* one of Setups, which never changes
  q,           \* the queue, in the form its scheduler gives it
  clock, uid, halted, last, cancelled   \* as in EventQueue

vars == <<setup, q, clock, uid, halted, last, cancelled>>

List == INSTANCE ListScheduler
Heap == INSTANCE HeapScheduler
Splay == INSTANCE SplayScheduler
Map == INSTANCE MapScheduler
Calendar == INSTANCE CalendarScheduler

IsCalendar == setup.kind \in {"Calendar", "RealTime"}

empty ==
  CASE setup.kind = "List" -> List!empty
    [] setup.kind = "Heap" -> Heap!empty
    [] setup.kind = "Splay" -> Splay!empty
    [] setup.kind = "Map" -> Map!empty
    [] IsCalendar -> Calendar!empty

insert(x, e) ==
  CASE setup.kind = "List" -> List!insert(x, e)
    [] setup.kind = "Heap" -> Heap!insert(x, e)
    [] setup.kind = "Splay" -> Splay!insert(x, e)
    [] setup.kind = "Map" -> Map!insert(x, e)
    [] IsCalendar -> Calendar!insert(x, e)

cancel(x, e) ==
  CASE setup.kind = "List" -> List!cancel(x, e)
    [] setup.kind = "Heap" -> Heap!cancel(x, e)
    [] setup.kind = "Splay" -> Splay!cancel(x, e)
    [] setup.kind = "Map" -> Map!cancel(x, e)
    [] IsCalendar -> Calendar!cancel(x, e)

\* records of an event and the queue that is left
deque(x) ==
  CASE setup.kind = "List" -> List!deque(x)
    [] setup.kind = "Heap" -> Heap!deque(x)
    [] setup.kind = "Splay" -> Splay!deque(x)
    [] setup.kind = "Map" -> Map!deque(x)
    [] IsCalendar -> Calendar!deque(x)

\* The events in the queue
pending ==
  CASE setup.kind = "List" -> List!contents(q)
    [] setup.kind = "Heap" -> Heap!contents(q)
    [] setup.kind = "Splay" -> Splay!contents(q)
    [] setup.kind = "Map" -> q
    [] IsCalendar -> Calendar!contents(q)

\* The queues that a script's first events may make
Started(s) ==
  FoldLeft(LAMBDA queues, e : UNION {insert(x, e) : x \in queues}, {empty},
           [i \in 1 .. Len(s) |-> [time |-> s[i], uid |-> i]])

Init ==
  /\ setup \in Setups
  /\ q \in Started(setup.script)
  /\ uid = Len(setup.script) + 1
  /\ clock = 0 /\ halted = FALSE
  /\ last = [time |-> 0, uid |-> 0] /\ cancelled = {}

\* Scheduler::schedule
Schedule(d) ==
  /\ uid <= setup.events
  /\ q' \in insert(q, [time |-> clock + d, uid |-> uid])
  /\ uid' = uid + 1
  /\ UNCHANGED <<setup, clock, halted, last, cancelled>>

\* "at" and TimerHandler cancel an event in the queue; cancelling another one
\* does nothing, since its uid_ is not positive.
Cancel(e) ==
  /\ Cardinality(cancelled) < setup.cancels
  /\ q' \in cancel(q, e)
  /\ cancelled' = cancelled \cup {e}
  /\ UNCHANGED <<setup, clock, uid, halted, last>>

\* An iteration of Scheduler::run, or of the loop that handles old events in
\* RealTimeScheduler::run
Dispatch ==
  /\ ~halted /\ pending # {}
  /\ \E r \in deque(q) :
       /\ setup.kind = "RealTime" => r.event.time <= clock
       /\ q' = r.rest
       /\ last' = r.event
       /\ clock' = IF setup.kind = "RealTime" THEN clock ELSE r.event.time
  /\ UNCHANGED <<setup, uid, halted, cancelled>>

\* RealTimeScheduler::run looks at the first event and waits for its time.
Wait ==
  /\ setup.kind = "RealTime" /\ ~halted
  /\ q' \in Calendar!head(q)
  /\ clock' \in clock .. setup.clock
  /\ UNCHANGED <<setup, uid, halted, last, cancelled>>

Halt ==
  ~halted /\ halted' = TRUE /\ UNCHANGED <<setup, q, clock, uid, last, cancelled>>

Resume ==
  halted /\ halted' = FALSE /\ UNCHANGED <<setup, q, clock, uid, last, cancelled>>

Next ==
  \/ \E d \in setup.delays : Schedule(d)
  \/ \E e \in pending : Cancel(e)
  \/ Dispatch \/ Wait \/ Halt \/ Resume

Spec == Init /\ [][Next]_vars

-------------------------------------------------------------------------------
\* EventQueue in simulated and in real time; setup's bounds are within these.
Queue(RealTime) == INSTANCE EventQueue WITH
  Startups <- {s.script : s \in Setups},
  Delays <- UNION {s.delays : s \in Setups},
  MaxEvents <- CHOOSE n \in {s.events : s \in Setups} : \A s \in Setups : s.events <= n,
  MaxClock <- CHOOSE n \in {s.clock : s \in Setups} : \A s \in Setups : s.clock <= n

(***************************************************************************)
(* Every scheduler dispatches as EventQueue says: in the order of times,   *)
(* first in first out at one time, and nothing lost when the simulator is  *)
(* halted, whatever deletions move in the heap, rotations in the splay     *)
(* tree, or a calendar that grows, shrinks or changes its width at any     *)
(* time (scheduler.cc, heap.h, splay-scheduler.cc).                        *)
(***************************************************************************)
ImplementsEventQueue ==
  /\ Queue(FALSE)!Init
  /\ [][IF setup.kind = "RealTime" THEN Queue(TRUE)!Next ELSE Queue(FALSE)!Next]_<<pending,
        clock, uid, halted, last, cancelled>>

(***************************************************************************)
(* No cancellation aborts: from the root of a splay tree, comparing times  *)
(* and then uids leads to every event in it, though insertions compare     *)
(* times only (splay-scheduler.cc, SplayScheduler::cancel, "did not find   *)
(* it").                                                                   *)
(***************************************************************************)
CancelFinds == setup.kind = "Splay" => \A e \in pending : Splay!Found(q, e)

(***************************************************************************)
(* stat_qsize_ and count_ count the distinct times of the queue and of the *)
(* buckets: if they drifted, the calendar would not be resized, and the    *)
(* assertions of cancel() (count_ >= 0; count_ = 0 only if the bucket is   *)
(* empty) and newwidth() (nw > 0) would fail (scheduler.cc:973-994, 944).  *)
(***************************************************************************)
CountsDistinctTimes ==
  IsCalendar =>
    /\ q.stat = Cardinality({e.time : e \in pending})
    /\ \A i \in 0 .. q.n - 1 :
         q.buckets[i].count = Cardinality({e.time : e \in ToSet(q.buckets[i].list)})

(***************************************************************************)
(* An event is where a search for it begins: in the bucket of its time,    *)
(* and no event is earlier than cal_clock_, in whose bucket lastbucket_ is *)
(* (scheduler.cc, CAL_DEQUEUE).                                            *)
(***************************************************************************)
CalendarPosition ==
  IsCalendar =>
    /\ q.lastbucket = Calendar!Hash(q.cal_clock, q.width, q.n)
    /\ \A i \in 0 .. q.n - 1 : \A e \in ToSet(q.buckets[i].list) :
         i = Calendar!Hash(e.time, q.width, q.n) /\ q.cal_clock <= e.time
================================================================================
