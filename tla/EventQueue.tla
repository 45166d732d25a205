------------------------------ MODULE EventQueue ------------------------------
(***************************************************************************)
(* What every scheduler of the simulator promises: events are dispatched   *)
(* in the order of their times, those of one time in the order they were   *)
(* scheduled, and none is lost or dispatched twice.  An event is its time  *)
(* and its uid_.                                                           *)
(***************************************************************************)
EXTENDS Naturals, Sequences

CONSTANTS
  Startups,    \* sequences of delays: what a script may schedule before "run"
  Delays,      \* the delays events are scheduled with
  MaxEvents,   \* bound on the events scheduled
  MaxClock,    \* bound on the real-time clock
  RealTime     \* is this Scheduler/RealTime?

ASSUME EventQueueAssumption ==
  /\ Startups \subseteq Seq(Nat) /\ Delays \subseteq Nat
  /\ MaxEvents \in Nat /\ MaxClock \in Nat
  /\ RealTime \in BOOLEAN

VARIABLES
  pending,   \* the events in the queue
  clock,     \* clock_
  uid,       \* uid_, the next event's
  halted,    \* halted_
  last,      \* the event dispatched last
  cancelled  \* history: the events cancelled

vars == <<pending, clock, uid, halted, last, cancelled>>

NoStartup == {<<>>}

NoEvent == [time |-> 0, uid |-> 0]

Before(e, f) == e.time < f.time \/ (e.time = f.time /\ e.uid < f.uid)

Init ==
  /\ \E s \in Startups :
       /\ pending = {[time |-> s[i], uid |-> i] : i \in 1 .. Len(s)}
       /\ uid = Len(s) + 1
  /\ clock = 0
  /\ halted = FALSE /\ last = NoEvent /\ cancelled = {}

Schedule(d) ==
  /\ uid <= MaxEvents
  /\ pending' = pending \cup {[time |-> clock + d, uid |-> uid]}
  /\ uid' = uid + 1
  /\ UNCHANGED <<clock, halted, last, cancelled>>

\* Mutant: the first event by time, whichever was scheduled first
DispatchAny(e) ==
  /\ ~halted
  /\ \A f \in pending : e.time <= f.time
  /\ RealTime => e.time <= clock
  /\ pending' = pending \ {e}
  /\ clock' = IF RealTime THEN clock ELSE e.time
  /\ last' = e
  /\ UNCHANGED <<uid, halted, cancelled>>

Cancel(e) ==
  /\ pending' = pending \ {e}
  /\ cancelled' = cancelled \cup {e}
  /\ UNCHANGED <<clock, uid, halted, last>>

\* The clock of a simulation jumps to the event's time; a real-time clock has
\* reached it.
Dispatch(e) ==
  /\ ~halted
  /\ \A f \in pending \ {e} : Before(e, f)
  /\ RealTime => e.time <= clock
  /\ pending' = pending \ {e}
  /\ clock' = IF RealTime THEN clock ELSE e.time
  /\ last' = e
  /\ UNCHANGED <<uid, halted, cancelled>>

Tick ==
  /\ RealTime
  /\ clock' \in clock .. MaxClock
  /\ UNCHANGED <<pending, uid, halted, last, cancelled>>

Halt == halted' = TRUE /\ UNCHANGED <<pending, clock, uid, last, cancelled>>

Resume == halted' = FALSE /\ UNCHANGED <<pending, clock, uid, last, cancelled>>

Next ==
  \/ \E d \in Delays : Schedule(d)
  \/ \E e \in pending : Cancel(e) \/ Dispatch(e)
  \/ Tick \/ Halt \/ Resume

Spec == Init /\ [][Next]_vars

-------------------------------------------------------------------------------
Events == [time : Nat, uid : Nat]

TypeOK ==
  /\ pending \subseteq Events
  /\ clock \in Nat /\ uid \in Nat /\ halted \in BOOLEAN
  /\ last \in Events /\ cancelled \subseteq Events

(***************************************************************************)
(* The clock never runs backwards, which Scheduler::dispatch would answer  *)
(* with abort(): no event in the queue is earlier than the clock, or than  *)
(* the event dispatched last (scheduler.cc:143).  A real-time clock may    *)
(* have passed the times of pending events, not the last one's order.      *)
(***************************************************************************)
NotBackwards ==
  /\ \A e \in pending : Before(last, e) /\ (~RealTime => clock <= e.time)
  /\ last.time <= clock

(***************************************************************************)
(* Events leave in the order of their times, and those of one time in the  *)
(* order of schedule() (scheduler.cc: every queue's comparison of times).  *)
(***************************************************************************)
InOrder == [][last' # last => Before(last, last')]_vars
================================================================================
