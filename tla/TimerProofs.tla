------------------------------ MODULE TimerProofs ------------------------------
(***************************************************************************)
(* The order of dispatch, for any number of events, delays and scripts,    *)
(* and the timers on the event queue, for any number of them.              *)
(***************************************************************************)
EXTENDS TimerHandler, TLAPS

USE EventQueueAssumption, TimerAssumption

-------------------------------------------------------------------------------
\* The event queue.  uid_ is larger than the uids given out: the part that makes the order of
\* events of one time inductive.
Fresh == uid > 0 /\ last.uid < uid /\ \A e \in pending : e.uid < uid

IInv == TypeOK /\ NotBackwards /\ Fresh

LEMMA InitIInv == Init => IInv
<1> SUFFICES ASSUME Init PROVE IInv
  OBVIOUS
<1> PICK s \in Startups : /\ pending = {[time |-> s[i], uid |-> i] : i \in 1 .. Len(s)}
                          /\ uid = Len(s) + 1
  BY DEF Init
<1>s. s \in Seq(Nat) /\ Len(s) \in Nat /\ \A i \in 1 .. Len(s) : s[i] \in Nat
  OBVIOUS
<1>p. pending \subseteq Events
  BY <1>s DEF Events
<1>h. halted \in BOOLEAN /\ cancelled \subseteq Events
  BY DEF Init
<1>l. last \in Events /\ clock \in Nat /\ uid \in Nat
  BY <1>s DEF Init, NoEvent, Events
<1>1. TypeOK
  BY <1>p, <1>h, <1>l DEF TypeOK
<1>2. NotBackwards
  BY <1>s DEF Init, NotBackwards, NoEvent, Before
<1>3. Fresh
  BY <1>s DEF Init, Fresh, NoEvent
<1> QED
  BY <1>1, <1>2, <1>3 DEF IInv

LEMMA ScheduleIInv ==
  ASSUME NEW d \in Delays, IInv, Schedule(d) PROVE IInv'
<1> DEFINE new == [time |-> clock + d, uid |-> uid]
<1>t. d \in Nat /\ clock \in Nat /\ uid \in Nat /\ new \in Events
  BY DEF IInv, TypeOK, Events
<1>p. pending' = pending \cup {new} /\ uid' = uid + 1 /\ UNCHANGED <<clock, halted, last, cancelled>>
  BY DEF Schedule
<1>1. TypeOK'
  BY <1>t, <1>p DEF IInv, TypeOK
<1>2. Before(last, new) /\ clock <= new.time
  BY <1>t DEF IInv, TypeOK, NotBackwards, Fresh, Before, Events
<1>3. NotBackwards'
  BY <1>2, <1>p DEF IInv, NotBackwards, Before
<1>4. Fresh'
  BY <1>t, <1>p DEF IInv, TypeOK, Fresh, Events
<1> QED
  BY <1>1, <1>3, <1>4 DEF IInv

LEMMA CancelIInv ==
  ASSUME NEW e \in pending, IInv, Cancel(e) PROVE IInv'
<1>1. TypeOK'
  BY DEF IInv, TypeOK, Cancel
<1>2. NotBackwards'
  BY DEF IInv, NotBackwards, Cancel, Before
<1>3. Fresh'
  BY DEF IInv, Fresh, Cancel
<1> QED
  BY <1>1, <1>2, <1>3 DEF IInv

LEMMA DispatchIInv ==
  ASSUME NEW e \in pending, IInv, Dispatch(e) PROVE IInv'
<1>t. e \in Events /\ clock \in Nat
  BY DEF IInv, TypeOK
<1>1. TypeOK'
  BY <1>t DEF IInv, TypeOK, Dispatch, Events
<1>2. NotBackwards'
  <2>1. \A f \in pending' : Before(last', f)
    BY DEF Dispatch, Before
  <2>2. ASSUME ~RealTime, NEW f \in pending' PROVE clock' <= f.time
    <3>1. clock' = e.time /\ Before(e, f) /\ f \in Events
      BY <2>2 DEF Dispatch, IInv, TypeOK
    <3> QED
      BY <3>1, <1>t DEF Before, Events
  <2>3. last'.time <= clock'
    BY <1>t DEF Dispatch, Events
  <2> QED
    BY <2>1, <2>2, <2>3 DEF NotBackwards, Before
<1>3. Fresh'
  BY DEF IInv, Fresh, Dispatch
<1> QED
  BY <1>1, <1>2, <1>3 DEF IInv

LEMMA OtherIInv ==
  ASSUME IInv, Tick \/ Halt \/ Resume \/ UNCHANGED vars PROVE IInv'
<1>1. CASE Tick
  <2>1. clock' \in Nat /\ clock <= clock'
    BY <1>1 DEF Tick, IInv, TypeOK
  <2>2. RealTime /\ UNCHANGED <<pending, uid, halted, last, cancelled>>
    BY <1>1 DEF Tick
  <2>3. TypeOK' /\ Fresh'
    BY <2>1, <2>2 DEF IInv, TypeOK, Fresh
  <2>4. NotBackwards'
    BY <2>1, <2>2 DEF IInv, TypeOK, NotBackwards, Before, Events
  <2> QED
    BY <2>3, <2>4 DEF IInv
<1>2. CASE Halt \/ Resume
  BY <1>2 DEF Halt, Resume, IInv, TypeOK, NotBackwards, Fresh, Before
<1>3. CASE UNCHANGED vars
  BY <1>3 DEF vars, IInv, TypeOK, NotBackwards, Fresh, Before
<1> QED
  BY <1>1, <1>2, <1>3

LEMMA Invariance == Spec => []IInv
<1>1. IInv /\ [Next]_vars => IInv'
  BY ScheduleIInv, CancelIInv, DispatchIInv, OtherIInv DEF Next
<1> QED
  BY InitIInv, <1>1, PTL DEF Spec

(***************************************************************************)
(* The queue and the history hold events only: a time and a uid_ that are  *)
(* natural numbers, for every script (Scheduler::schedule).                *)
(***************************************************************************)
THEOREM QueueTypeCorrect == Spec => []TypeOK
<1>1. IInv => TypeOK
  BY DEF IInv
<1> QED
  BY Invariance, <1>1, PTL

(***************************************************************************)
(* The clock of a scheduler never runs backwards: for every script and     *)
(* every set of delays no pending event is earlier than the clock or than  *)
(* the event dispatched last, so that dispatch() never aborts.             *)
(***************************************************************************)
THEOREM ClockNotBackwards == Spec => []NotBackwards
<1>1. IInv => NotBackwards
  BY DEF IInv
<1> QED
  BY Invariance, <1>1, PTL

(***************************************************************************)
(* Events are dispatched in the order of their times, and those of one     *)
(* time first in, first out (Scheduler::deque, Scheduler::dispatch).       *)
(***************************************************************************)
THEOREM DispatchInOrder == Spec => InOrder
<1>1. IInv /\ [Next]_vars => [last' # last => Before(last, last')]_vars
  <2> SUFFICES ASSUME IInv, Next, last' # last PROVE Before(last, last')
    BY DEF vars
  <2>1. PICK e \in pending : Dispatch(e)
    BY DEF Next, Schedule, Cancel, Tick, Halt, Resume
  <2> QED
    BY <2>1 DEF Dispatch, IInv, NotBackwards
<1> QED
  BY Invariance, <1>1, PTL DEF Spec, InOrder

-------------------------------------------------------------------------------
TimerTypeOK ==
  /\ status \in [Timers -> {"IDLE", "PENDING", "HANDLING"}]
  /\ event \in [Timers -> [time : Nat, uid : Int]]
  /\ handling \in Timers \cup {None}
  /\ due \in [Timers -> Int]

\* The events of two timers never share a uid_ while one of them is queued.
OwnEvent ==
  /\ \A e \in pending : e.uid > 0
  /\ \A t \in Timers : event[t].uid < uid
  /\ \A s, t \in Timers : s # t /\ event[s].uid > 0 => event[s].uid # event[t].uid

\* A pending timer's event is at the time asked for, which has not passed.
AsAsked ==
  /\ \A e \in pending : clock <= e.time
  /\ \A t \in Timers : status[t] = "PENDING" => event[t].time = due[t]

TimerInv == IInv /\ TimerTypeOK /\ PendingIffQueued /\ OwnEvent /\ AsAsked

-------------------------------------------------------------------------------
LEMMA InitTimerInv == TimerInit => TimerInv
<1> SUFFICES ASSUME TimerInit PROVE TimerInv
  OBVIOUS
<1>p. pending = {}
  BY DEF TimerInit
<1>1. IInv
  BY InitIInv DEF TimerInit
<1>2. TimerTypeOK
  BY DEF TimerInit, TimerTypeOK
<1>3. PendingIffQueued
  BY <1>p DEF TimerInit, PendingIffQueued
<1>4. OwnEvent
  BY <1>p, <1>1 DEF TimerInit, OwnEvent, IInv, Fresh
<1>5. AsAsked
  BY <1>p DEF TimerInit, AsAsked
<1> QED
  BY <1>1, <1>2, <1>3, <1>4, <1>5 DEF TimerInv

\* Set takes the events in without out of the queue, which are t's own or none.
LEMMA SetTimerInv ==
  ASSUME NEW t \in Timers, NEW d \in Delays, NEW without, TimerInv, Set(t, d, without),
         without = IF status[t] = "PENDING" THEN {event[t]} ELSE {}
  PROVE  TimerInv'
<1> DEFINE new == [time |-> clock + d, uid |-> uid]
<1>t. d \in Nat /\ clock \in Nat /\ uid \in Nat /\ uid > 0 /\ new \in Events
  BY DEF TimerInv, IInv, TypeOK, Events, Fresh
<1>p. /\ pending' = (pending \ without) \cup {new} /\ uid' = uid + 1
      /\ cancelled' = cancelled \cup without
      /\ UNCHANGED <<clock, halted, last, handling>>
      /\ event' = [event EXCEPT ![t] = new]
      /\ status' = [status EXCEPT ![t] = "PENDING"]
      /\ due' = [due EXCEPT ![t] = clock + d]
  BY DEF Set
<1>y. TimerTypeOK /\ TypeOK /\ PendingIffQueued /\ OwnEvent /\ AsAsked
  BY DEF TimerInv, IInv
<1>w. without \subseteq pending
  BY <1>y DEF PendingIffQueued
<1>q. \A s \in Timers \ {t} : event'[s] = event[s] /\ status'[s] = status[s] /\ due'[s] = due[s]
  BY <1>p, <1>y DEF TimerTypeOK
<1>n. event'[t] = new /\ status'[t] = "PENDING" /\ due'[t] = clock + d
  BY <1>p, <1>y DEF TimerTypeOK
<1>1. IInv'
  <2>1. TypeOK'
    BY <1>t, <1>p, <1>w, <1>y DEF TypeOK
  <2>2. Before(last, new) /\ clock <= new.time
    BY <1>t DEF TimerInv, IInv, TypeOK, NotBackwards, Fresh, Before, Events
  <2>3. NotBackwards'
    BY <2>2, <1>p DEF TimerInv, IInv, NotBackwards, Before
  <2>4. Fresh'
    BY <1>t, <1>p DEF TimerInv, IInv, TypeOK, Fresh, Events
  <2> QED
    BY <2>1, <2>3, <2>4 DEF IInv
<1>2. TimerTypeOK'
  BY <1>t, <1>p, <1>y DEF TimerTypeOK
<1>3. PendingIffQueued'
  <2>1. \A s \in Timers \ {t} : event[s] # new
    BY <1>y, <1>t DEF OwnEvent, TimerTypeOK
  <2>2. \A s \in Timers \ {t} : event[s] \in pending => event[s] \notin without
    BY <1>y DEF OwnEvent, TimerTypeOK
  <2>3. \A s \in Timers \ {t} : event'[s] \in pending' <=> event[s] \in pending
    BY <2>1, <2>2, <1>p, <1>q
  <2>4. event'[t] \in pending'
    BY <1>n, <1>p
  <2>5. \A s \in Timers : (status'[s] = "PENDING") = (event'[s] \in pending')
    BY <2>3, <2>4, <1>q, <1>n, <1>y DEF PendingIffQueued
  <2>6. \A s \in Timers : event'[s].uid > 0 => event'[s] \in pending'
    BY <2>3, <2>4, <1>q, <1>n, <1>y DEF PendingIffQueued
  <2>7. pending' \subseteq {event'[s] : s \in Timers}
    <3> SUFFICES ASSUME NEW e \in pending' PROVE \E s \in Timers : e = event'[s]
      OBVIOUS
    <3>1. CASE e = new
      BY <3>1, <1>n
    <3>2. CASE e # new
      <4>1. e \in pending /\ e \notin without
        BY <3>2, <1>p
      <4>2. PICK s \in Timers : e = event[s]
        BY <4>1, <1>y DEF PendingIffQueued
      <4>3. s # t
        BY <4>1, <4>2, <1>y DEF PendingIffQueued
      <4> QED
        BY <4>2, <4>3, <1>q
    <3> QED
      BY <3>1, <3>2
  <2> QED
    BY <2>5, <2>6, <2>7 DEF PendingIffQueued
<1>4. OwnEvent'
  <2>1. \A e \in pending' : e.uid > 0
    BY <1>p, <1>t, <1>y DEF OwnEvent
  <2>2. \A s \in Timers : event'[s].uid < uid'
    BY <1>q, <1>n, <1>p, <1>t, <1>y DEF OwnEvent, TimerTypeOK
  <2>3. ASSUME NEW r \in Timers, NEW s \in Timers, r # s, event'[r].uid > 0
        PROVE  event'[r].uid # event'[s].uid
    <3>1. \A o \in Timers \ {t} : event'[o].uid = event[o].uid /\ event[o].uid # uid
      <4> TAKE o \in Timers \ {t}
      <4>1. event'[o] = event[o]
        BY <1>q
      <4>2. event[o].uid \in Int
        BY <1>y DEF TimerTypeOK
      <4>3. event[o].uid < uid
        BY <1>y DEF OwnEvent
      <4> QED
        BY <4>1, <4>2, <4>3, <1>t
    <3>2. event'[t].uid = uid
      BY <1>n
    <3> QED
      BY <2>3, <3>1, <3>2, <1>y DEF OwnEvent
  <2> QED
    BY <2>1, <2>2, <2>3 DEF OwnEvent
<1>5. AsAsked'
  <2>1. \A e \in pending' : clock' <= e.time
    BY <1>p, <1>t, <1>y DEF AsAsked
  <2>2. \A s \in Timers : status'[s] = "PENDING" => event'[s].time = due'[s]
    BY <1>q, <1>n, <1>y DEF AsAsked
  <2> QED
    BY <2>1, <2>2 DEF AsAsked
<1> QED
  BY <1>1, <1>2, <1>3, <1>4, <1>5 DEF TimerInv

\* What cancel() and the dispatch of t's event have in common: the event leaves
\* the queue, its uid_ is negated and the timer is no longer pending.
LEMMA UnqueuedTimerInv ==
  ASSUME NEW t \in Timers, TimerInv, IInv', event[t] \in pending,
         pending' = pending \ {event[t]}, uid' = uid,
         event' = [event EXCEPT ![t] = Negated(@)],
         NEW st \in {"IDLE", "HANDLING"}, status' = [status EXCEPT ![t] = st],
         handling' \in Timers \cup {None},
         due' \in [Timers -> Int], \A s \in Timers \ {t} : due'[s] = due[s],
         \A e \in pending' : clock' <= e.time
  PROVE  TimerInv'
<1>y. TimerTypeOK /\ TypeOK /\ PendingIffQueued /\ OwnEvent /\ AsAsked
  BY DEF TimerInv, IInv
<1>q. \A s \in Timers \ {t} : event'[s] = event[s] /\ status'[s] = status[s]
  BY <1>y DEF TimerTypeOK
<1>e. event[t].time \in Nat /\ event[t].uid \in Int /\ event[t].uid > 0
  BY <1>y DEF TimerTypeOK, OwnEvent
<1>n. /\ event'[t].time = event[t].time /\ event'[t].uid = -event[t].uid
      /\ event'[t] \in [time : Nat, uid : Int]
      /\ status'[t] # "PENDING"
  <2>1. event'[t] = Negated(event[t]) /\ status'[t] = st
    BY <1>y DEF TimerTypeOK
  <2>2. -event[t].uid \in Int
    BY <1>e
  <2>3. event[t] \in [time : Nat, uid : Int]
    BY <1>y DEF TimerTypeOK
  <2>4. /\ Negated(event[t]).time = event[t].time /\ Negated(event[t]).uid = -event[t].uid
        /\ Negated(event[t]) \in [time : Nat, uid : Int]
    BY <2>2, <2>3 DEF Negated
  <2> QED
    BY <2>1, <2>4
<1>m. event'[t] \notin pending'
  BY <1>n, <1>e, <1>y DEF OwnEvent
<1>2. TimerTypeOK'
  <2>1. event' \in [Timers -> [time : Nat, uid : Int]]
    BY <1>n, <1>y DEF TimerTypeOK
  <2> QED
    BY <2>1, <1>y DEF TimerTypeOK
<1>3. PendingIffQueued'
  <2>1. \A s \in Timers \ {t} : event[s] # event[t]
    BY <1>y, <1>e DEF OwnEvent
  <2>2. \A s \in Timers \ {t} : event'[s] \in pending' <=> event[s] \in pending
    BY <2>1, <1>q
  <2>3. \A s \in Timers : (status'[s] = "PENDING") = (event'[s] \in pending')
    BY <2>2, <1>q, <1>n, <1>m, <1>y DEF PendingIffQueued
  <2>4. \A s \in Timers : event'[s].uid > 0 => event'[s] \in pending'
    BY <2>2, <1>q, <1>n, <1>e, <1>y DEF PendingIffQueued
  <2>5. pending' \subseteq {event'[s] : s \in Timers}
    BY <1>q, <1>y DEF PendingIffQueued
  <2> QED
    BY <2>3, <2>4, <2>5 DEF PendingIffQueued
<1>4. OwnEvent'
  <2>1. \A s \in Timers : event'[s].uid < uid'
    BY <1>q, <1>n, <1>e, <1>y DEF OwnEvent, TypeOK
  <2>2. ASSUME NEW r \in Timers, NEW s \in Timers, r # s, event'[r].uid > 0
        PROVE  event'[r].uid # event'[s].uid
    <3>1. r # t /\ event'[r] = event[r]
      BY <2>2, <1>q, <1>n, <1>e
    <3>2. CASE s = t
      BY <2>2, <3>2, <1>n, <1>e
    <3>3. CASE s # t
      BY <2>2, <3>1, <3>3, <1>q, <1>y DEF OwnEvent
    <3> QED
      BY <3>2, <3>3
  <2> QED
    BY <2>1, <2>2, <1>y DEF OwnEvent
<1>5. AsAsked'
  BY <1>q, <1>n, <1>y DEF AsAsked
<1> QED
  BY <1>2, <1>3, <1>4, <1>5 DEF TimerInv

LEMMA CancelTimerInv ==
  ASSUME NEW t \in Timers, TimerInv, CancelTimer(t) PROVE TimerInv'
<1>1. event[t] \in pending
  BY DEF CancelTimer, TimerInv, PendingIffQueued
<1>2. IInv'
  BY <1>1, CancelIInv DEF CancelTimer, TimerInv
<1>3. /\ pending' = pending \ {event[t]} /\ uid' = uid /\ clock' = clock
      /\ event' = [event EXCEPT ![t] = Negated(@)]
      /\ status' = [status EXCEPT ![t] = "IDLE"]
      /\ due' = [due EXCEPT ![t] = -1] /\ handling' = handling
  BY DEF CancelTimer, Cancel
<1>4. handling' \in Timers \cup {None} /\ due' \in [Timers -> Int]
      /\ \A s \in Timers \ {t} : due'[s] = due[s]
  BY <1>3 DEF TimerInv, TimerTypeOK
<1>5. \A e \in pending' : clock' <= e.time
  BY <1>3 DEF TimerInv, AsAsked
<1> QED
  BY <1>1, <1>2, <1>3, <1>4, <1>5, UnqueuedTimerInv

LEMMA ExpireTimerInv ==
  ASSUME NEW t \in Timers, TimerInv, Expire(t) PROVE TimerInv'
<1>1. event[t] \in pending /\ Dispatch(event[t])
  BY DEF Expire
<1>2. IInv'
  BY <1>1, DispatchIInv DEF TimerInv
<1>3. /\ pending' = pending \ {event[t]} /\ uid' = uid
      /\ event' = [event EXCEPT ![t] = Negated(@)]
      /\ status' = [status EXCEPT ![t] = "HANDLING"]
      /\ due' = due /\ handling' = t
  BY DEF Expire, Dispatch
<1>4. due' \in [Timers -> Int]
  BY <1>3 DEF TimerInv, TimerTypeOK
<1>5. \A e \in pending' : clock' <= e.time
  <2> SUFFICES ASSUME NEW e \in pending' PROVE clock' <= e.time
    OBVIOUS
  <2>1. e \in pending /\ e \in Events /\ event[t] \in Events /\ Before(event[t], e)
    BY <1>1, <1>3 DEF Dispatch, TimerInv, IInv, TypeOK
  <2>2. clock <= e.time /\ event[t].time <= e.time
    BY <2>1 DEF TimerInv, AsAsked, Before, Events
  <2> QED
    BY <2>2, <1>1 DEF Dispatch
<1> QED
  BY <1>1, <1>2, <1>3, <1>4, <1>5, UnqueuedTimerInv

LEMMA ReturnTimerInv ==
  ASSUME NEW t \in Timers, TimerInv, Return(t) PROVE TimerInv'
<1>1. UNCHANGED <<vars, event, due>> /\ handling' = None
      /\ status' = [status EXCEPT ![t] = IF @ = "HANDLING" THEN "IDLE" ELSE @]
  BY DEF Return
<1>2. IInv'
  BY <1>1, OtherIInv DEF TimerInv
<1>3. UNCHANGED <<pending, clock, uid>>
  BY <1>1 DEF vars
<1>4. \A s \in Timers : status'[s] = "PENDING" <=> status[s] = "PENDING"
  BY <1>1 DEF TimerInv, TimerTypeOK
<1>5. TimerTypeOK'
  BY <1>1 DEF TimerInv, TimerTypeOK
<1>6. PendingIffQueued'
  BY <1>1, <1>3, <1>4 DEF TimerInv, PendingIffQueued
<1>7. OwnEvent' /\ AsAsked'
  BY <1>1, <1>3, <1>4 DEF TimerInv, OwnEvent, AsAsked
<1> QED
  BY <1>2, <1>5, <1>6, <1>7 DEF TimerInv

LEMMA NextTimerInv == TimerInv /\ [TimerNext]_allVars => TimerInv'
<1> SUFFICES ASSUME TimerInv, [TimerNext]_allVars PROVE TimerInv'
  OBVIOUS
<1>1. CASE TimerNext
  <2>1. PICK t \in Timers : \/ \E d \in Delays : Sched(t, d) \/ Resched(t, d)
                            \/ CancelTimer(t) \/ Expire(t) \/ Return(t)
    BY <1>1 DEF TimerNext
  <2>2. CASE \E d \in Delays : Sched(t, d) \/ Resched(t, d)
    BY <2>2, SetTimerInv DEF Sched, Resched
  <2> QED
    BY <2>1, <2>2, CancelTimerInv, ExpireTimerInv, ReturnTimerInv
<1>2. CASE UNCHANGED allVars
  <2>1. UNCHANGED <<vars, status, event, handling, due, pending, clock, uid>>
    BY <1>2 DEF allVars, timerVars, vars
  <2>2. IInv'
    BY <2>1, OtherIInv DEF TimerInv
  <2> QED
    BY <2>1, <2>2 DEF TimerInv, TimerTypeOK, PendingIffQueued, OwnEvent, AsAsked
<1> QED
  BY <1>1, <1>2

LEMMA TimerInvariance == TimerSpec => []TimerInv
  BY InitTimerInv, NextTimerInv, PTL DEF TimerSpec

-------------------------------------------------------------------------------
(***************************************************************************)
(* A timer is pending exactly when its own event is in the queue, and no   *)
(* other event is, however the agent sets, resets and cancels any number   *)
(* of timers, also while one of them expires: the aborts of handle() and   *)
(* Scheduler::schedule() are out of reach (timer-handler.cc:92,            *)
(* scheduler.cc:93).                                                       *)
(***************************************************************************)
THEOREM PendingTimersAreQueued == TimerSpec => []PendingIffQueued
<1>1. TimerInv => PendingIffQueued
  BY DEF TimerInv
<1> QED
  BY TimerInvariance, <1>1, PTL

(***************************************************************************)
(* A timer expires at the time the agent asked for last, whatever sched(), *)
(* resched() and cancel() came before or are called inside expire()        *)
(* (timer-handler.cc).                                                     *)
(***************************************************************************)
THEOREM TimersExpireWhenAsked == TimerSpec => ExpiresWhenAsked
<1>1. TimerInv /\ [TimerNext]_allVars
        => [\A t \in Timers : (handling # t /\ handling' = t) => clock' = due[t]]_allVars
  <2> SUFFICES ASSUME TimerInv, TimerNext, NEW t \in Timers, handling # t, handling' = t
               PROVE  clock' = due[t]
    OBVIOUS
  <2>1. Expire(t)
    BY DEF TimerNext, Sched, Resched, Set, CancelTimer, Expire, Return
  <2>2. event[t] \in pending /\ Dispatch(event[t])
    BY <2>1 DEF Expire
  <2>3. status[t] = "PENDING" /\ event[t].time = due[t]
    BY <2>2 DEF TimerInv, PendingIffQueued, AsAsked
  <2>4. event[t].time \in Nat /\ clock \in Nat /\ clock <= event[t].time
    BY <2>2 DEF TimerInv, IInv, TypeOK, TimerTypeOK, AsAsked
  <2>5. CASE RealTime
    BY <2>5, <2>2, <2>3, <2>4 DEF Dispatch
  <2>6. CASE ~RealTime
    BY <2>6, <2>2, <2>3 DEF Dispatch
  <2> QED
    BY <2>5, <2>6
<1> QED
  BY TimerInvariance, <1>1, PTL DEF TimerSpec, ExpiresWhenAsked

(***************************************************************************)
(* The clock does not run backwards under the timers either, of which a    *)
(* resched() cancels and schedules in one step (scheduler.cc:143).         *)
(***************************************************************************)
THEOREM TimersKeepTheClock == TimerSpec => [](TypeOK /\ NotBackwards)
<1>1. TimerInv => TypeOK /\ NotBackwards
  BY DEF TimerInv, IInv
<1> QED
  BY TimerInvariance, <1>1, PTL

(***************************************************************************)
(* Timers are dispatched in the order of their times, and those of one     *)
(* time in the order they were set (TimerHandler::handle,                  *)
(* Scheduler::dispatch).                                                   *)
(***************************************************************************)
THEOREM TimersDispatchInOrder == TimerSpec => InOrder
<1>1. TimerInv /\ [TimerNext]_allVars => [last' # last => Before(last, last')]_vars
  <2> SUFFICES ASSUME TimerInv, [TimerNext]_allVars, last' # last PROVE Before(last, last')
    BY DEF vars
  <2>1. PICK t \in Timers : event[t] \in pending /\ Dispatch(event[t])
    BY DEF TimerNext, Sched, Resched, Set, CancelTimer, Cancel, Expire, Return, allVars, vars
  <2> QED
    BY <2>1 DEF Dispatch, TimerInv, IInv, NotBackwards
<1> QED
  BY TimerInvariance, <1>1, PTL DEF TimerSpec, InOrder
================================================================================
