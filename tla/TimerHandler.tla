----------------------------- MODULE TimerHandler -----------------------------
(***************************************************************************)
(* TimerHandler on the event queue: a timer owns one Event, and is idle,   *)
(* pending, or handling its expiry, during which the agent may set or      *)
(* cancel this and other timers (common/timer-handler.{h,cc}).             *)
(***************************************************************************)
EXTENDS EventQueue, Integers, FiniteSets

CONSTANTS Timers, None

ASSUME TimerAssumption == None \notin Timers

VARIABLES
  status,     \* status_
  event,      \* event_, whose uid is positive while it is in the queue
  handling,   \* the timer in whose expire() the program is, or None
  due         \* history: when the agent last asked the timer to expire, or -1

timerVars == <<status, event, handling, due>>

\* The queue holds the timers' events only.
TimerInit ==
  /\ Init /\ pending = {}
  /\ status = [t \in Timers |-> "IDLE"]
  /\ event = [t \in Timers |-> [time |-> 0, uid |-> 0]]
  /\ handling = None
  /\ due = [t \in Timers |-> -1]

Negated(e) == [e EXCEPT !.uid = -@]

\* Mutant: the delay is taken off the clock.
SetEarlier(t, d, without) ==
  LET e == [time |-> clock - d, uid |-> uid]
  IN /\ uid <= MaxEvents
     /\ pending' = (pending \ without) \cup {e}
     /\ cancelled' = cancelled \cup without
     /\ uid' = uid + 1
     /\ event' = [event EXCEPT ![t] = e]
     /\ status' = [status EXCEPT ![t] = "PENDING"]
     /\ due' = [due EXCEPT ![t] = clock + d]
     /\ UNCHANGED <<clock, halted, last, handling>>

\* Mutant: the time is the delay itself.
SetAbsolute(t, d, without) ==
  LET e == [time |-> d, uid |-> uid]
  IN /\ uid <= MaxEvents
     /\ pending' = (pending \ without) \cup {e}
     /\ cancelled' = cancelled \cup without
     /\ uid' = uid + 1
     /\ event' = [event EXCEPT ![t] = e]
     /\ status' = [status EXCEPT ![t] = "PENDING"]
     /\ due' = [due EXCEPT ![t] = clock + d]
     /\ UNCHANGED <<clock, halted, last, handling>>

\* Scheduler::schedule of the timer's event, which aborts if the event is in
\* the queue
Set(t, d, without) ==
  LET e == [time |-> clock + d, uid |-> uid]
  IN /\ uid <= MaxEvents
     /\ pending' = (pending \ without) \cup {e}
     /\ cancelled' = cancelled \cup without
     /\ uid' = uid + 1
     /\ event' = [event EXCEPT ![t] = e]
     /\ status' = [status EXCEPT ![t] = "PENDING"]
     /\ due' = [due EXCEPT ![t] = clock + d]
     /\ UNCHANGED <<clock, halted, last, handling>>

\* sched(), which aborts unless the timer is idle
Sched(t, d) == status[t] = "IDLE" /\ Set(t, d, {})

\* Mutant: a pending timer is not cancelled first.
ReschedTwice(t, d) == Set(t, d, {})

\* Mutant: a pending timer keeps its time.
ReschedKeeps(t, d) ==
  IF status[t] = "PENDING"
    THEN due' = [due EXCEPT ![t] = clock + d] /\ UNCHANGED <<vars, status, event, handling>>
    ELSE Set(t, d, {})

Resched(t, d) == Set(t, d, IF status[t] = "PENDING" THEN {event[t]} ELSE {})

\* cancel(), which aborts unless the timer is pending, and force_cancel()
CancelTimer(t) ==
  /\ status[t] = "PENDING"
  /\ Cancel(event[t])
  /\ event' = [event EXCEPT ![t] = Negated(@)]
  /\ status' = [status EXCEPT ![t] = "IDLE"]
  /\ due' = [due EXCEPT ![t] = -1]
  /\ UNCHANGED handling

\* Scheduler::dispatch and TimerHandler::handle up to expire()
Expire(t) ==
  /\ handling = None
  /\ event[t] \in pending /\ Dispatch(event[t])
  /\ event' = [event EXCEPT ![t] = Negated(@)]
  /\ status' = [status EXCEPT ![t] = "HANDLING"]
  /\ handling' = t
  /\ UNCHANGED due

\* Mutant: the timer is idle after expire(), though it was set again there.
ReturnIdle(t) ==
  /\ handling = t /\ handling' = None
  /\ status' = [status EXCEPT ![t] = "IDLE"]
  /\ UNCHANGED <<vars, event, due>>

\* expire() returns.
Return(t) ==
  /\ handling = t /\ handling' = None
  /\ status' = [status EXCEPT ![t] = IF @ = "HANDLING" THEN "IDLE" ELSE @]
  /\ UNCHANGED <<vars, event, due>>

TimerNext ==
  \E t \in Timers :
    \/ \E d \in Delays : Sched(t, d) \/ Resched(t, d)
    \/ CancelTimer(t) \/ Expire(t) \/ Return(t)

allVars == <<vars, timerVars>>

TimerSpec == TimerInit /\ [][TimerNext]_allVars

\* Events are dispatched as long as there are any, and expire() returns.
FairTimerSpec ==
  TimerSpec /\ \A t \in Timers : WF_allVars(Expire(t)) /\ WF_allVars(Return(t))

-------------------------------------------------------------------------------
(***************************************************************************)
(* The aborts of handle() and Scheduler::schedule() are out of reach: a    *)
(* timer is pending exactly when its event is in the queue, and nothing    *)
(* else is in it, however the agent sets and cancels timers, inside an     *)
(* expiry too (timer-handler.cc:92, scheduler.cc:93).                      *)
(***************************************************************************)
PendingIffQueued ==
  /\ \A t \in Timers : (status[t] = "PENDING") = (event[t] \in pending)
  /\ \A t \in Timers : event[t].uid > 0 => event[t] \in pending
  /\ pending \subseteq {event[t] : t \in Timers}

(***************************************************************************)
(* A timer expires when the agent last asked it to, and not at a time it   *)
(* was set to before (timer-handler.cc, resched).                          *)
(***************************************************************************)
ExpiresWhenAsked == [][\A t \in Timers : (handling # t /\ handling' = t) => clock' = due[t]]_allVars

(***************************************************************************)
(* A pending timer expires, unless the agent cancels it or sets it again.  *)
(***************************************************************************)
PendingExpires ==
  \A t \in Timers : \A k \in 0 .. MaxEvents :
    (status[t] = "PENDING" /\ event[t].uid = k) ~> (event[t].uid # k)
================================================================================
