---------------------------- MODULE SplayScheduler ----------------------------
(***************************************************************************)
(* Scheduler/Splay: the events in a splay tree (common/splay-scheduler.cc).*)
(* A tree is Nil or a record of an event and two trees; the loops that     *)
(* hang nodes on the bottom of a left and a right tree are recursion here. *)
(***************************************************************************)
EXTENDS Naturals, Sequences

Nil == <<>>

empty == Nil

Node(l, e, r) == [left |-> l, event |-> e, right |-> r]

RotateRight(t) == Node(t.left.left, t.left.event, Node(t.left.right, t.event, t.right))

RotateLeft(t) == Node(Node(t.left, t.event, t.right.left), t.right.event, t.right.right)

\* The loop of SplayScheduler::insert: the trees of the events that time is
\* not before, and of those it is before
RECURSIVE Split(_, _)
Split(t, time) ==
  IF t = Nil THEN [left |-> Nil, right |-> Nil]
  ELSE IF time < t.event.time
    THEN IF t.left = Nil THEN [left |-> Nil, right |-> t]
         ELSE LET u == IF time < t.left.event.time THEN RotateRight(t) ELSE t
                  s == Split(u.left, time)
              IN [left |-> s.left, right |-> [u EXCEPT !.left = s.right]]
    ELSE IF t.right = Nil THEN [left |-> t, right |-> Nil]
         ELSE LET u == IF time >= t.right.event.time THEN RotateLeft(t) ELSE t
                  s == Split(u.right, time)
              IN [left |-> [u EXCEPT !.right = s.left], right |-> s.right]

insert(t, e) == LET s == Split(t, e.time) IN {Node(s.left, e, s.right)}

\* The loop of SplayScheduler::deque, from a node with a left child: pairs of
\* left links are rotated on the way to the first event.
RECURSIVE First(_)
First(t) ==
  LET l == t.left
      ll == l.left
  IN IF ll = Nil THEN [event |-> l.event, rest |-> [t EXCEPT !.left = l.right]]
     ELSE IF ll.left = Nil
       THEN [event |-> ll.event, rest |-> [t EXCEPT !.left.left = ll.right]]
     ELSE LET s == First(RotateRight(l))
          IN [event |-> s.event, rest |-> [t EXCEPT !.left = s.rest]]

deque(t) ==
  IF t.left = Nil THEN {[event |-> t.event, rest |-> t.right]} ELSE {First(t)}

\* Mutant: the search for an event to cancel goes by its time only.
GoesRightByTime(e, f) == e.time > f.time

\* Where SplayScheduler::cancel goes on with its search for e
GoesRight(e, f) == e.time > f.time \/ (e.time = f.time /\ e.uid > f.uid)

RECURSIVE Found(_, _)
Found(t, e) ==
  /\ t # Nil
  /\ t.event = e \/ Found(IF GoesRight(e, t.event) THEN t.right ELSE t.left, e)

\* The leftmost event of a tree, and the tree without it
RECURSIVE Successor(_)
Successor(t) ==
  IF t.left = Nil THEN [event |-> t.event, rest |-> t.right]
  ELSE LET s == Successor(t.left)
       IN [event |-> s.event, rest |-> [t EXCEPT !.left = s.rest]]

\* A node taken out is replaced by its successor.
RemoveRoot(t) ==
  IF t.right = Nil THEN t.left
  ELSE IF t.left = Nil THEN t.right
  ELSE LET s == Successor(t.right) IN Node(t.left, s.event, s.rest)

RECURSIVE Without(_, _)
Without(t, e) ==
  IF t.event = e THEN RemoveRoot(t)
  ELSE IF GoesRight(e, t.event) THEN [t EXCEPT !.right = Without(@, e)]
  ELSE [t EXCEPT !.left = Without(@, e)]

\* SplayScheduler::cancel, which aborts when its search fails
cancel(t, e) == IF Found(t, e) THEN {Without(t, e)} ELSE {}

RECURSIVE contents(_)
contents(t) ==
  IF t = Nil THEN {} ELSE {t.event} \cup contents(t.left) \cup contents(t.right)
================================================================================
