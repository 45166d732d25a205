--------------------------- MODULE CalendarScheduler ---------------------------
(***************************************************************************)
(* Scheduler/Calendar, the default, and Scheduler/RealTime: events hashed  *)
(* by time into the buckets of a calendar queue, whose number and width_   *)
(* change with the number of distinct times in it.                         *)
(*                                                                         *)
(* A bucket is the sequence of its events and count_; a width is a pair    *)
(* of a numerator and a denominator.  The widths that the dynamic          *)
(* adjustment computes from the gaps between departures and from the       *)
(* lengths of searches are any of Widths (none: adjustment is disabled).   *)
(***************************************************************************)
EXTENDS Integers, Sequences, SequencesExt, FiniteSets

CONSTANT Widths

\* CALENDAR_HASH(t) in a calendar of n buckets
Hash(t, width, n) == ((t * width[2]) \div width[1]) % n

\* CalendarScheduler::reinit
reinit(n, width, start) ==
  [buckets |-> [i \in 0 .. n - 1 |-> [list |-> <<>>, count |-> 0]],
   n |-> n, width |-> width, lastbucket |-> Hash(start, width, n),
   cal_clock |-> start, stat |-> 0]

empty == reinit(4, <<1, 1>>, 0)

contents(c) == UNION {ToSet(c.buckets[i].list) : i \in 0 .. c.n - 1}

\* next_ and prev_ of the k-th event: a bucket's list is circular.
next(list, k) == list[IF k = Len(list) THEN 1 ELSE k + 1]
prev(list, k) == list[IF k = 1 THEN Len(list) ELSE k - 1]

\* Event e joins bucket i at position k, and counts if its timing is unique.
Join(c, i, k, e, unique) ==
  LET new == IF unique THEN 1 ELSE 0
  IN [c EXCEPT !.buckets[i].list = InsertAt(@, k, e),
               !.buckets[i].count = @ + new, !.stat = @ + new]

\* The event at position k of bucket i leaves, and is counted off if unique.
Leave(c, i, k, unique) ==
  LET gone == IF unique THEN 1 ELSE 0
  IN [c EXCEPT !.buckets[i].list = RemoveAt(@, k),
               !.buckets[i].count = @ - gone, !.stat = @ - gone]

\* Mutant: events of one time are kept in the order insert2 gets them.
insert2Last(c, e) ==
  LET i == Hash(e.time, c.width, c.n)
      list == c.buckets[i].list
      k == CHOOSE j \in 1 .. Len(list) + 1 :
             /\ \A m \in 1 .. j - 1 : list[m].time <= e.time
             /\ j <= Len(list) => list[j].time > e.time
  IN Join(c, i, k, e, list = <<>> \/ k = 1 \/ list[k - 1].time < e.time)

\* CalendarScheduler::insert2: before the events of the same time, so that
\* the event after it, the head after the tail, tells whether its time is new
insert2(c, e) ==
  LET i == Hash(e.time, c.width, c.n)
      list == c.buckets[i].list
      k == CHOOSE j \in 1 .. Len(list) + 1 :
             /\ \A m \in 1 .. j - 1 : list[m].time < e.time
             /\ j <= Len(list) => list[j].time >= e.time
  IN Join(c, i, k, e, list = <<>> \/ next(InsertAt(list, k, e), k).time # e.time)

\* The width that the fullest bucket's times give (CalendarScheduler::newwidth)
SampleWidth(c, newsize) ==
  LET fullest == CHOOSE i \in 0 .. c.n - 1 :
        \A j \in 0 .. c.n - 1 :
          /\ c.buckets[j].count <= c.buckets[i].count
          /\ c.buckets[j].count = c.buckets[i].count => i <= j
      nsamples == c.buckets[fullest].count
      list == c.buckets[fullest].list
      over == IF newsize < nsamples THEN newsize ELSE nsamples
  IN IF nsamples <= 4 THEN c.width
     ELSE <<4 * (Last(list).time - list[1].time), over>>

\* resize: the events go to the new calendar bucket by bucket, each from its end.
Rebuilt(c, n, width, start) ==
  FoldLeft(LAMBDA new, i : FoldLeft(insert2, new, Reverse(c.buckets[i].list)),
           [reinit(n, width, start) EXCEPT !.cal_clock = c.cal_clock],
           [i \in 1 .. c.n |-> i - 1])

\* CalendarScheduler::resize when the size changes, and newwidth
resize(c, newsize, start) ==
  {Rebuilt(c, IF newsize < 4 THEN 4 ELSE newsize, w, start) :
     w \in Widths \cup {SampleWidth(c, newsize)}}

\* CalendarScheduler::insert: after the events of the same time, so that the
\* event before it tells whether its time is new
insert(c0, e) ==
  LET c == IF c0.cal_clock > e.time
             THEN [c0 EXCEPT !.cal_clock = e.time, !.lastbucket = Hash(e.time, c0.width, c0.n)]
             ELSE c0
      i == Hash(e.time, c.width, c.n)
      list == c.buckets[i].list
      k == CHOOSE j \in 1 .. Len(list) + 1 :
             /\ \A m \in 1 .. j - 1 : list[m].time <= e.time
             /\ j <= Len(list) => list[j].time > e.time
      joined == Join(c, i, k, e, list = <<>> \/ k = 1 \/ list[k - 1].time < e.time)
  IN IF joined.stat > 2 * c.n THEN resize(joined, 2 * c.n, joined.cal_clock) ELSE {joined}

\* CalendarScheduler::head.  Within(c, k): is the first event of the k-th
\* bucket from lastbucket_ on within this year?
Bucket(c, k) == c.buckets[(c.lastbucket + k) % c.n].list

\* Mutant: the bucket after lastbucket_ is searched a whole year, too.
WithinYear(c, k) ==
  /\ Bucket(c, k) # <<>>
  /\ (Bucket(c, k)[1].time - c.cal_clock) * c.width[2] < c.width[1] * c.n

Within(c, k) ==
  /\ Bucket(c, k) # <<>>
  /\ LET diff == (Bucket(c, k)[1].time - c.cal_clock) * c.width[2]
     IN CASE k = 0 -> 2 * diff < c.width[1] * c.n                      \* diff0_
          [] k = 1 -> 2 * diff < c.width[1] * c.n + 2 * c.width[1]     \* diff1_
          [] OTHER -> diff < c.width[1] * c.n                          \* diff2_

\* The bucket found: the first within this year, of all but the last one, or
\* else the one of the least time
FoundBucket(c) ==
  LET K == {k \in 0 .. c.n - 1 : Bucket(c, k) # <<>>}
      W == {k \in 0 .. c.n - 2 : Within(c, k)}
      Least == {k \in K : \A j \in K : Bucket(c, k)[1].time <= Bucket(c, j)[1].time}
  IN IF W # {} THEN CHOOSE k \in W : \A j \in W : k <= j
     ELSE CHOOSE k \in Least : TRUE

head(c) ==
  IF contents(c) = {} THEN {c}
  ELSE {[c EXCEPT !.lastbucket = (c.lastbucket + FoundBucket(c)) % c.n,
                  !.cal_clock = Bucket(c, FoundBucket(c))[1].time]}

\* CalendarScheduler::deque: the width may be adjusted between finding the
\* event and unlinking it, with lastbucket_ read after that.  The event is the
\* head of its bucket, and only next_ is compared with it.
deque(c) ==
  UNION {LET found == h.buckets[h.lastbucket].list[1]
             adjusted == {h} \cup {Rebuilt(h, h.n, w, h.cal_clock) : w \in Widths}
             Unlinked(a) ==
               LET list == a.buckets[a.lastbucket].list
               IN Leave(a, a.lastbucket, 1,
                        Len(list) = 1 \/ next(list, 1).time # list[1].time)
             left == {Unlinked(a) : a \in adjusted}
         IN {[event |-> found, rest |-> x] :
               x \in UNION {IF a.stat < (a.n \div 2) - 2
                              THEN resize(a, a.n \div 2, a.cal_clock) ELSE {a} : a \in left}}
         : h \in head(c)}

\* Mutant: cancel compares next_ only, as deque does.
cancelNextOnly(c, e) ==
  LET i == Hash(e.time, c.width, c.n)
      list == c.buckets[i].list
      k == CHOOSE j \in DOMAIN list : list[j] = e
  IN {Leave(c, i, k, Len(list) = 1 \/ next(list, k).time # e.time)}

\* CalendarScheduler::cancel: an event from the middle of its bucket
cancel(c, e) ==
  LET i == Hash(e.time, c.width, c.n)
      list == c.buckets[i].list
      k == CHOOSE j \in DOMAIN list : list[j] = e
  IN {Leave(c, i, k,
            Len(list) = 1 \/ (next(list, k).time # e.time /\ prev(list, k).time # e.time))}
================================================================================
