------------------------------ MODULE LinkProofs ------------------------------
(***************************************************************************)
(* The layers below the agents, for any number of nodes and packets, any   *)
(* length and kind of queue, and any number of losses and resets: they     *)
(* implement LossyFifo, and nothing is stranded in them.                   *)
(***************************************************************************)
EXTENDS LinkLayer, FiniteSetTheorems, SequenceTheorems, TLAPS

-------------------------------------------------------------------------------
(* The inductive invariant *)

\* Two packets of one node that some channel has in common
Clash(rfid, x, y) ==
  /\ x.type = "IP" /\ y.type = "IP"
  /\ x.dst = y.dst \/ (rfid /\ Everyone \in {x.dst, y.dst})

Precedes(rfid, x, y) == Clash(rfid, x, y) => x.seq < y.seq

Sorted(rfid, q) ==
  \A i, j \in 1 .. Len(q) : i < j => Precedes(rfid, q[i], q[j])

SortedSched(rfid, sd) ==
  \A i, j \in 1 .. Len(sd) : i < j => Precedes(rfid, sd[i].pkt, sd[j].pkt)

SchedEntry == [pkt : Packets, byArp : BOOLEAN]
ArpEntry == [up : BOOLEAN, hold : Packets \cup {None}, count : Nat]

Pkts(sd) == {e.pkt : e \in ToSet(sd)}

\* The way of the packets of a node n that has sent k packets: sd is its sched,
\* q its ifq, R[m] what is under way to m and A its ARP table.
FlowTypes(k, sd, q, R, A) ==
  /\ k \in Nat /\ sd \in Seq(SchedEntry) /\ q \in Seq(Packets)
  /\ R \in [Nodes -> Seq(Packets)] /\ A \in [Nodes -> ArpEntry]

Shape(n, k, p) ==
  /\ p \in Packets /\ p.src = n /\ p.dst # n
  /\ p.type = "IP" => p.seq <= k
  /\ p.type = "REQ" => p.dst = Everyone
  /\ p.type = "REP" => p.dst \in Nodes

Shapes(n, k, sd, q, R, A) ==
  /\ \A p \in ToSet(q) \cup Pkts(sd) : Shape(n, k, p) /\ ~p.error
  /\ \A m \in Nodes : \A p \in ToSet(R[m]) : Shape(n, k, p) /\ p.dst \in {m, Everyone}
  /\ \A d \in Nodes :
       A[d].hold # None => /\ Shape(n, k, A[d].hold) /\ ~A[d].hold.error
                           /\ A[d].hold.type = "IP" /\ A[d].hold.dst = d

\* No packet leaves for a node whose address is not known, and none is held
\* for one whose address is.
Resolved(sd, q, R, A) ==
  \A d \in Nodes :
    /\ ~A[d].up => \A p \in ToSet(q) \cup Pkts(sd) \cup ToSet(R[d]) : p.type = "IP" => p.dst # d
    /\ A[d].up => A[d].hold = None

\* The packets of a channel are in order along the way.
Ordered(rfid, sd, q, R) ==
  /\ Sorted(rfid, q) /\ SortedSched(rfid, sd)
  /\ \A x \in ToSet(q), y \in Pkts(sd) : Precedes(rfid, x, y)
  /\ \A m \in Nodes :
       /\ Sorted(rfid, R[m])
       /\ \A x \in ToSet(R[m]), y \in ToSet(q) \cup Pkts(sd) : Precedes(rfid, x, y)

\* With RFID traffic tags send to the reader only, and the reader never asks
\* for an address.
RfidFlow(n, sd, q, R, A) ==
  \A d \in Nodes :
    /\ n # Reader =>
         /\ \A p \in ToSet(q) \cup Pkts(sd) \cup ToSet(R[d]) : p.type = "IP" => p.dst = Reader
         /\ d # Reader => A[d].hold = None
    /\ n = Reader =>
         /\ A[d].hold = None
         /\ \A p \in ToSet(q) \cup Pkts(sd) \cup ToSet(R[d]) :
              p.type # "REQ" /\ (p.type = "REP" /\ p.dst = d => A[d].up)

Flow(n, rfid, k, sd, q, R, A) ==
  /\ FlowTypes(k, sd, q, R, A)
  /\ Shapes(n, k, sd, q, R, A)
  /\ Resolved(sd, q, R, A)
  /\ Ordered(rfid, sd, q, R)
  /\ rfid => RfidFlow(n, sd, q, R, A)

Rx(n) == [m \in Nodes |-> rx[m][n]]

Flows ==
  \A n \in Nodes : Flow(n, setup.rfid, seqno[n], sched[n], ifq[n], Rx(n), arp[n])

\* A tag that has got a packet through to the reader has asked for its address
\* before, so that the reader knows the tag's.
ReaderKnows ==
  setup.rfid =>
    \A d \in Nodes \ {Reader} :
      /\ arp[d][Reader].up => arp[Reader][d].up
      /\ got[<<d, Reader, "RFID">>] > 0 => arp[Reader][d].up

Numbered == \A c \in Channels : sent[c] <= seqno[c[1]]

LinkInv == TypeOK /\ Flows /\ ReaderKnows /\ Numbered /\ NothingStranded /\ HeldAwaitsArp

-------------------------------------------------------------------------------
(* Sequences *)

LEMMA SetOfSeq ==
  ASSUME NEW S, NEW q \in Seq(S)
  PROVE  /\ ToSet(q) = {q[i] : i \in 1 .. Len(q)} /\ ToSet(q) \subseteq S /\ Len(q) \in Nat
         /\ q = <<>> <=> Len(q) = 0
         /\ q = <<>> => ToSet(q) = {}
  BY DEF ToSet

LEMMA SetOfAppend ==
  ASSUME NEW S, NEW q \in Seq(S), NEW x \in S
  PROVE  /\ Append(q, x) \in Seq(S) /\ Append(q, x) # <<>>
         /\ ToSet(Append(q, x)) = ToSet(q) \cup {x}
<1>1. /\ Append(q, x) \in Seq(S) /\ Append(q, x) # <<>> /\ Len(Append(q, x)) = Len(q) + 1
      /\ \A i \in 1 .. Len(q) : Append(q, x)[i] = q[i]
      /\ Append(q, x)[Len(q) + 1] = x
  BY AppendProperties
<1>2. ToSet(Append(q, x)) = {Append(q, x)[i] : i \in 1 .. Len(q) + 1}
  BY <1>1, SetOfSeq
<1>3. ToSet(q) = {q[i] : i \in 1 .. Len(q)} /\ Len(q) \in Nat
  BY SetOfSeq
<1> QED
  BY <1>1, <1>2, <1>3

LEMMA SetOfTail ==
  ASSUME NEW S, NEW q \in Seq(S), q # <<>>
  PROVE  /\ Tail(q) \in Seq(S) /\ Head(q) \in S /\ Head(q) = q[1] /\ Len(q) > 0
         /\ Len(Tail(q)) = Len(q) - 1 /\ \A i \in 1 .. Len(q) - 1 : Tail(q)[i] = q[i + 1]
         /\ ToSet(q) = {Head(q)} \cup ToSet(Tail(q))
<1>1. /\ Tail(q) \in Seq(S) /\ Head(q) \in S /\ Head(q) = q[1]
      /\ Len(Tail(q)) = Len(q) - 1 /\ Len(q) \in Nat /\ Len(q) > 0
      /\ \A i \in 1 .. Len(q) - 1 : Tail(q)[i] = q[i + 1]
  OBVIOUS
<1>2. /\ ToSet(Tail(q)) = {Tail(q)[i] : i \in 1 .. Len(q) - 1}
      /\ ToSet(q) = {q[i] : i \in 1 .. Len(q)}
  <2>1. DOMAIN Tail(q) = 1 .. Len(q) - 1 /\ DOMAIN q = 1 .. Len(q)
    BY <1>1
  <2> QED
    BY <2>1 DEF ToSet
<1>3. ToSet(q) \subseteq {Head(q)} \cup ToSet(Tail(q))
  <2> SUFFICES ASSUME NEW i \in 1 .. Len(q) PROVE q[i] \in {Head(q)} \cup ToSet(Tail(q))
    BY <1>2
  <2>1. CASE i = 1
    BY <2>1, <1>1
  <2>2. CASE i > 1
    <3>1. i - 1 \in 1 .. Len(q) - 1 /\ Tail(q)[i - 1] = q[i]
      BY <2>2, <1>1
    <3> QED
      BY <3>1, <1>2
  <2> QED
    BY <2>1, <2>2
<1>4. {Head(q)} \cup ToSet(Tail(q)) \subseteq ToSet(q)
  BY <1>1, <1>2
<1> QED
  BY <1>1, <1>3, <1>4

LEMMA SetOfConcat ==
  ASSUME NEW S, NEW q \in Seq(S), NEW r \in Seq(S)
  PROVE  q \o r \in Seq(S) /\ ToSet(q \o r) = ToSet(q) \cup ToSet(r)
<1>1. q \o r \in Seq(S)
  BY ConcatProperties
<1>2. ToSet(q \o r) = Range(q \o r) /\ ToSet(q) = Range(q) /\ ToSet(r) = Range(r)
  BY DEF ToSet, Range
<1> QED
  BY <1>1, <1>2, RangeConcatenation

\* q with r put in after the i-th element
Insert(q, r, i) == SubSeq(q, 1, i) \o r \o SubSeq(q, i + 1, Len(q))

LEMMA Insertion ==
  ASSUME NEW S, NEW q \in Seq(S), NEW r \in Seq(S), NEW i \in 0 .. Len(q), NEW s,
         s = Insert(q, r, i)
  PROVE  /\ s \in Seq(S) /\ ToSet(s) = ToSet(q) \cup ToSet(r)
         /\ Len(s) = Len(q) + Len(r)
         /\ \A j \in 1 .. Len(s) :
              s[j] = IF j <= i THEN q[j] ELSE IF j <= i + Len(r) THEN r[j - i] ELSE q[j - Len(r)]
<1> DEFINE a == SubSeq(q, 1, i)
           b == SubSeq(q, i + 1, Len(q))
<1>n. Len(q) \in Nat /\ Len(r) \in Nat /\ i \in Nat /\ i <= Len(q)
  OBVIOUS
<1>q. \A j \in 1 .. Len(q) : q[j] \in S
  OBVIOUS
<1>a. a \in Seq(S) /\ Len(a) = i /\ \A j \in 1 .. i : a[j] = q[j]
  <2>1. \A j \in 1 .. i : q[j] \in S
    BY <1>n, <1>q
  <2>2. /\ a \in Seq(S) /\ Len(a) = IF 1 <= i THEN i - 1 + 1 ELSE 0
        /\ \A j \in 1 .. i - 1 + 1 : a[j] = q[1 + j - 1]
    BY <2>1, <1>n, SubSeqProperties
  <2> QED
    BY <2>2, <1>n
<1>b. b \in Seq(S) /\ Len(b) = Len(q) - i /\ \A j \in 1 .. Len(q) - i : b[j] = q[i + j]
  <2>1. \A j \in i + 1 .. Len(q) : q[j] \in S
    BY <1>n, <1>q
  <2>2. /\ b \in Seq(S) /\ Len(b) = IF i + 1 <= Len(q) THEN Len(q) - (i + 1) + 1 ELSE 0
        /\ \A j \in 1 .. Len(q) - (i + 1) + 1 : b[j] = q[i + 1 + j - 1]
    BY <2>1, <1>n, SubSeqProperties
  <2> QED
    BY <2>2, <1>n
<1> HIDE DEF a, b
<1>1. /\ a \o r \in Seq(S) /\ Len(a \o r) = i + Len(r)
      /\ \A j \in 1 .. i + Len(r) : (a \o r)[j] = IF j <= i THEN q[j] ELSE r[j - i]
  <2>1. /\ a \o r \in Seq(S) /\ Len(a \o r) = Len(a) + Len(r)
        /\ \A j \in 1 .. Len(a) + Len(r) : (a \o r)[j] = IF j <= Len(a) THEN a[j] ELSE r[j - Len(a)]
    BY <1>a, ConcatProperties
  <2> QED
    BY <2>1, <1>a, <1>n
<1> DEFINE ar == a \o r
<1>s. s = ar \o b
  BY DEF a, b, Insert
<1> HIDE DEF ar
<1>m. i + Len(r) + (Len(q) - i) = Len(q) + Len(r)
  BY <1>n
<1>2. /\ s \in Seq(S) /\ Len(s) = Len(q) + Len(r)
      /\ \A j \in 1 .. Len(q) + Len(r) :
           s[j] = IF j <= i + Len(r) THEN ar[j] ELSE b[j - (i + Len(r))]
  <2>1. ar \in Seq(S) /\ Len(ar) = i + Len(r)
    BY <1>1 DEF ar
  <2>2. /\ ar \o b \in Seq(S) /\ Len(ar \o b) = Len(ar) + Len(b)
        /\ \A j \in 1 .. Len(ar) + Len(b) :
             (ar \o b)[j] = IF j <= Len(ar) THEN ar[j] ELSE b[j - Len(ar)]
    BY <2>1, <1>b, ConcatProperties
  <2>3. Len(ar) + Len(b) = Len(q) + Len(r)
    BY <2>1, <1>b, <1>m
  <2> QED
    BY <2>1, <2>2, <2>3, <1>s
<1>4. ASSUME NEW j \in 1 .. Len(s)
      PROVE  s[j] = IF j <= i THEN q[j] ELSE IF j <= i + Len(r) THEN r[j - i] ELSE q[j - Len(r)]
  <2>0. j \in 1 .. Len(q) + Len(r) /\ j \in Nat /\ j >= 1
    <3>1. Len(s) = Len(q) + Len(r)
      BY <1>2
    <3>2. j \in 1 .. Len(q) + Len(r)
      BY <3>1
    <3> QED
      BY <3>2, <1>n
  <2>1. CASE j <= i + Len(r)
    <3>0. s[j] = ar[j]
      BY <2>0, <2>1, <1>2
    <3>1. j \in 1 .. i + Len(r)
      BY <2>0, <2>1, <1>n
    <3>2. ar[j] = IF j <= i THEN q[j] ELSE r[j - i]
      BY <3>1, <1>1 DEF ar
    <3>3. CASE j <= i
      BY <3>3, <3>0, <3>2
    <3>4. CASE ~(j <= i)
      BY <3>4, <3>0, <3>2, <2>1
    <3> QED
      BY <3>3, <3>4
  <2>2. CASE ~(j <= i + Len(r))
    <3>0. s[j] = b[j - (i + Len(r))]
      BY <2>0, <2>2, <1>2
    <3>1. j - (i + Len(r)) \in 1 .. Len(q) - i
      BY <2>0, <2>2, <1>n
    <3>2. s[j] = q[i + (j - (i + Len(r)))]
      BY <3>0, <3>1, <1>b
    <3>3. i + (j - (i + Len(r))) = j - Len(r) /\ ~(j <= i)
      BY <2>0, <2>2, <1>n
    <3> QED
      BY <3>2, <3>3, <2>2
  <2> QED
    BY <2>1, <2>2
<1>5. ToSet(s) = ToSet(q) \cup ToSet(r)
  <2>0. ToSet(a \o r) = ToSet(a) \cup ToSet(r)
    BY <1>a, SetOfConcat
  <2>1. ToSet(s) = ToSet(ar) \cup ToSet(b) /\ ToSet(ar) = ToSet(a) \cup ToSet(r)
    <3>1. ar \in Seq(S)
      BY <1>1 DEF ar
    <3>2. ToSet(ar \o b) = ToSet(ar) \cup ToSet(b)
      BY <3>1, <1>b, SetOfConcat
    <3> QED
      BY <3>2, <2>0, <1>s DEF ar
  <2>2. /\ ToSet(a) = {q[j] : j \in 1 .. i}
        /\ ToSet(b) = {q[i + j] : j \in 1 .. Len(q) - i}
        /\ ToSet(q) = {q[j] : j \in 1 .. Len(q)}
    <3>1. DOMAIN a = 1 .. i /\ DOMAIN b = 1 .. Len(q) - i /\ DOMAIN q = 1 .. Len(q)
      BY <1>a, <1>b
    <3>2. \A j \in 1 .. Len(q) - i : b[j] = q[i + j]
      BY <1>b
    <3>3. ToSet(a) = {a[j] : j \in 1 .. i} /\ ToSet(b) = {b[j] : j \in 1 .. Len(q) - i}
      BY <3>1 DEF ToSet
    <3>4. {b[j] : j \in 1 .. Len(q) - i} = {q[i + j] : j \in 1 .. Len(q) - i}
      BY <3>2
    <3>5. {a[j] : j \in 1 .. i} = {q[j] : j \in 1 .. i}
      BY <1>a
    <3> QED
      BY <3>1, <3>3, <3>4, <3>5 DEF ToSet
  <2>3. ToSet(q) \subseteq ToSet(a) \cup ToSet(b)
    <3> SUFFICES ASSUME NEW j \in 1 .. Len(q) PROVE q[j] \in ToSet(a) \cup ToSet(b)
      BY <2>2
    <3>1. CASE j <= i
      BY <3>1, <2>2, <1>n
    <3>2. CASE j > i
      <4>1. j - i \in 1 .. Len(q) - i /\ i + (j - i) = j
        BY <3>2, <1>n
      <4> QED
        BY <4>1, <2>2
    <3> QED
      BY <3>1, <3>2, <1>n
  <2>4. ToSet(a) \cup ToSet(b) \subseteq ToSet(q)
    <3>1. \A j \in 1 .. i : j \in 1 .. Len(q)
      BY <1>n
    <3>2. \A j \in 1 .. Len(q) - i : i + j \in 1 .. Len(q)
      BY <1>n
    <3> QED
      BY <2>2, <3>1, <3>2
  <2> QED
    BY <2>1, <2>3, <2>4
<1> QED
  BY <1>2, <1>4, <1>5

LEMMA SortedAppend ==
  ASSUME NEW S, NEW rfid, NEW q \in Seq(S), NEW x \in S, Sorted(rfid, q),
         \A y \in ToSet(q) : Precedes(rfid, y, x)
  PROVE  Sorted(rfid, Append(q, x))
<1>1. /\ Len(Append(q, x)) = Len(q) + 1 /\ Len(q) \in Nat
      /\ \A i \in 1 .. Len(q) : Append(q, x)[i] = q[i] /\ q[i] \in ToSet(q)
      /\ Append(q, x)[Len(q) + 1] = x
  BY SetOfSeq, AppendProperties
<1> SUFFICES ASSUME NEW i \in 1 .. Len(q) + 1, NEW j \in 1 .. Len(q) + 1, i < j
             PROVE  Precedes(rfid, Append(q, x)[i], Append(q, x)[j])
  BY <1>1 DEF Sorted
<1>2. i \in 1 .. Len(q) /\ (j \in 1 .. Len(q) \/ j = Len(q) + 1)
  BY <1>1
<1> QED
  BY <1>1, <1>2 DEF Sorted

LEMMA SortedTail ==
  ASSUME NEW S, NEW rfid, NEW q \in Seq(S), q # <<>>, Sorted(rfid, q)
  PROVE  /\ Sorted(rfid, Tail(q))
         /\ \A y \in ToSet(Tail(q)) : Precedes(rfid, Head(q), y)
<1>1. /\ Len(Tail(q)) = Len(q) - 1 /\ Len(q) \in Nat /\ Head(q) = q[1] /\ Len(q) > 0
      /\ \A i \in 1 .. Len(q) - 1 : Tail(q)[i] = q[i + 1]
      /\ Tail(q) \in Seq(S)
  BY SetOfSeq, SetOfTail
<1>2. ToSet(Tail(q)) = {Tail(q)[i] : i \in 1 .. Len(q) - 1}
  <2>1. ToSet(Tail(q)) = {Tail(q)[i] : i \in 1 .. Len(Tail(q))}
    BY <1>1, SetOfSeq
  <2> QED
    BY <2>1, <1>1
<1>3. \A i \in 1 .. Len(q) - 1 : i + 1 \in 1 .. Len(q) /\ 1 < i + 1 /\ 1 \in 1 .. Len(q)
  BY <1>1
<1>4. \A i, j \in 1 .. Len(q) - 1 : i < j => i + 1 < j + 1
  BY <1>1
<1>5. Sorted(rfid, Tail(q))
  BY <1>1, <1>3, <1>4 DEF Sorted
<1>6. ASSUME NEW i \in 1 .. Len(q) - 1 PROVE Precedes(rfid, q[1], q[i + 1])
  BY <1>3 DEF Sorted
<1> QED
  BY <1>1, <1>2, <1>5, <1>6

\* A packet that is not an agent's may go to the head of the queue.
LEMMA SortedPush ==
  ASSUME NEW S, NEW rfid, NEW q \in Seq(S), NEW x \in S, x.type # "IP", Sorted(rfid, q)
  PROVE  /\ <<x>> \o q \in Seq(S) /\ <<x>> \o q # <<>>
         /\ ToSet(<<x>> \o q) = ToSet(q) \cup {x}
         /\ Sorted(rfid, <<x>> \o q)
<1> DEFINE r == <<x>> \o q
<1>1. /\ r \in Seq(S) /\ Len(r) = Len(q) + 1 /\ Len(q) \in Nat
      /\ r[1] = x /\ \A i \in 2 .. Len(q) + 1 : r[i] = q[i - 1]
  <2>1. <<x>> \in Seq(S) /\ Len(<<x>>) = 1 /\ Len(q) \in Nat /\ <<x>>[1] = x
    OBVIOUS
  <2>2. /\ r \in Seq(S) /\ Len(r) = 1 + Len(q)
        /\ \A i \in 1 .. 1 + Len(q) : r[i] = IF i <= 1 THEN <<x>>[i] ELSE q[i - 1]
    BY <2>1, ConcatProperties
  <2> QED
    BY <2>1, <2>2
<1>2. ToSet(r) = ToSet(q) \cup {x}
  <2> DEFINE o == <<x>>
  <2>1. o \in Seq(S) /\ ToSet(o) = {x}
    BY DEF ToSet
  <2> HIDE DEF o
  <2>2. ToSet(o \o q) = ToSet(o) \cup ToSet(q)
    BY <2>1, SetOfConcat
  <2> QED
    BY <2>1, <2>2 DEF o
<1>3. r # <<>>
  BY <1>1
<1> HIDE DEF r
<1>4. Sorted(rfid, r)
  <2> SUFFICES ASSUME NEW i \in 1 .. Len(q) + 1, NEW j \in 1 .. Len(q) + 1, i < j
               PROVE  Precedes(rfid, r[i], r[j])
    BY <1>1 DEF Sorted
  <2>1. CASE i = 1
    BY <2>1, <1>1 DEF Precedes, Clash
  <2>2. CASE i # 1
    <3>1. i \in 2 .. Len(q) + 1 /\ j \in 2 .. Len(q) + 1
      BY <2>2, <1>1
    <3>2. i - 1 \in 1 .. Len(q) /\ j - 1 \in 1 .. Len(q) /\ i - 1 < j - 1
      BY <3>1, <1>1
    <3>3. Precedes(rfid, q[i - 1], q[j - 1])
      BY <3>2 DEF Sorted
    <3> QED
      BY <3>1, <3>3, <1>1
  <2> QED
    BY <2>1, <2>2
<1> QED
  BY <1>1, <1>2, <1>3, <1>4 DEF r

LEMMA SortedFront ==
  ASSUME NEW S, NEW rfid, NEW q \in Seq(S), q # <<>>, Sorted(rfid, q)
  PROVE  Front(q) \in Seq(S) /\ ToSet(Front(q)) \subseteq ToSet(q) /\ Sorted(rfid, Front(q))
<1>0. Len(q) \in Nat /\ Len(q) > 0 /\ \A i \in 1 .. Len(q) : q[i] \in S /\ q[i] \in ToSet(q)
  BY SetOfSeq
<1>1. \A i \in 1 .. Len(q) - 1 : q[i] \in S
  BY <1>0
<1>2. /\ Front(q) \in Seq(S)
      /\ Len(Front(q)) = IF 1 <= Len(q) - 1 THEN Len(q) - 1 - 1 + 1 ELSE 0
      /\ \A i \in 1 .. Len(q) - 1 - 1 + 1 : Front(q)[i] = q[1 + i - 1]
  BY <1>0, <1>1, SubSeqProperties DEF Front
<1>3. Len(Front(q)) = Len(q) - 1
  <2>1. Len(Front(q)) = IF 1 <= Len(q) - 1 THEN Len(q) - 1 - 1 + 1 ELSE 0
    BY <1>2
  <2>2. Len(q) \in Nat /\ Len(q) > 0
    BY <1>0
  <2>3. CASE 1 <= Len(q) - 1
    BY <2>1, <2>2, <2>3
  <2>4. CASE ~(1 <= Len(q) - 1)
    BY <2>1, <2>2, <2>4
  <2> QED
    BY <2>3, <2>4
<1>4. \A i \in 1 .. Len(q) - 1 : Front(q)[i] = q[i] /\ i \in 1 .. Len(q)
  <2> TAKE i \in 1 .. Len(q) - 1
  <2>1. i \in 1 .. Len(q) - 1 - 1 + 1 /\ 1 + i - 1 = i /\ i \in 1 .. Len(q)
    BY <1>0
  <2> QED
    BY <2>1, <1>2
<1>5. ToSet(Front(q)) = {Front(q)[i] : i \in 1 .. Len(q) - 1}
  BY <1>2, <1>3, SetOfSeq
<1>6. ToSet(Front(q)) \subseteq ToSet(q)
  BY <1>0, <1>4, <1>5
<1>7. Sorted(rfid, Front(q))
  BY <1>3, <1>4 DEF Sorted
<1> QED
  BY <1>2, <1>6, <1>7

LEMMA SchedAppend ==
  ASSUME NEW rfid, NEW sd \in Seq(SchedEntry), NEW e \in SchedEntry, SortedSched(rfid, sd),
         \A y \in Pkts(sd) : Precedes(rfid, y, e.pkt)
  PROVE  /\ Append(sd, e) \in Seq(SchedEntry) /\ SortedSched(rfid, Append(sd, e))
         /\ Pkts(Append(sd, e)) = Pkts(sd) \cup {e.pkt}
<1>1. /\ Len(Append(sd, e)) = Len(sd) + 1 /\ Len(sd) \in Nat
      /\ \A i \in 1 .. Len(sd) : Append(sd, e)[i] = sd[i] /\ sd[i] \in ToSet(sd)
      /\ Append(sd, e)[Len(sd) + 1] = e
  BY SetOfSeq, AppendProperties
<1>2. Append(sd, e) \in Seq(SchedEntry) /\ ToSet(Append(sd, e)) = ToSet(sd) \cup {e}
  BY SetOfAppend
<1>3. Pkts(Append(sd, e)) = Pkts(sd) \cup {e.pkt}
  BY <1>2 DEF Pkts
<1>4. ASSUME NEW i \in 1 .. Len(sd) + 1, NEW j \in 1 .. Len(sd) + 1, i < j
      PROVE  Precedes(rfid, Append(sd, e)[i].pkt, Append(sd, e)[j].pkt)
  <2>1. i \in 1 .. Len(sd) /\ (j \in 1 .. Len(sd) \/ j = Len(sd) + 1)
    BY <1>1, <1>4
  <2>2. sd[i].pkt \in Pkts(sd)
    BY <2>1, <1>1 DEF Pkts
  <2> QED
    BY <1>1, <1>4, <2>1, <2>2 DEF SortedSched
<1>5. SortedSched(rfid, Append(sd, e))
  BY <1>1, <1>4 DEF SortedSched
<1> QED
  BY <1>2, <1>3, <1>5

LEMMA SchedTail ==
  ASSUME NEW rfid, NEW sd \in Seq(SchedEntry), sd # <<>>, SortedSched(rfid, sd)
  PROVE  /\ Tail(sd) \in Seq(SchedEntry) /\ SortedSched(rfid, Tail(sd))
         /\ Head(sd).pkt \in Packets
         /\ Pkts(sd) = {Head(sd).pkt} \cup Pkts(Tail(sd))
         /\ \A y \in Pkts(Tail(sd)) : Precedes(rfid, Head(sd).pkt, y)
<1>1. /\ Tail(sd) \in Seq(SchedEntry) /\ Head(sd) \in SchedEntry /\ Head(sd) = sd[1]
      /\ Len(sd) > 0 /\ Len(sd) \in Nat /\ Len(Tail(sd)) = Len(sd) - 1
      /\ \A i \in 1 .. Len(sd) - 1 : Tail(sd)[i] = sd[i + 1]
      /\ ToSet(sd) = {Head(sd)} \cup ToSet(Tail(sd))
  BY SetOfSeq, SetOfTail
<1>2. Head(sd).pkt \in Packets
  BY <1>1 DEF SchedEntry
<1>3. Pkts(sd) = {Head(sd).pkt} \cup Pkts(Tail(sd))
  BY <1>1 DEF Pkts
<1>4. \A i \in 1 .. Len(sd) - 1 : i + 1 \in 1 .. Len(sd) /\ 1 < i + 1 /\ 1 \in 1 .. Len(sd)
  BY <1>1
<1>5. \A i, j \in 1 .. Len(sd) - 1 : i < j => i + 1 < j + 1
  BY <1>1
<1>6. SortedSched(rfid, Tail(sd))
  BY <1>1, <1>4, <1>5 DEF SortedSched
<1>7. ASSUME NEW i \in 1 .. Len(sd) - 1 PROVE Precedes(rfid, sd[1].pkt, sd[i + 1].pkt)
  BY <1>4 DEF SortedSched
<1>8. ToSet(Tail(sd)) = {Tail(sd)[i] : i \in 1 .. Len(sd) - 1}
  <2>1. ToSet(Tail(sd)) = {Tail(sd)[i] : i \in 1 .. Len(Tail(sd))}
    BY <1>1, SetOfSeq
  <2> QED
    BY <2>1, <1>1
<1>9. \A y \in Pkts(Tail(sd)) : Precedes(rfid, Head(sd).pkt, y)
  BY <1>1, <1>7, <1>8 DEF Pkts
<1> QED
  BY <1>1, <1>2, <1>3, <1>6, <1>9

\* What clashes with nothing may be put in anywhere.
LEMMA SchedInsert ==
  ASSUME NEW rfid, NEW sd \in Seq(SchedEntry), NEW ps \in Seq(SchedEntry),
         NEW i \in 0 .. Len(sd), NEW s,
         s = Insert(sd, ps, i),
         SortedSched(rfid, sd), SortedSched(rfid, ps),
         \A x \in Pkts(ps), y \in Pkts(sd) : ~Clash(rfid, x, y)
  PROVE  /\ s \in Seq(SchedEntry) /\ SortedSched(rfid, s)
         /\ Pkts(s) = Pkts(sd) \cup Pkts(ps)
<1>1. /\ s \in Seq(SchedEntry) /\ ToSet(s) = ToSet(sd) \cup ToSet(ps)
      /\ Len(s) = Len(sd) + Len(ps)
      /\ \A j \in 1 .. Len(s) :
           s[j] = IF j <= i THEN sd[j] ELSE IF j <= i + Len(ps) THEN ps[j - i]
                  ELSE sd[j - Len(ps)]
  BY Insertion
<1>2. Pkts(s) = Pkts(sd) \cup Pkts(ps)
  BY <1>1 DEF Pkts
<1>n. Len(sd) \in Nat /\ Len(ps) \in Nat /\ i \in Nat /\ i <= Len(sd)
  OBVIOUS
<1>d. \A j \in 1 .. Len(sd) : sd[j].pkt \in Pkts(sd)
  <2>1. \A j \in 1 .. Len(sd) : sd[j] \in ToSet(sd)
    BY SetOfSeq
  <2> QED
    BY <2>1 DEF Pkts
<1>p. \A j \in 1 .. Len(ps) : ps[j].pkt \in Pkts(ps)
  <2>1. \A j \in 1 .. Len(ps) : ps[j] \in ToSet(ps)
    BY SetOfSeq
  <2> QED
    BY <2>1 DEF Pkts
\* Each element is of sd or of ps, and the order of two of the same is kept.
<1> DEFINE InSd(j, a) == /\ a \in 1 .. Len(sd) /\ s[j] = sd[a]
                         /\ \/ a = j /\ j <= i
                            \/ a = j - Len(ps) /\ j > i + Len(ps)
           InPs(j, a) == a \in 1 .. Len(ps) /\ s[j] = ps[a] /\ a = j - i
<1>3. ASSUME NEW j \in 1 .. Len(s) PROVE \E a \in Nat : InSd(j, a) \/ InPs(j, a)
  <2>0. /\ s[j] = IF j <= i THEN sd[j] ELSE IF j <= i + Len(ps) THEN ps[j - i]
                  ELSE sd[j - Len(ps)]
        /\ j \in Nat /\ j >= 1 /\ j <= Len(sd) + Len(ps)
    <3>1. Len(s) = Len(sd) + Len(ps)
      BY <1>1
    <3>2. j \in 1 .. Len(sd) + Len(ps)
      BY <3>1
    <3>3. j \in Nat /\ j >= 1 /\ j <= Len(sd) + Len(ps)
      BY <3>2, <1>n
    <3> QED
      BY <3>3, <1>1
  <2>1. CASE j <= i
    <3>0. j \in 1 .. Len(sd)
      BY <2>0, <2>1, <1>n
    <3>1. j \in Nat /\ InSd(j, j)
      BY <3>0, <2>0, <2>1
    <3> QED
      BY <3>1
  <2>2. CASE ~(j <= i) /\ j <= i + Len(ps)
    <3>1. j - i \in Nat /\ j - i \in 1 .. Len(ps)
      BY <2>2, <1>n
    <3>2. InPs(j, j - i)
      BY <3>1, <2>0, <2>2
    <3> QED
      BY <3>1, <3>2
  <2>3. CASE ~(j <= i + Len(ps))
    <3>1. j - Len(ps) \in Nat /\ j - Len(ps) \in 1 .. Len(sd) /\ ~(j <= i) /\ j > i + Len(ps)
      BY <2>0, <2>3, <1>n
    <3>2. InSd(j, j - Len(ps))
      BY <3>1, <2>0, <2>3
    <3> QED
      BY <3>1, <3>2
  <2> QED
    BY <2>1, <2>2, <2>3
<1>4. ASSUME NEW j \in 1 .. Len(s), NEW l \in 1 .. Len(s), j < l
      PROVE  Precedes(rfid, s[j].pkt, s[l].pkt)
  <2>1. PICK a \in Nat : InSd(j, a) \/ InPs(j, a)
    BY <1>3
  <2>2. PICK b \in Nat : InSd(l, b) \/ InPs(l, b)
    BY <1>3
  <2>0. j \in Int /\ l \in Int
    OBVIOUS
  <2>3. CASE InSd(j, a) /\ InSd(l, b)
    <3>1. a < b
      BY <2>0, <2>3, <1>4, <1>n
    <3>2. a \in 1 .. Len(sd) /\ b \in 1 .. Len(sd) /\ s[j] = sd[a] /\ s[l] = sd[b]
      BY <2>3
    <3>3. Precedes(rfid, sd[a].pkt, sd[b].pkt)
      BY <3>1, <3>2 DEF SortedSched
    <3> QED
      BY <3>2, <3>3
  <2>4. CASE InPs(j, a) /\ InPs(l, b)
    <3>1. a < b
      BY <2>0, <2>4, <1>4, <1>n
    <3>2. a \in 1 .. Len(ps) /\ b \in 1 .. Len(ps) /\ s[j] = ps[a] /\ s[l] = ps[b]
      BY <2>4
    <3>3. Precedes(rfid, ps[a].pkt, ps[b].pkt)
      BY <3>1, <3>2 DEF SortedSched
    <3> QED
      BY <3>2, <3>3
  <2>5. CASE InSd(j, a) /\ InPs(l, b)
    <3>1. s[j].pkt \in Pkts(sd) /\ s[l].pkt \in Pkts(ps)
      BY <2>5, <1>d, <1>p
    <3> QED
      BY <3>1 DEF Precedes, Clash
  <2>6. CASE InPs(j, a) /\ InSd(l, b)
    <3>1. s[j].pkt \in Pkts(ps) /\ s[l].pkt \in Pkts(sd)
      BY <2>6, <1>d, <1>p
    <3> QED
      BY <3>1 DEF Precedes
  <2> QED
    BY <2>1, <2>2, <2>3, <2>4, <2>5, <2>6
<1>5. SortedSched(rfid, s)
  BY <1>4 DEF SortedSched
<1> QED
  BY <1>1, <1>2, <1>5

-------------------------------------------------------------------------------
(* What each step does to the way of a node's packets *)

\* LL schedules a packet that is newer than all others.
LEMMA FlowSchedule ==
  ASSUME NEW n \in Nodes, NEW rfid \in BOOLEAN, NEW k, NEW k2 \in Nat, NEW sd, NEW q, NEW R,
         NEW A, Flow(n, rfid, k, sd, q, R, A),
         NEW p \in Packets, k <= k2, Shape(n, k2, p), ~p.error, p.type \in {"IP", "RTR"},
         p.type = "IP" => p.seq > k,
         p.type = "IP" => p.dst = Everyone \/ A[p.dst].up,
         rfid /\ n # Reader => (p.type = "IP" => p.dst = Reader),
         Everyone \notin Nodes
  PROVE  /\ Flow(n, rfid, k2, Append(sd, [pkt |-> p, byArp |-> FALSE]), q, R, A)
         /\ Pkts(Append(sd, [pkt |-> p, byArp |-> FALSE])) = Pkts(sd) \cup {p}
<1> DEFINE e == [pkt |-> p, byArp |-> FALSE]
           s == Append(sd, e)
<1>f. /\ FlowTypes(k, sd, q, R, A) /\ Shapes(n, k, sd, q, R, A) /\ Resolved(sd, q, R, A)
      /\ Ordered(rfid, sd, q, R) /\ (rfid => RfidFlow(n, sd, q, R, A))
  BY DEF Flow
<1>t. k \in Nat /\ sd \in Seq(SchedEntry) /\ e \in SchedEntry /\ e.pkt = p
  BY <1>f DEF FlowTypes, SchedEntry
<1> HIDE DEF e
<1>o. \A y : Shape(n, k, y) => Shape(n, k2, y) /\ Precedes(rfid, y, p)
  <2> SUFFICES ASSUME NEW y, Shape(n, k, y) PROVE Shape(n, k2, y) /\ Precedes(rfid, y, p)
    OBVIOUS
  <2>1. y.type = "IP" => y.seq \in Nat /\ y.seq <= k
    BY DEF Shape, Packets
  <2>2. p.seq \in Nat
    BY DEF Packets
  <2>3. y.type = "IP" => y.seq <= k2
    BY <2>1, <1>t
  <2>4. Clash(rfid, y, p) => y.seq < p.seq
    BY <2>1, <2>2, <1>t DEF Clash
  <2> QED
    BY <2>3, <2>4 DEF Shape, Precedes
<1>p. \A y \in Pkts(sd) \cup ToSet(q) : Precedes(rfid, y, p)
  BY <1>f, <1>o DEF Shapes
<1>s. s \in Seq(SchedEntry) /\ SortedSched(rfid, s) /\ Pkts(s) = Pkts(sd) \cup {p}
  BY <1>f, <1>t, <1>p, SchedAppend DEF Ordered
<1> HIDE DEF s
<1>1. FlowTypes(k2, s, q, R, A)
  BY <1>f, <1>s DEF FlowTypes
<1>2. Shapes(n, k2, s, q, R, A)
  BY <1>f, <1>s, <1>o DEF Shapes
<1>3. Resolved(s, q, R, A)
  BY <1>f, <1>s DEF Resolved
<1>4. Ordered(rfid, s, q, R)
  <2>1. \A m \in Nodes : \A x \in ToSet(R[m]) : Precedes(rfid, x, p)
    BY <1>f, <1>o DEF Shapes
  <2> QED
    BY <2>1, <1>f, <1>s, <1>p DEF Ordered
<1>5. rfid => RfidFlow(n, s, q, R, A)
  BY <1>f, <1>s DEF RfidFlow
<1> QED
  BY <1>1, <1>2, <1>3, <1>4, <1>5, <1>s DEF Flow, s, e

\* The ARP table changes; addresses are not forgotten.
LEMMA FlowEntry ==
  ASSUME NEW n \in Nodes, NEW rfid \in BOOLEAN, NEW k, NEW k2 \in Nat, NEW sd, NEW q, NEW R,
         NEW A, Flow(n, rfid, k, sd, q, R, A), k <= k2,
         NEW B \in [Nodes -> ArpEntry],
         \A d \in Nodes :
           /\ A[d].up => B[d].up
           /\ B[d].up => B[d].hold = None
           /\ \/ B[d].hold \in {A[d].hold, None}
              \/ /\ Shape(n, k2, B[d].hold) /\ ~B[d].hold.error
                 /\ B[d].hold.type = "IP" /\ B[d].hold.dst = d
                 /\ rfid => n # Reader /\ d = Reader
  PROVE  Flow(n, rfid, k2, sd, q, R, B)
<1>f. /\ FlowTypes(k, sd, q, R, A) /\ Shapes(n, k, sd, q, R, A) /\ Resolved(sd, q, R, A)
      /\ Ordered(rfid, sd, q, R) /\ (rfid => RfidFlow(n, sd, q, R, A))
  BY DEF Flow
<1>o. \A y : Shape(n, k, y) => Shape(n, k2, y)
  <2> SUFFICES ASSUME NEW y, Shape(n, k, y) PROVE Shape(n, k2, y)
    OBVIOUS
  <2>1. y.type = "IP" => y.seq \in Nat /\ y.seq <= k
    BY DEF Shape, Packets
  <2>2. y.type = "IP" => y.seq <= k2
    BY <2>1, <1>f DEF FlowTypes
  <2> QED
    BY <2>2 DEF Shape
<1>1. FlowTypes(k2, sd, q, R, B)
  BY <1>f DEF FlowTypes
<1>2. Shapes(n, k2, sd, q, R, B)
  BY <1>f, <1>o DEF Shapes
<1>3. Resolved(sd, q, R, B)
  BY <1>f DEF Resolved
<1>4. rfid => RfidFlow(n, sd, q, R, B)
  BY <1>f DEF RfidFlow
<1> QED
  BY <1>1, <1>2, <1>3, <1>4, <1>f DEF Flow

\* ARP schedules packets that clash with none under way.
LEMMA FlowArp ==
  ASSUME NEW n \in Nodes, NEW rfid \in BOOLEAN, NEW k, NEW sd, NEW q, NEW R,
         NEW A, Flow(n, rfid, k, sd, q, R, A),
         NEW ps \in Seq(SchedEntry), NEW i \in 0 .. Len(sd), NEW s, s = Insert(sd, ps, i),
         SortedSched(rfid, ps),
         \A x \in Pkts(ps) :
           /\ Shape(n, k, x) /\ ~x.error
           /\ x.type = "IP" => x.dst \in Nodes /\ A[x.dst].up
           /\ \A y \in ToSet(q) \cup Pkts(sd) : ~Clash(rfid, x, y)
           /\ \A m \in Nodes : \A y \in ToSet(R[m]) : ~Clash(rfid, x, y)
           /\ rfid /\ n # Reader => (x.type = "IP" => x.dst = Reader)
           /\ rfid /\ n = Reader => x.type # "REQ" /\ (x.type = "REP" => A[x.dst].up)
  PROVE  Flow(n, rfid, k, s, q, R, A) /\ Pkts(s) = Pkts(sd) \cup Pkts(ps)
<1>f. /\ FlowTypes(k, sd, q, R, A) /\ Shapes(n, k, sd, q, R, A) /\ Resolved(sd, q, R, A)
      /\ Ordered(rfid, sd, q, R) /\ (rfid => RfidFlow(n, sd, q, R, A))
  BY DEF Flow
<1>s. s \in Seq(SchedEntry) /\ SortedSched(rfid, s) /\ Pkts(s) = Pkts(sd) \cup Pkts(ps)
  <2>1. sd \in Seq(SchedEntry) /\ SortedSched(rfid, sd)
    BY <1>f DEF FlowTypes, Ordered
  <2>2. \A x \in Pkts(ps), y \in Pkts(sd) : ~Clash(rfid, x, y)
    OBVIOUS
  <2> QED
    BY <2>1, <2>2, SchedInsert
<1>1. FlowTypes(k, s, q, R, A)
  BY <1>f, <1>s DEF FlowTypes
<1>2. Shapes(n, k, s, q, R, A)
  BY <1>f, <1>s DEF Shapes
<1>3. Resolved(s, q, R, A)
  BY <1>f, <1>s DEF Resolved
<1>4. Ordered(rfid, s, q, R)
  <2>1. \A x \in Pkts(ps) : \A y : ~Clash(rfid, x, y) => Precedes(rfid, y, x)
    BY DEF Precedes, Clash
  <2>2. \A x \in Pkts(ps) : /\ \A y \in ToSet(q) : Precedes(rfid, y, x)
                            /\ \A m \in Nodes : \A y \in ToSet(R[m]) : Precedes(rfid, y, x)
    BY <2>1
  <2> QED
    BY <2>2, <1>f, <1>s DEF Ordered
<1>5. rfid => RfidFlow(n, s, q, R, A)
  BY <1>f, <1>s DEF RfidFlow
<1> QED
  BY <1>1, <1>2, <1>3, <1>4, <1>5, <1>s DEF Flow

\* The first packet scheduled reaches the queue, which becomes r.
LEMMA FlowEnque ==
  ASSUME NEW n \in Nodes, NEW rfid \in BOOLEAN, NEW k, NEW sd, NEW q, NEW R,
         NEW A, Flow(n, rfid, k, sd, q, R, A), sd # <<>>,
         NEW r \in Seq(Packets), ToSet(r) \subseteq ToSet(q) \cup {Head(sd).pkt}, Sorted(rfid, r)
  PROVE  /\ Flow(n, rfid, k, Tail(sd), r, R, A)
         /\ Pkts(sd) = {Head(sd).pkt} \cup Pkts(Tail(sd))
<1>f. /\ FlowTypes(k, sd, q, R, A) /\ Shapes(n, k, sd, q, R, A) /\ Resolved(sd, q, R, A)
      /\ Ordered(rfid, sd, q, R) /\ (rfid => RfidFlow(n, sd, q, R, A))
  BY DEF Flow
<1>t. /\ Tail(sd) \in Seq(SchedEntry) /\ SortedSched(rfid, Tail(sd))
      /\ Pkts(sd) = {Head(sd).pkt} \cup Pkts(Tail(sd))
      /\ \A y \in Pkts(Tail(sd)) : Precedes(rfid, Head(sd).pkt, y)
  BY <1>f, SchedTail DEF FlowTypes, Ordered
<1>s. ToSet(r) \cup Pkts(Tail(sd)) \subseteq ToSet(q) \cup Pkts(sd)
  BY <1>t
<1>1. FlowTypes(k, Tail(sd), r, R, A)
  BY <1>f, <1>t DEF FlowTypes
<1>2. Shapes(n, k, Tail(sd), r, R, A)
  BY <1>f, <1>s DEF Shapes
<1>3. Resolved(Tail(sd), r, R, A)
  BY <1>f, <1>s DEF Resolved
<1>4. Ordered(rfid, Tail(sd), r, R)
  BY <1>f, <1>t, <1>s DEF Ordered
<1>5. rfid => RfidFlow(n, Tail(sd), r, R, A)
  BY <1>f, <1>s DEF RfidFlow
<1> QED
  BY <1>1, <1>2, <1>3, <1>4, <1>5, <1>t DEF Flow

\* The queue is emptied.
LEMMA FlowPurge ==
  ASSUME NEW n \in Nodes, NEW rfid \in BOOLEAN, NEW k, NEW sd, NEW q, NEW R,
         NEW A, Flow(n, rfid, k, sd, q, R, A)
  PROVE  Flow(n, rfid, k, sd, <<>>, R, A)
<1>f. /\ FlowTypes(k, sd, q, R, A) /\ Shapes(n, k, sd, q, R, A) /\ Resolved(sd, q, R, A)
      /\ Ordered(rfid, sd, q, R) /\ (rfid => RfidFlow(n, sd, q, R, A))
  BY DEF Flow
<1>t. <<>> \in Seq(Packets) /\ ToSet(<<>>) = {} /\ Sorted(rfid, <<>>)
  BY DEF ToSet, Sorted
<1>1. FlowTypes(k, sd, <<>>, R, A)
  BY <1>f DEF FlowTypes
<1>2. Shapes(n, k, sd, <<>>, R, A)
  BY <1>f, <1>t DEF Shapes
<1>3. Resolved(sd, <<>>, R, A)
  BY <1>f, <1>t DEF Resolved
<1>4. Ordered(rfid, sd, <<>>, R)
  BY <1>f, <1>t DEF Ordered
<1>5. rfid => RfidFlow(n, sd, <<>>, R, A)
  BY <1>f, <1>t DEF RfidFlow
<1> QED
  BY <1>1, <1>2, <1>3, <1>4, <1>5 DEF Flow

\* The Mac sends the first packet of the queue: some of those it is for have it
\* under way, perhaps in error.
LEMMA FlowTransmit ==
  ASSUME NEW n \in Nodes, NEW rfid \in BOOLEAN, NEW k, NEW sd, NEW q, NEW R,
         NEW A, Flow(n, rfid, k, sd, q, R, A), q # <<>>,
         NEW T \in [Nodes -> Seq(Packets)],
         \A m \in Nodes :
           \/ T[m] = R[m]
           \/ /\ Head(q).dst \in {m, Everyone}
              /\ \E b \in BOOLEAN : T[m] = Append(R[m], [Head(q) EXCEPT !.error = b])
  PROVE  Flow(n, rfid, k, sd, Tail(q), T, A)
<1>f. /\ FlowTypes(k, sd, q, R, A) /\ Shapes(n, k, sd, q, R, A) /\ Resolved(sd, q, R, A)
      /\ Ordered(rfid, sd, q, R) /\ (rfid => RfidFlow(n, sd, q, R, A))
  BY DEF Flow
<1> DEFINE p == Head(q)
<1>q. /\ q \in Seq(Packets) /\ Tail(q) \in Seq(Packets) /\ p \in Packets
      /\ ToSet(q) = {p} \cup ToSet(Tail(q))
      /\ Sorted(rfid, Tail(q)) /\ \A y \in ToSet(Tail(q)) : Precedes(rfid, p, y)
  BY <1>f, SetOfTail, SortedTail DEF FlowTypes, Ordered
<1> HIDE DEF p
<1>e. ASSUME NEW b \in BOOLEAN
      PROVE  LET x == [p EXCEPT !.error = b] IN
             /\ x \in Packets /\ x.type = p.type /\ x.dst = p.dst /\ x.seq = p.seq
             /\ x.src = p.src
  BY <1>q DEF Packets
<1>m. ASSUME NEW m \in Nodes
      PROVE  /\ \A x \in ToSet(T[m]) :
                  \/ x \in ToSet(R[m])
                  \/ /\ x \in Packets /\ x.type = p.type /\ x.dst = p.dst /\ x.seq = p.seq
                     /\ x.src = p.src /\ p.dst \in {m, Everyone}
             /\ Sorted(rfid, T[m])
  <2>0. R[m] \in Seq(Packets) /\ Sorted(rfid, R[m]) /\ \A x \in ToSet(R[m]) : Precedes(rfid, x, p)
    BY <1>f, <1>q DEF FlowTypes, Ordered
  <2>1. CASE T[m] = R[m]
    BY <2>0, <2>1
  <2>2. ASSUME p.dst \in {m, Everyone}, NEW b \in BOOLEAN,
               T[m] = Append(R[m], [p EXCEPT !.error = b])
        PROVE  /\ \A x \in ToSet(T[m]) :
                    \/ x \in ToSet(R[m])
                    \/ /\ x \in Packets /\ x.type = p.type /\ x.dst = p.dst /\ x.seq = p.seq
                       /\ x.src = p.src /\ p.dst \in {m, Everyone}
               /\ Sorted(rfid, T[m])
    <3> DEFINE x == [p EXCEPT !.error = b]
    <3>1. /\ x \in Packets /\ x.type = p.type /\ x.dst = p.dst /\ x.seq = p.seq
          /\ x.src = p.src
      BY <1>e
    <3> HIDE DEF x
    <3>2. T[m] = Append(R[m], x)
      BY <2>2 DEF x
    <3>3. ToSet(T[m]) = ToSet(R[m]) \cup {x}
      BY <3>1, <3>2, <2>0, SetOfAppend
    <3>4. \A y \in ToSet(R[m]) : Precedes(rfid, y, x)
      BY <3>1, <2>0 DEF Precedes, Clash
    <3>5. Sorted(rfid, T[m])
      BY <3>1, <3>2, <3>4, <2>0, SortedAppend
    <3> QED
      BY <3>1, <3>3, <3>5, <2>2
  <2> QED
    BY <2>1, <2>2 DEF p
<1>1. FlowTypes(k, sd, Tail(q), T, A)
  BY <1>f, <1>q DEF FlowTypes
<1>2. Shapes(n, k, sd, Tail(q), T, A)
  <2>1. Shape(n, k, p)
    BY <1>f, <1>q DEF Shapes
  <2>2. \A m \in Nodes : \A x \in ToSet(T[m]) : Shape(n, k, x) /\ x.dst \in {m, Everyone}
    BY <2>1, <1>f, <1>m DEF Shapes, Shape
  <2> QED
    BY <2>2, <1>f, <1>q DEF Shapes
<1>3. Resolved(sd, Tail(q), T, A)
  BY <1>f, <1>q, <1>m DEF Resolved
<1>4. Ordered(rfid, sd, Tail(q), T)
  <2>1. \A y \in ToSet(Tail(q)) \cup Pkts(sd) : Precedes(rfid, p, y)
    BY <1>f, <1>q DEF Ordered
  <2>2. ASSUME NEW m \in Nodes, NEW x \in ToSet(T[m]), NEW y \in ToSet(Tail(q)) \cup Pkts(sd)
        PROVE  Precedes(rfid, x, y)
    <3>1. CASE x \in ToSet(R[m])
      BY <3>1, <1>f, <1>q DEF Ordered
    <3>2. CASE x.type = p.type /\ x.dst = p.dst /\ x.seq = p.seq
      BY <3>2, <2>1 DEF Precedes, Clash
    <3> QED
      BY <3>1, <3>2, <1>m
  <2> QED
    BY <2>2, <1>f, <1>q, <1>m DEF Ordered
<1>5. rfid => RfidFlow(n, sd, Tail(q), T, A)
  <2>1. ASSUME rfid, NEW d \in Nodes, NEW x \in ToSet(T[d])
        PROVE  /\ n # Reader => (x.type = "IP" => x.dst = Reader)
               /\ n = Reader => x.type # "REQ" /\ (x.type = "REP" /\ x.dst = d => A[d].up)
    <3>1. CASE x \in ToSet(R[d])
      BY <3>1, <2>1, <1>f DEF RfidFlow
    <3>2. CASE x.type = p.type /\ x.dst = p.dst
      BY <3>2, <2>1, <1>f, <1>q DEF RfidFlow
    <3> QED
      BY <3>1, <3>2, <1>m
  <2> QED
    BY <2>1, <1>f, <1>q DEF RfidFlow
<1> QED
  BY <1>1, <1>2, <1>3, <1>4, <1>5 DEF Flow

\* Node o receives the oldest packet under way to it.
LEMMA FlowReceive ==
  ASSUME NEW n \in Nodes, NEW rfid \in BOOLEAN, NEW k, NEW sd, NEW q, NEW R,
         NEW A, Flow(n, rfid, k, sd, q, R, A), NEW o \in Nodes, R[o] # <<>>,
         NEW T, T = [R EXCEPT ![o] = Tail(R[o])]
  PROVE  /\ Flow(n, rfid, k, sd, q, T, A)
         /\ ToSet(R[o]) = {Head(R[o])} \cup ToSet(Tail(R[o]))
         /\ \A y \in ToSet(Tail(R[o])) \cup ToSet(q) \cup Pkts(sd) : Precedes(rfid, Head(R[o]), y)
<1>f. /\ FlowTypes(k, sd, q, R, A) /\ Shapes(n, k, sd, q, R, A) /\ Resolved(sd, q, R, A)
      /\ Ordered(rfid, sd, q, R) /\ (rfid => RfidFlow(n, sd, q, R, A))
  BY DEF Flow
<1>r. R[o] \in Seq(Packets) /\ Sorted(rfid, R[o])
  BY <1>f DEF FlowTypes, Ordered
<1>q. /\ Tail(R[o]) \in Seq(Packets) /\ ToSet(R[o]) = {Head(R[o])} \cup ToSet(Tail(R[o]))
      /\ Sorted(rfid, Tail(R[o])) /\ \A y \in ToSet(Tail(R[o])) : Precedes(rfid, Head(R[o]), y)
  BY <1>r, SetOfTail, SortedTail
<1>t. /\ T \in [Nodes -> Seq(Packets)] /\ T[o] = Tail(R[o])
      /\ \A m \in Nodes \ {o} : T[m] = R[m]
  BY <1>f, <1>q DEF FlowTypes
<1>m. \A m \in Nodes : ToSet(T[m]) \subseteq ToSet(R[m]) /\ Sorted(rfid, T[m])
  BY <1>f, <1>q, <1>t DEF Ordered
<1>1. FlowTypes(k, sd, q, T, A)
  BY <1>f, <1>t DEF FlowTypes
<1>2. Shapes(n, k, sd, q, T, A)
  BY <1>f, <1>m DEF Shapes
<1>3. Resolved(sd, q, T, A)
  BY <1>f, <1>m DEF Resolved
<1>4. Ordered(rfid, sd, q, T)
  BY <1>f, <1>m DEF Ordered
<1>5. rfid => RfidFlow(n, sd, q, T, A)
  BY <1>f, <1>m DEF RfidFlow
<1>6. \A y \in ToSet(q) \cup Pkts(sd) : Precedes(rfid, Head(R[o]), y)
  BY <1>f, <1>q DEF Ordered
<1> QED
  BY <1>1, <1>2, <1>3, <1>4, <1>5, <1>6, <1>q DEF Flow

-------------------------------------------------------------------------------
(* What the steps have in common *)

LEMMA SetupTypes ==
  ASSUME TypeOK
  PROVE  /\ setup.rfid \in BOOLEAN /\ setup.drop_front \in BOOLEAN /\ setup.limit \in Nat
         /\ setup.requests \in Nat /\ setup.routing \in Nat /\ setup.faults \in Nat
         /\ setup.resets \in Nat /\ setup.sent \in [Nodes -> Nat]
  BY LinkAssumption DEF TypeOK, SetupRecords

\* The two functions of functions in the state
LEMMA StateTypes ==
  ASSUME TypeOK
  PROVE  /\ rx \in [Nodes -> [Nodes -> Seq(Packets)]]
         /\ arp \in [Nodes -> [Nodes -> [up : BOOLEAN, hold : Packets \cup {None},
                                         count : 0 .. setup.requests]]]
         /\ seqno \in [Nodes -> Nat]
  BY DEF TypeOK

LEMMA QueuedPkts == \A n \in Nodes : Queued(n) = ToSet(ifq[n]) \cup Pkts(sched[n])
  BY DEF Queued, Pkts

\* The way of one node's packets changes.
LEMMA FlowsOfOne ==
  ASSUME Flows, NEW n \in Nodes, setup' = setup,
         \A o \in Nodes \ {n} :
           /\ sched'[o] = sched[o] /\ ifq'[o] = ifq[o] /\ arp'[o] = arp[o]
           /\ seqno'[o] = seqno[o] /\ \A m \in Nodes : rx'[m][o] = rx[m][o],
         Flow(n, setup.rfid, seqno'[n], sched'[n], ifq'[n], Rx(n)', arp'[n])
  PROVE  Flows'
<1> SUFFICES ASSUME NEW o \in Nodes
             PROVE  Flow(o, setup.rfid, seqno'[o], sched'[o], ifq'[o], Rx(o)', arp'[o])
  BY DEF Flows
<1>1. CASE o = n
  BY <1>1
<1>2. CASE o # n
  <2>1. Rx(o)' = Rx(o)
    BY <1>2 DEF Rx
  <2> QED
    BY <1>2, <2>1 DEF Flows
<1> QED
  BY <1>1, <1>2

\* HeldAwaitsArp holds when a packet is held anew with its request, and as long
\* as a request is lost only to a reply, and a reply only as the packet leaves.
LEMMA HeldMoves ==
  ASSUME LinkInv,
         faults' = 0 /\ resets' = 0 /\ ~dropped' =>
           /\ faults = 0 /\ resets = 0 /\ ~dropped
           /\ \A n, d \in Nodes : arp'[n][d].hold # None =>
                \/ \E p \in UnderWay(n, d)' : p.type = "REQ" /\ p.target = d
                \/ \E p \in UnderWay(d, n)' : p.type = "REP" /\ p.dst = n
                \/ /\ arp[n][d].hold # None
                   /\ n # d => /\ \A p \in UnderWay(n, d) :
                                    p.type = "REQ" /\ p.target = d /\ p.dst = Everyone =>
                                      p \in UnderWay(n, d)'
                               /\ \A p \in UnderWay(d, n) :
                                    p.type = "REP" /\ p.dst = n => p \in UnderWay(d, n)'
  PROVE  HeldAwaitsArp'
<1> SUFFICES ASSUME faults' = 0, resets' = 0, ~dropped', NEW n \in Nodes, NEW d \in Nodes,
                    arp'[n][d].hold # None, arp[n][d].hold # None,
                    n # d => /\ \A p \in UnderWay(n, d) :
                                  p.type = "REQ" /\ p.target = d /\ p.dst = Everyone =>
                                    p \in UnderWay(n, d)'
                             /\ \A p \in UnderWay(d, n) :
                                  p.type = "REP" /\ p.dst = n => p \in UnderWay(d, n)'
             PROVE  \/ \E p \in UnderWay(n, d)' : p.type = "REQ" /\ p.target = d
                    \/ \E p \in UnderWay(d, n)' : p.type = "REP" /\ p.dst = n
  BY DEF HeldAwaitsArp
<1>2. n # d
  <2>1. Shapes(n, seqno[n], sched[n], ifq[n], Rx(n), arp[n])
    BY DEF LinkInv, Flows, Flow
  <2> QED
    BY <2>1 DEF Shapes, Shape
<1>3. \/ \E p \in UnderWay(n, d) : p.type = "REQ" /\ p.target = d
      \/ \E p \in UnderWay(d, n) : p.type = "REP" /\ p.dst = n
  BY DEF LinkInv, HeldAwaitsArp
<1>4. ASSUME NEW p \in UnderWay(n, d), p.type = "REQ" PROVE p.dst = Everyone
  <2>1. Shapes(n, seqno[n], sched[n], ifq[n], Rx(n), arp[n]) /\ Rx(n)[d] = rx[d][n]
    BY DEF LinkInv, Flows, Flow, Rx
  <2>2. p \in ToSet(Rx(n)[d]) \cup (ToSet(ifq[n]) \cup Pkts(sched[n])) \/ p = arp[n][d].hold
    BY <2>1, QueuedPkts DEF UnderWay
  <2> QED
    BY <2>1, <2>2, <1>4 DEF Shapes, Shape
<1> QED
  BY <1>2, <1>3, <1>4

LEMMA HeldKept ==
  ASSUME LinkInv,
         \A n, d \in Nodes : arp'[n][d].hold # None => arp[n][d].hold # None,
         faults' = 0 /\ resets' = 0 /\ ~dropped' =>
           /\ faults = 0 /\ resets = 0 /\ ~dropped
           /\ \A n, d \in Nodes : n # d => \A p \in UnderWay(n, d) :
                p.type \in {"REQ", "REP"} /\ p.dst \in {d, Everyone} => p \in UnderWay(n, d)'
  PROVE  HeldAwaitsArp'
  BY HeldMoves

\* A step in which the agents send and receive nothing
LEMMA QuietStep ==
  ASSUME setup' = setup, sent' = sent, got' = got, sent \in [Channels -> Nat],
         \A c \in Channels : \A p \in UnderWay(c[1], c[2])' :
           p.error \/ ~Uses(p, c) \/ p \in UnderWay(c[1], c[2])
  PROVE  Fifo!Next
<1> SUFFICES ASSUME NEW c \in Channels PROVE Fifo!Accept(c)
  BY DEF Fifo!Next
<1>1. transit'[c] \subseteq transit[c]
  <2> SUFFICES ASSUME NEW p \in UnderWay(c[1], c[2])', Uses(p, c)', ~p.error
               PROVE  \E r \in UnderWay(c[1], c[2]) : Uses(r, c) /\ ~r.error /\ r.seq = p.seq
    BY DEF transit
  <2>1. Uses(p, c)
    BY DEF Uses, Cast
  <2> QED
    BY <2>1
<1>2. sent[c] \in Nat
  OBVIOUS
<1> QED
  BY <1>1, <1>2 DEF Fifo!Accept

LEMMA TransmitEffect ==
  ASSUME TypeOK, NEW n \in Nodes, NEW p \in Packets, p.dst # n, Transmit(n, p)
  PROVE  /\ rx' \in [Nodes -> [Nodes -> Seq(Packets)]]
         /\ \A m, o \in Nodes : o # n => rx'[m][o] = rx[m][o]
         /\ \A m \in Nodes :
              \/ rx'[m][n] = rx[m][n]
              \/ /\ p.dst \in {m, Everyone}
                 /\ \E b \in BOOLEAN : rx'[m][n] = Append(rx[m][n], [p EXCEPT !.error = b])
         /\ faults' \in 0 .. setup.faults /\ faults <= faults'
         /\ faults' = 0 => \A m \in Nodes \ {n} : p.dst \in {m, Everyone} =>
              rx'[m][n] = Append(rx[m][n], [p EXCEPT !.error = FALSE])
<1> DEFINE receivers == IF p.dst = Everyone THEN Nodes \ {n} ELSE {p.dst}
<1>1. PICK outcome \in [Nodes -> {"ok", "error", "none"}] :
        /\ \A m \in Nodes \ receivers : outcome[m] = "none"
        /\ faults' = faults + Cardinality({m \in receivers : outcome[m] # "ok"})
        /\ faults' <= setup.faults
        /\ rx' = [m \in Nodes |->
                    IF outcome[m] = "none" THEN rx[m]
                    ELSE [rx[m] EXCEPT ![n] =
                            Append(@, [p EXCEPT !.error = (outcome[m] = "error")])]]
  BY DEF Transmit
<1> DEFINE bad == {m \in receivers : outcome[m] # "ok"}
<1>r. receivers \subseteq Nodes
  <2>1. p.dst \in Nodes \cup {Everyone}
    BY DEF Packets
  <2> QED
    BY <2>1
<1>2. IsFiniteSet(bad) /\ Cardinality(bad) \in Nat /\ (Cardinality(bad) = 0 => bad = {})
  <2>1. IsFiniteSet(bad)
    BY <1>r, FS_Subset, LinkAssumption
  <2> QED
    BY <2>1, FS_CardinalityType, FS_EmptySet
<1>f. faults \in Nat /\ setup.faults \in Nat
  <2>1. setup.faults \in Nat
    BY SetupTypes
  <2>2. faults \in 0 .. setup.faults
    BY DEF TypeOK
  <2> QED
    BY <2>1, <2>2
<1>3. faults' \in 0 .. setup.faults /\ faults <= faults' /\ (faults' = 0 => bad = {})
  <2> DEFINE c == Cardinality(bad)
  <2>1. c \in Nat /\ (c = 0 => bad = {}) /\ faults' = faults + c /\ faults' <= setup.faults
    BY <1>1, <1>2
  <2> HIDE DEF c, bad
  <2> QED
    BY <2>1, <1>f
<1>y. rx \in [Nodes -> [Nodes -> Seq(Packets)]]
  BY DEF TypeOK
<1>m. ASSUME NEW m \in Nodes
      PROVE  /\ outcome[m] = "none" => rx'[m] = rx[m]
             /\ outcome[m] # "none" => /\ m \in receivers
                                       /\ rx'[m] = [rx[m] EXCEPT ![n] = Append(rx[m][n],
                                                     [p EXCEPT !.error = (outcome[m] = "error")])]
  BY <1>1
<1>e. \A b \in BOOLEAN : [p EXCEPT !.error = b] \in Packets
  BY DEF Packets
<1>4. ASSUME NEW m \in Nodes PROVE rx'[m] \in [Nodes -> Seq(Packets)]
  <2>1. CASE outcome[m] = "none"
    BY <2>1, <1>m, <1>y
  <2>2. CASE outcome[m] # "none"
    <3> DEFINE x == [p EXCEPT !.error = (outcome[m] = "error")]
    <3>1. x \in Packets
      BY <1>e
    <3> HIDE DEF x
    <3>2. rx[m][n] \in Seq(Packets) /\ rx[m] \in [Nodes -> Seq(Packets)]
      BY <1>y
    <3>3. Append(rx[m][n], x) \in Seq(Packets)
      BY <3>1, <3>2, SetOfAppend
    <3>4. rx'[m] = [rx[m] EXCEPT ![n] = Append(rx[m][n], x)]
      BY <2>2, <1>m DEF x
    <3> QED
      BY <3>2, <3>3, <3>4
  <2> QED
    BY <2>1, <2>2
<1>5. rx' \in [Nodes -> [Nodes -> Seq(Packets)]]
  <2>1. rx' = [m \in Nodes |-> rx'[m]]
    BY <1>1
  <2> QED
    BY <2>1, <1>4
<1>6. \A m, o \in Nodes : o # n => rx'[m][o] = rx[m][o]
  <2> SUFFICES ASSUME NEW m \in Nodes, NEW o \in Nodes, o # n PROVE rx'[m][o] = rx[m][o]
    OBVIOUS
  <2>1. rx[m] \in [Nodes -> Seq(Packets)]
    BY <1>y
  <2>2. CASE outcome[m] = "none"
    BY <2>2, <1>m
  <2>3. CASE outcome[m] # "none"
    <3>1. rx'[m] = [rx[m] EXCEPT ![n] = Append(rx[m][n],
                                                [p EXCEPT !.error = (outcome[m] = "error")])]
      BY <2>3, <1>m
    <3> QED
      BY <3>1, <2>1
  <2> QED
    BY <2>2, <2>3
<1>7. ASSUME NEW m \in Nodes
      PROVE  \/ rx'[m][n] = rx[m][n]
             \/ /\ p.dst \in {m, Everyone}
                /\ \E b \in BOOLEAN : rx'[m][n] = Append(rx[m][n], [p EXCEPT !.error = b])
  <2>1. CASE outcome[m] = "none"
    BY <2>1, <1>m
  <2>2. CASE outcome[m] # "none"
    <3>1. p.dst \in {m, Everyone}
      BY <2>2, <1>m
    <3>2. rx'[m][n] = Append(rx[m][n], [p EXCEPT !.error = (outcome[m] = "error")])
      <4>1. rx[m] \in [Nodes -> Seq(Packets)]
        BY <1>y
      <4> QED
        BY <4>1, <2>2, <1>m
    <3>3. (outcome[m] = "error") \in BOOLEAN
      OBVIOUS
    <3> QED
      BY <3>1, <3>2, <3>3
  <2> QED
    BY <2>1, <2>2
<1>8. ASSUME faults' = 0, NEW m \in Nodes \ {n}, p.dst \in {m, Everyone}
      PROVE  rx'[m][n] = Append(rx[m][n], [p EXCEPT !.error = FALSE])
  <2>1. m \in receivers
    BY <1>8
  <2>2. outcome[m] = "ok"
    BY <2>1, <1>3, <1>8
  <2>3. rx'[m] = [rx[m] EXCEPT ![n] = Append(rx[m][n], [p EXCEPT !.error = FALSE])]
    <3>1. rx'[m] = [rx[m] EXCEPT ![n] = Append(rx[m][n],
                                                [p EXCEPT !.error = (outcome[m] = "error")])]
      BY <2>2, <1>m
    <3>2. (outcome[m] = "error") = FALSE
      BY <2>2
    <3> QED
      BY <3>1, <3>2
  <2> QED
    BY <2>3, <1>y
<1> QED
  BY <1>3, <1>5, <1>6, <1>7, <1>8

\* The packet that reaches the queue is the newest of its channels, or one of
\* a routing protocol.
LEMMA EnqueEffect ==
  ASSUME TypeOK, NEW n \in Nodes, sched[n] # <<>>,
         Flow(n, setup.rfid, seqno[n], sched[n], ifq[n], Rx(n), arp[n]),
         NEW q, q = Enque(n, Head(sched[n]).pkt)
  PROVE  /\ q \in Seq(Packets) /\ Sorted(setup.rfid, q)
         /\ ToSet(q) \subseteq ToSet(ifq[n]) \cup {Head(sched[n]).pkt}
         /\ ~Full(n) => ToSet(q) = ToSet(ifq[n]) \cup {Head(sched[n]).pkt}
<1> DEFINE p == Head(sched[n]).pkt
           f == ifq[n]
           r == setup.rfid
<1>1. /\ f \in Seq(Packets) /\ sched[n] \in Seq(SchedEntry)
      /\ Sorted(r, f) /\ SortedSched(r, sched[n])
      /\ \A x \in ToSet(f), y \in Pkts(sched[n]) : Precedes(r, x, y)
  BY DEF Flow, FlowTypes, Ordered
<1>2. p \in Packets /\ p \in Pkts(sched[n])
  BY <1>1, SchedTail
<1>q. q = IF p.type = "RTR" THEN IF Full(n) THEN Front(<<p>> \o f) ELSE <<p>> \o f
          ELSE IF ~Full(n) THEN Append(f, p)
          ELSE IF setup.drop_front THEN Tail(Append(f, p))
          ELSE f
  BY DEF Enque
<1>p. \A x \in ToSet(f) : Precedes(r, x, p)
  BY <1>1, <1>2
<1> HIDE DEF p, f, r
<1>3. CASE p.type = "RTR"
  <2> DEFINE s == <<p>> \o f
  <2>1. s \in Seq(Packets) /\ s # <<>> /\ ToSet(s) = ToSet(f) \cup {p} /\ Sorted(r, s)
    BY <1>1, <1>2, <1>3, SortedPush
  <2> HIDE DEF s
  <2>2. /\ Front(s) \in Seq(Packets) /\ ToSet(Front(s)) \subseteq ToSet(s)
        /\ Sorted(r, Front(s))
    BY <2>1, SortedFront
  <2>3. q = IF Full(n) THEN Front(s) ELSE s
    BY <1>q, <1>3 DEF s
  <2> QED
    BY <2>1, <2>2, <2>3 DEF p, f, r
<1>4. CASE p.type # "RTR"
  <2> DEFINE s == Append(f, p)
  <2>1. s \in Seq(Packets) /\ s # <<>> /\ ToSet(s) = ToSet(f) \cup {p} /\ Sorted(r, s)
    BY <1>1, <1>2, <1>p, SetOfAppend, SortedAppend
  <2> HIDE DEF s
  <2>2. /\ Tail(s) \in Seq(Packets) /\ ToSet(Tail(s)) \subseteq ToSet(s)
        /\ Sorted(r, Tail(s))
    BY <2>1, SetOfTail, SortedTail
  <2>3. q = IF ~Full(n) THEN s ELSE IF setup.drop_front THEN Tail(s) ELSE f
    BY <1>q, <1>4 DEF s
  <2> QED
    BY <2>1, <2>2, <2>3, <1>1 DEF p, f, r
<1> QED
  BY <1>3, <1>4

\* The queue, which has become q, hands its first packet to the Mac.
LEMMA Handover ==
  ASSUME LinkInv, NEW n \in Nodes, NEW sd, NEW q, q # <<>>,
         Flow(n, setup.rfid, seqno[n], sd, q, Rx(n), arp[n]),
         ToSet(q) \cup Pkts(sd) \subseteq ToSet(ifq[n]) \cup Pkts(sched[n]),
         Transmit(n, Head(q)),
         ifq' = [ifq EXCEPT ![n] = Tail(q)], sched' = [sched EXCEPT ![n] = sd],
         UNCHANGED <<setup, arp, seqno, resets, sent, got>>,
         ~dropped' => ~dropped /\ ToSet(q) \cup Pkts(sd) = ToSet(ifq[n]) \cup Pkts(sched[n])
  PROVE  /\ rx' \in [Nodes -> [Nodes -> Seq(Packets)]] /\ faults' \in 0 .. setup.faults
         /\ ifq' \in [Nodes -> Seq(Packets)] /\ sched' \in [Nodes -> Seq(SchedEntry)]
         /\ Flows' /\ HeldAwaitsArp' /\ Fifo!Next
<1> DEFINE p == Head(q)
<1>t. TypeOK
  BY DEF LinkInv
<1>q. /\ q \in Seq(Packets) /\ Tail(q) \in Seq(Packets) /\ p \in Packets
      /\ ToSet(q) = {p} \cup ToSet(Tail(q)) /\ sd \in Seq(SchedEntry)
  BY SetOfTail DEF Flow, FlowTypes
<1>p. p.dst # n /\ ~p.error
  BY <1>q DEF Flow, Shapes, Shape
<1> HIDE DEF p
<1>x. /\ rx' \in [Nodes -> [Nodes -> Seq(Packets)]]
      /\ \A m, o \in Nodes : o # n => rx'[m][o] = rx[m][o]
      /\ \A m \in Nodes :
           \/ rx'[m][n] = rx[m][n]
           \/ /\ p.dst \in {m, Everyone}
              /\ \E b \in BOOLEAN : rx'[m][n] = Append(rx[m][n], [p EXCEPT !.error = b])
      /\ faults' \in 0 .. setup.faults /\ faults <= faults'
      /\ faults' = 0 => \A m \in Nodes \ {n} : p.dst \in {m, Everyone} =>
           rx'[m][n] = Append(rx[m][n], [p EXCEPT !.error = FALSE])
  <2>1. Transmit(n, p)
    BY DEF p
  <2> QED
    BY <2>1, <1>t, <1>q, <1>p, TransmitEffect
<1>e. [p EXCEPT !.error = FALSE] = p /\ [p EXCEPT !.error = TRUE].error
  BY <1>q, <1>p DEF Packets
<1>v. \A b \in BOOLEAN : [p EXCEPT !.error = b] \in Packets
  BY <1>q DEF Packets
<1>s. /\ ifq' \in [Nodes -> Seq(Packets)] /\ sched' \in [Nodes -> Seq(SchedEntry)]
      /\ ifq'[n] = Tail(q) /\ sched'[n] = sd
      /\ \A o \in Nodes \ {n} : ifq'[o] = ifq[o] /\ sched'[o] = sched[o]
  BY <1>t, <1>q DEF TypeOK, SchedEntry
<1>y. rx \in [Nodes -> [Nodes -> Seq(Packets)]]
  BY <1>t DEF TypeOK
\* What is under way to m
<1>w. ASSUME NEW m \in Nodes
      PROVE  /\ \A x \in ToSet(rx'[m][n]) : x.error \/ x \in ToSet(rx[m][n]) \cup {p}
             /\ ToSet(rx[m][n]) \subseteq ToSet(rx'[m][n])
             /\ faults' = 0 /\ m # n /\ p.dst \in {m, Everyone} => p \in ToSet(rx'[m][n])
  <2>0. rx[m][n] \in Seq(Packets)
    BY <1>y
  <2>1. CASE rx'[m][n] = rx[m][n]
    <3>1. faults' = 0 /\ m # n /\ p.dst \in {m, Everyone} => rx'[m][n] = Append(rx[m][n], p)
      BY <1>x, <1>e
    <3>2. ToSet(Append(rx[m][n], p)) = ToSet(rx[m][n]) \cup {p}
      BY <2>0, <1>q, SetOfAppend
    <3> QED
      BY <2>1, <3>1, <3>2
  <2>2. ASSUME NEW b \in BOOLEAN, rx'[m][n] = Append(rx[m][n], [p EXCEPT !.error = b])
        PROVE  /\ \A x \in ToSet(rx'[m][n]) : x.error \/ x \in ToSet(rx[m][n]) \cup {p}
               /\ ToSet(rx[m][n]) \subseteq ToSet(rx'[m][n])
               /\ faults' = 0 /\ m # n /\ p.dst \in {m, Everyone} => p \in ToSet(rx'[m][n])
    <3> DEFINE x == [p EXCEPT !.error = b]
    <3>1. x \in Packets /\ (x = p \/ x.error)
      BY <1>v, <1>e
    <3>2. rx'[m][n] = Append(rx[m][n], x)
      BY <2>2
    <3> HIDE DEF x
    <3>3. ToSet(rx'[m][n]) = ToSet(rx[m][n]) \cup {x}
      BY <3>1, <3>2, <2>0, SetOfAppend
    <3>4. faults' = 0 /\ m # n /\ p.dst \in {m, Everyone} => rx'[m][n] = Append(rx[m][n], p)
      BY <1>x, <1>e
    <3>5. ToSet(Append(rx[m][n], p)) = ToSet(rx[m][n]) \cup {p}
      BY <2>0, <1>q, SetOfAppend
    <3> QED
      BY <3>1, <3>3, <3>4, <3>5
  <2> QED
    BY <2>1, <2>2, <1>x
<1>1. Flows'
  <2>1. Rx(n)' \in [Nodes -> Seq(Packets)]
    BY <1>x DEF Rx
  <2>2. \A m \in Nodes :
          \/ Rx(n)'[m] = Rx(n)[m]
          \/ /\ Head(q).dst \in {m, Everyone}
             /\ \E b \in BOOLEAN : Rx(n)'[m] = Append(Rx(n)[m], [Head(q) EXCEPT !.error = b])
    BY <1>x DEF Rx, p
  <2>3. setup.rfid \in BOOLEAN
    BY <1>t, SetupTypes
  <2>4. Flow(n, setup.rfid, seqno[n], sd, Tail(q), Rx(n)', arp[n])
    BY <2>1, <2>2, <2>3, FlowTransmit
  <2>5. \A o \in Nodes \ {n} :
          /\ sched'[o] = sched[o] /\ ifq'[o] = ifq[o] /\ arp'[o] = arp[o]
          /\ seqno'[o] = seqno[o] /\ \A m \in Nodes : rx'[m][o] = rx[m][o]
    BY <1>s, <1>x
  <2>6. Flow(n, setup.rfid, seqno'[n], sched'[n], ifq'[n], Rx(n)', arp'[n])
    BY <2>4, <1>s
  <2>7. Flows /\ setup' = setup
    BY DEF LinkInv
  <2> QED
    BY <2>5, <2>6, <2>7, FlowsOfOne
<1>2. ASSUME NEW a \in Nodes, NEW d \in Nodes, NEW x \in UnderWay(a, d)'
      PROVE  x.error \/ x \in UnderWay(a, d)
  <2>1. CASE a # n
    BY <2>1, <1>s, <1>x DEF UnderWay, Queued
  <2>2. CASE a = n
    <3>1. /\ x \in ToSet(rx'[d][n]) \cup ToSet(Tail(q)) \cup Pkts(sd) \cup ({arp[n][d].hold} \ {None})
          /\ UnderWay(n, d) = ToSet(rx[d][n]) \cup (ToSet(ifq[n]) \cup Pkts(sched[n]))
                                \cup ({arp[n][d].hold} \ {None})
      BY <2>2, <1>s DEF UnderWay, Queued, Pkts
    <3> QED
      BY <2>2, <3>1, <1>w, <1>q
  <2> QED
    BY <2>1, <2>2
<1>3. Fifo!Next
  <2>1. sent \in [Channels -> Nat]
    BY <1>t DEF TypeOK
  <2>2. \A c \in Channels : c[1] \in Nodes /\ c[2] \in Nodes
    BY DEF Channels
  <2> QED
    BY <2>1, <2>2, <1>2, QuietStep
<1>4. ASSUME faults' = 0, ~dropped', NEW a \in Nodes, NEW d \in Nodes, a # d,
             NEW x \in UnderWay(a, d), x.dst \in {d, Everyone}
      PROVE  x \in UnderWay(a, d)'
  <2>1. CASE a # n
    BY <2>1, <1>s, <1>x DEF UnderWay, Queued
  <2>2. CASE a = n
    <3>1. /\ UnderWay(n, d)' = ToSet(rx'[d][n]) \cup (ToSet(Tail(q)) \cup Pkts(sd))
                                \cup ({arp[n][d].hold} \ {None})
          /\ x \in ToSet(rx[d][n]) \cup (ToSet(ifq[n]) \cup Pkts(sched[n]))
                                \cup ({arp[n][d].hold} \ {None})
      BY <2>2, <1>s DEF UnderWay, Queued, Pkts
    <3>2. ToSet(ifq[n]) \cup Pkts(sched[n]) = {p} \cup ToSet(Tail(q)) \cup Pkts(sd)
      BY <1>4, <1>q
    <3> QED
      BY <2>2, <3>1, <3>2, <1>w, <1>4
  <2> QED
    BY <2>1, <2>2
<1>5. HeldAwaitsArp'
  <2>1. faults' = 0 => faults = 0
    <3>1. setup.faults \in Nat
      BY <1>t, SetupTypes
    <3>2. faults \in 0 .. setup.faults
      BY <1>t DEF TypeOK
    <3>3. faults <= faults'
      BY <1>x
    <3> QED
      BY <3>1, <3>2, <3>3
  <2> QED
    BY <2>1, <1>4, HeldKept
<1> QED
  BY <1>1, <1>3, <1>5, <1>s, <1>x

-------------------------------------------------------------------------------
(* Every step keeps the invariant and is a step of the channel or a stutter. *)

LEMMA InitLink == Init => LinkInv /\ Fifo!Init
<1> SUFFICES ASSUME Init PROVE LinkInv /\ Fifo!Init
  OBVIOUS
<1>s. /\ setup.rfid \in BOOLEAN /\ setup.requests \in Nat /\ setup.routing \in Nat
      /\ setup.faults \in Nat /\ setup.resets \in Nat /\ setup.sent \in [Nodes -> Nat]
  BY LinkAssumption DEF Init, SetupRecords
<1>e. /\ NoEntry \in [up : BOOLEAN, hold : Packets \cup {None}, count : 0 .. setup.requests]
      /\ NoEntry \in ArpEntry /\ NoEntry.hold = None /\ ~NoEntry.up
  BY <1>s DEF NoEntry, ArpEntry
<1>q. ToSet(<<>>) = {} /\ Pkts(<<>>) = {}
  BY DEF ToSet, Pkts
<1>1. TypeOK
  <2>1. arp \in [Nodes -> [Nodes -> [up : BOOLEAN, hold : Packets \cup {None},
                                     count : 0 .. setup.requests]]]
    BY <1>e DEF Init
  <2>2. seqno \in [Nodes -> Nat] /\ \A n \in Nodes : seqno[n] <= setup.sent[n]
    BY <1>s DEF Init
  <2>3. /\ faults \in 0 .. setup.faults /\ resets \in 0 .. setup.resets
        /\ routing \in 0 .. setup.routing /\ dropped \in BOOLEAN /\ setup \in Setups
    <3>1. faults = 0 /\ resets = 0 /\ routing = 0 /\ dropped = FALSE /\ setup \in Setups
      BY DEF Init
    <3>2. 0 \in 0 .. setup.faults /\ 0 \in 0 .. setup.resets /\ 0 \in 0 .. setup.routing
      BY <1>s
    <3> QED
      BY <3>1, <3>2
  <2>4. /\ sched \in [Nodes -> Seq([pkt : Packets, byArp : BOOLEAN])]
        /\ ifq \in [Nodes -> Seq(Packets)] /\ rx \in [Nodes -> [Nodes -> Seq(Packets)]]
        /\ blocked \in [Nodes -> BOOLEAN]
    BY DEF Init
  <2>5. sent \in [Channels -> Nat] /\ got \in [Channels -> Nat]
    BY DEF Init
  <2> QED
    BY <2>1, <2>2, <2>3, <2>4, <2>5 DEF TypeOK
<1>2. Flows
  <2> SUFFICES ASSUME NEW n \in Nodes
               PROVE  Flow(n, setup.rfid, seqno[n], sched[n], ifq[n], Rx(n), arp[n])
    BY DEF Flows
  <2>1. /\ sched[n] = <<>> /\ ifq[n] = <<>> /\ seqno[n] = 0
        /\ Rx(n) = [m \in Nodes |-> <<>>] /\ arp[n] = [d \in Nodes |-> NoEntry]
    BY DEF Init, Rx
  <2>2. FlowTypes(seqno[n], sched[n], ifq[n], Rx(n), arp[n])
    BY <2>1, <1>e DEF FlowTypes
  <2>3. Shapes(n, seqno[n], sched[n], ifq[n], Rx(n), arp[n])
    BY <2>1, <1>e, <1>q DEF Shapes
  <2>4. Resolved(sched[n], ifq[n], Rx(n), arp[n])
    BY <2>1, <1>e, <1>q DEF Resolved
  <2>5. Ordered(setup.rfid, sched[n], ifq[n], Rx(n))
    BY <2>1, <1>q DEF Ordered, Sorted, SortedSched
  <2>6. RfidFlow(n, sched[n], ifq[n], Rx(n), arp[n])
    BY <2>1, <1>e, <1>q DEF RfidFlow
  <2> QED
    BY <2>2, <2>3, <2>4, <2>5, <2>6 DEF Flow
<1>c. \A c \in Channels : sent[c] = 0 /\ got[c] = 0 /\ c[1] \in Nodes /\ c[2] \in Nodes
  BY DEF Init, Channels
<1>3. ReaderKnows
  <2> SUFFICES ASSUME NEW d \in Nodes \ {Reader}
               PROVE  ~arp[d][Reader].up /\ ~(got[<<d, Reader, "RFID">>] > 0)
    BY DEF ReaderKnows
  <2>1. <<d, Reader, "RFID">> \in Channels
    BY LinkAssumption DEF Channels
  <2> QED
    BY <2>1, <1>c, <1>e, LinkAssumption DEF Init
<1>4. Numbered
  BY <1>c DEF Numbered, Init
<1>5. NothingStranded /\ HeldAwaitsArp
  BY <1>e DEF NothingStranded, HeldAwaitsArp, Init
<1>6. Fifo!Init
  <2>1. ASSUME NEW c \in Channels PROVE UnderWay(c[1], c[2]) = {}
    BY <1>c, <1>e, <1>q DEF UnderWay, Queued, Init
  <2>2. transit = [c \in Channels |-> {}]
    BY <2>1 DEF transit
  <2> QED
    BY <2>2 DEF Fifo!Init, Init
<1> QED
  BY <1>1, <1>2, <1>3, <1>4, <1>5, <1>6 DEF LinkInv

LEMMA ToQueueStep ==
  ASSUME LinkInv, NEW n \in Nodes, ToQueue(n)
  PROVE  LinkInv' /\ Fifo!Next
<1> DEFINE p == Head(sched[n]).pkt
           q == Enque(n, p)
<1>t. TypeOK /\ Flow(n, setup.rfid, seqno[n], sched[n], ifq[n], Rx(n), arp[n])
  BY DEF LinkInv, Flows
<1>0. /\ sched[n] # <<>> /\ sched' = [sched EXCEPT ![n] = Tail(sched[n])]
      /\ UNCHANGED <<setup, arp, seqno, routing, resets, sent, got>>
      /\ dropped' = (dropped \/ Full(n))
  BY DEF ToQueue
<1>q. /\ q \in Seq(Packets) /\ Sorted(setup.rfid, q) /\ ToSet(q) \subseteq ToSet(ifq[n]) \cup {p}
      /\ ~Full(n) => ToSet(q) = ToSet(ifq[n]) \cup {p}
  BY <1>t, <1>0, EnqueEffect
<1>c. \/ /\ blocked[n] \/ q = <<>>
         /\ ifq' = [ifq EXCEPT ![n] = q] /\ UNCHANGED <<blocked, rx, faults>>
      \/ /\ q # <<>> /\ Transmit(n, Head(q)) /\ ifq' = [ifq EXCEPT ![n] = Tail(q)]
         /\ blocked' = [blocked EXCEPT ![n] = TRUE]
  BY DEF ToQueue
<1> HIDE DEF q
<1>f. /\ Flow(n, setup.rfid, seqno[n], Tail(sched[n]), q, Rx(n), arp[n])
      /\ Pkts(sched[n]) = {p} \cup Pkts(Tail(sched[n]))
  <2>1. setup.rfid \in BOOLEAN
    BY <1>t, SetupTypes
  <2> QED
    BY <2>1, <1>t, <1>0, <1>q, FlowEnque
<1> HIDE DEF p
<1>u. /\ ToSet(q) \cup Pkts(Tail(sched[n])) \subseteq ToSet(ifq[n]) \cup Pkts(sched[n])
      /\ ~dropped' => /\ ~dropped
                      /\ ToSet(q) \cup Pkts(Tail(sched[n])) = ToSet(ifq[n]) \cup Pkts(sched[n])
  BY <1>0, <1>q, <1>f
<1>r. ReaderKnows' /\ Numbered' /\ \A m, d \in Nodes : arp'[m][d].up => arp'[m][d].hold = None
  BY <1>0 DEF LinkInv, ReaderKnows, Numbered, NothingStranded
<1>1. CASE /\ blocked[n] \/ q = <<>>
           /\ ifq' = [ifq EXCEPT ![n] = q] /\ UNCHANGED <<blocked, rx, faults>>
  <2>s. /\ ifq' \in [Nodes -> Seq(Packets)] /\ sched' \in [Nodes -> Seq(SchedEntry)]
        /\ ifq'[n] = q /\ sched'[n] = Tail(sched[n])
        /\ \A o \in Nodes \ {n} : ifq'[o] = ifq[o] /\ sched'[o] = sched[o]
    BY <1>0, <1>1, <1>t, <1>q, <1>f DEF TypeOK, Flow, FlowTypes, SchedEntry
  <2>1. TypeOK'
    BY <2>s, <1>0, <1>1, <1>t DEF TypeOK, SchedEntry
  <2>2. Flows'
    <3>1. \A o \in Nodes \ {n} :
            /\ sched'[o] = sched[o] /\ ifq'[o] = ifq[o] /\ arp'[o] = arp[o]
            /\ seqno'[o] = seqno[o] /\ \A m \in Nodes : rx'[m][o] = rx[m][o]
      BY <2>s, <1>0, <1>1
    <3>2. Flow(n, setup.rfid, seqno'[n], sched'[n], ifq'[n], Rx(n)', arp'[n])
      BY <2>s, <1>0, <1>1, <1>f DEF Rx
    <3>3. Flows /\ setup' = setup
      BY <1>0 DEF LinkInv
    <3> QED
      BY <3>1, <3>2, <3>3, FlowsOfOne
  <2>3. NothingStranded'
    BY <2>s, <1>1, <1>r DEF LinkInv, NothingStranded
  <2>4. ASSUME NEW a \in Nodes, NEW d \in Nodes
        PROVE  /\ UnderWay(a, d)' \subseteq UnderWay(a, d)
               /\ ~dropped' => UnderWay(a, d) = UnderWay(a, d)'
    <3>1. /\ Queued(a)' = ToSet(ifq'[a]) \cup Pkts(sched'[a])
          /\ Queued(a) = ToSet(ifq[a]) \cup Pkts(sched[a])
      BY DEF Queued, Pkts
    <3>2. Queued(a)' \subseteq Queued(a) /\ (~dropped' => Queued(a)' = Queued(a))
      BY <3>1, <2>s, <1>u
    <3> QED
      BY <3>2, <1>0, <1>1 DEF UnderWay
  <2>5. HeldAwaitsArp'
    BY <2>4, <1>0, <1>1, <1>u, HeldKept
  <2>6. Fifo!Next
    <3>1. sent \in [Channels -> Nat]
      BY <1>t DEF TypeOK
    <3>2. \A c \in Channels : c[1] \in Nodes /\ c[2] \in Nodes
      BY DEF Channels
    <3> QED
      BY <3>1, <3>2, <2>4, <1>0, QuietStep
  <2> QED
    BY <2>1, <2>2, <2>3, <2>5, <2>6, <1>r DEF LinkInv
<1>2. CASE /\ q # <<>> /\ Transmit(n, Head(q)) /\ ifq' = [ifq EXCEPT ![n] = Tail(q)]
           /\ blocked' = [blocked EXCEPT ![n] = TRUE]
  <2>1. /\ rx' \in [Nodes -> [Nodes -> Seq(Packets)]] /\ faults' \in 0 .. setup.faults
        /\ ifq' \in [Nodes -> Seq(Packets)] /\ sched' \in [Nodes -> Seq(SchedEntry)]
        /\ Flows' /\ HeldAwaitsArp' /\ Fifo!Next
    BY <1>0, <1>2, <1>f, <1>u, Handover
  <2>2. TypeOK'
    BY <2>1, <1>0, <1>2, <1>t DEF TypeOK, SchedEntry
  <2>3. NothingStranded'
    BY <1>2, <1>r, <1>t DEF LinkInv, NothingStranded, TypeOK
  <2> QED
    BY <2>1, <2>2, <2>3, <1>r DEF LinkInv
<1> QED
  BY <1>c, <1>1, <1>2

LEMMA ResumeStep ==
  ASSUME LinkInv, NEW n \in Nodes, Resume(n)
  PROVE  LinkInv' /\ Fifo!Next
<1>t. TypeOK /\ Flow(n, setup.rfid, seqno[n], sched[n], ifq[n], Rx(n), arp[n])
  BY DEF LinkInv, Flows
<1>0. UNCHANGED <<setup, arp, sched, seqno, routing, resets, sent, got, dropped>>
  BY DEF Resume
<1>r. ReaderKnows' /\ Numbered' /\ \A m, d \in Nodes : arp'[m][d].up => arp'[m][d].hold = None
  BY <1>0 DEF LinkInv, ReaderKnows, Numbered, NothingStranded
<1>1. CASE /\ ifq[n] = <<>>
           /\ blocked' = [blocked EXCEPT ![n] = FALSE] /\ UNCHANGED <<ifq, rx, faults>>
  <2>1. TypeOK'
    BY <1>0, <1>1, <1>t DEF TypeOK
  <2>2. Flows'
    BY <1>0, <1>1 DEF LinkInv, Flows, Rx
  <2>3. NothingStranded'
    BY <1>1, <1>r, <1>t DEF LinkInv, NothingStranded, TypeOK
  <2>4. HeldAwaitsArp'
    BY <1>0, <1>1 DEF LinkInv, HeldAwaitsArp, UnderWay, Queued
  <2>5. Fifo!Next
    <3>1. sent \in [Channels -> Nat]
      BY <1>t DEF TypeOK
    <3> QED
      BY <3>1, <1>0, <1>1, QuietStep DEF UnderWay, Queued
  <2> QED
    BY <2>1, <2>2, <2>3, <2>4, <2>5, <1>r DEF LinkInv
<1>2. CASE /\ ifq[n] # <<>> /\ Transmit(n, Head(ifq[n]))
           /\ ifq' = [ifq EXCEPT ![n] = Tail(ifq[n])] /\ UNCHANGED blocked
  <2>0. sched' = [sched EXCEPT ![n] = sched[n]]
    BY <1>0, <1>t DEF TypeOK
  <2>1. /\ rx' \in [Nodes -> [Nodes -> Seq(Packets)]] /\ faults' \in 0 .. setup.faults
        /\ ifq' \in [Nodes -> Seq(Packets)] /\ Flows' /\ HeldAwaitsArp' /\ Fifo!Next
    BY <2>0, <1>0, <1>2, <1>t, Handover
  <2>2. TypeOK'
    BY <2>1, <1>0, <1>2, <1>t DEF TypeOK
  <2>3. NothingStranded'
    BY <1>2, <1>r, <1>t DEF LinkInv, NothingStranded, TypeOK
  <2> QED
    BY <2>1, <2>2, <2>3, <1>r DEF LinkInv
<1> QED
  BY <1>1, <1>2 DEF Resume

LEMMA SendRoutingStep ==
  ASSUME LinkInv, NEW n \in Nodes, SendRouting(n)
  PROVE  LinkInv' /\ Fifo!Next
<1> DEFINE p == Packet("RTR", n, Everyone, 0, None)
           s == Append(sched[n], [pkt |-> p, byArp |-> FALSE])
<1>t. TypeOK /\ Flow(n, setup.rfid, seqno[n], sched[n], ifq[n], Rx(n), arp[n])
  BY DEF LinkInv, Flows
<1>0. /\ ~setup.rfid /\ routing < setup.routing /\ routing' = routing + 1
      /\ sched' = [sched EXCEPT ![n] = s]
      /\ UNCHANGED <<setup, arp, ifq, blocked, rx, seqno, faults, resets, sent, got, dropped>>
  BY DEF SendRouting, LLSchedules
<1>p. p \in Packets /\ p.type = "RTR" /\ Shape(n, seqno[n], p) /\ ~p.error
  BY LinkAssumption DEF Packet, Packets, Shape
<1> HIDE DEF p
<1>f. Flow(n, setup.rfid, seqno[n], s, ifq[n], Rx(n), arp[n]) /\ Pkts(s) = Pkts(sched[n]) \cup {p}
  <2>1. setup.rfid \in BOOLEAN /\ seqno[n] \in Nat /\ seqno[n] <= seqno[n]
    BY <1>t, SetupTypes DEF Flow, FlowTypes
  <2> QED
    BY <2>1, <1>t, <1>0, <1>p, FlowSchedule, LinkAssumption
<1> HIDE DEF s
<1>r. ReaderKnows' /\ Numbered' /\ NothingStranded'
  BY <1>0 DEF LinkInv, ReaderKnows, Numbered, NothingStranded
<1>s. /\ sched' \in [Nodes -> Seq(SchedEntry)] /\ sched'[n] = s
      /\ \A o \in Nodes \ {n} : sched'[o] = sched[o]
  BY <1>0, <1>t, <1>f DEF TypeOK, Flow, FlowTypes, SchedEntry
<1>1. TypeOK'
  <2>1. routing' \in 0 .. setup.routing
    <3>1. setup.routing \in Nat
      BY <1>t, SetupTypes
    <3>2. routing \in 0 .. setup.routing
      BY <1>t DEF TypeOK
    <3> QED
      BY <3>1, <3>2, <1>0
  <2> QED
    BY <2>1, <1>0, <1>s, <1>t DEF TypeOK, SchedEntry
<1>2. Flows'
  <2>1. \A o \in Nodes \ {n} :
          /\ sched'[o] = sched[o] /\ ifq'[o] = ifq[o] /\ arp'[o] = arp[o]
          /\ seqno'[o] = seqno[o] /\ \A m \in Nodes : rx'[m][o] = rx[m][o]
    BY <1>s, <1>0
  <2>2. Flow(n, setup.rfid, seqno'[n], sched'[n], ifq'[n], Rx(n)', arp'[n])
    BY <1>s, <1>0, <1>f DEF Rx
  <2>3. Flows /\ setup' = setup
    BY <1>0 DEF LinkInv
  <2> QED
    BY <2>1, <2>2, <2>3, FlowsOfOne
<1>4. ASSUME NEW a \in Nodes, NEW d \in Nodes
      PROVE  UnderWay(a, d) \subseteq UnderWay(a, d)' /\ UnderWay(a, d)' \subseteq UnderWay(a, d) \cup {p}
  <2>1. /\ Queued(a)' = ToSet(ifq[a]) \cup Pkts(sched'[a])
        /\ Queued(a) = ToSet(ifq[a]) \cup Pkts(sched[a])
    BY <1>0 DEF Queued, Pkts
  <2>2. Queued(a) \subseteq Queued(a)' /\ Queued(a)' \subseteq Queued(a) \cup {p}
    BY <2>1, <1>s, <1>f
  <2> QED
    BY <2>2, <1>0 DEF UnderWay
<1>5. HeldAwaitsArp'
  BY <1>4, <1>0, HeldKept
<1>6. Fifo!Next
  <2>1. sent \in [Channels -> Nat]
    BY <1>t DEF TypeOK
  <2>2. \A c \in Channels : c[1] \in Nodes /\ c[2] \in Nodes /\ ~Uses(p, c)
    BY <1>p DEF Channels, Uses
  <2> QED
    BY <2>1, <2>2, <1>4, <1>0, QuietStep
<1> QED
  BY <1>1, <1>2, <1>5, <1>6, <1>r DEF LinkInv

LEMMA ResetStep ==
  ASSUME LinkInv, NEW n \in Nodes, Reset(n)
  PROVE  LinkInv' /\ Fifo!Next
<1>t. TypeOK /\ Flow(n, setup.rfid, seqno[n], sched[n], ifq[n], Rx(n), arp[n])
  BY DEF LinkInv, Flows
<1>0. /\ resets < setup.resets /\ resets' = resets + 1
      /\ arp' = [arp EXCEPT ![n] = [d \in Nodes |-> [arp[n][d] EXCEPT !.hold = None]]]
      /\ ifq' = [ifq EXCEPT ![n] = <<>>]
      /\ UNCHANGED <<setup, sched, blocked, rx, seqno, routing, faults, sent, got, dropped>>
  BY DEF Reset
<1>a. arp \in [Nodes -> [Nodes -> [up : BOOLEAN, hold : Packets \cup {None},
                                   count : 0 .. setup.requests]]]
  BY <1>t DEF TypeOK
<1>b. /\ arp' \in [Nodes -> [Nodes -> [up : BOOLEAN, hold : Packets \cup {None},
                                       count : 0 .. setup.requests]]]
      /\ arp'[n] \in [Nodes -> ArpEntry]
      /\ \A d \in Nodes : arp'[n][d].hold = None /\ arp'[n][d].up = arp[n][d].up
      /\ \A o \in Nodes \ {n} : arp'[o] = arp[o]
  <2>1. ASSUME NEW d \in Nodes
        PROVE  LET e == [arp[n][d] EXCEPT !.hold = None] IN
               /\ e \in [up : BOOLEAN, hold : Packets \cup {None}, count : 0 .. setup.requests]
               /\ e \in ArpEntry /\ e.hold = None /\ e.up = arp[n][d].up
    <3>1. arp[n][d] \in [up : BOOLEAN, hold : Packets \cup {None}, count : 0 .. setup.requests]
      BY <1>a
    <3> QED
      BY <3>1 DEF ArpEntry
  <2>2. arp'[n] = [d \in Nodes |-> [arp[n][d] EXCEPT !.hold = None]]
    BY <1>0, <1>a
  <2>3. arp'[n] \in [Nodes -> [up : BOOLEAN, hold : Packets \cup {None},
                               count : 0 .. setup.requests]]
    BY <2>1, <2>2
  <2>4. arp' = [arp EXCEPT ![n] = arp'[n]]
    BY <1>0, <2>2
  <2>5. arp'[n] \in [Nodes -> ArpEntry]
    BY <2>1, <2>2
  <2>6. \A d \in Nodes : arp'[n][d].hold = None /\ arp'[n][d].up = arp[n][d].up
    BY <2>1, <2>2
  <2>7. arp' \in [Nodes -> [Nodes -> [up : BOOLEAN, hold : Packets \cup {None},
                                     count : 0 .. setup.requests]]]
    BY <2>3, <2>4, <1>a
  <2>8. \A o \in Nodes \ {n} : arp'[o] = arp[o]
    BY <2>4, <1>a
  <2> QED
    BY <2>5, <2>6, <2>7, <2>8
<1>i. ifq' \in [Nodes -> Seq(Packets)] /\ ifq'[n] = <<>> /\ \A o \in Nodes \ {n} : ifq'[o] = ifq[o]
  BY <1>0, <1>t DEF TypeOK
<1>1. TypeOK'
  <2>1. resets' \in 0 .. setup.resets
    <3>1. setup.resets \in Nat
      BY <1>t, SetupTypes
    <3>2. resets \in 0 .. setup.resets
      BY <1>t DEF TypeOK
    <3> QED
      BY <3>1, <3>2, <1>0
  <2> QED
    BY <2>1, <1>0, <1>b, <1>i, <1>t DEF TypeOK
<1>2. Flows'
  <2>1. \A o \in Nodes \ {n} :
          /\ sched'[o] = sched[o] /\ ifq'[o] = ifq[o] /\ arp'[o] = arp[o]
          /\ seqno'[o] = seqno[o] /\ \A m \in Nodes : rx'[m][o] = rx[m][o]
    BY <1>b, <1>i, <1>0
  <2>2. Flow(n, setup.rfid, seqno'[n], sched'[n], ifq'[n], Rx(n)', arp'[n])
    <3>1. setup.rfid \in BOOLEAN /\ seqno[n] \in Nat /\ seqno[n] <= seqno[n]
      BY <1>t, SetupTypes DEF Flow, FlowTypes
    <3>2. Flow(n, setup.rfid, seqno[n], sched[n], <<>>, Rx(n), arp[n])
      BY <3>1, <1>t, FlowPurge
    <3>3. \A d \in Nodes : /\ arp[n][d].up => arp'[n][d].up
                           /\ arp'[n][d].up => arp'[n][d].hold = None
                           /\ arp'[n][d].hold \in {arp[n][d].hold, None}
      BY <1>b
    <3>4. Flow(n, setup.rfid, seqno[n], sched[n], <<>>, Rx(n), arp'[n])
      BY <3>1, <3>2, <3>3, <1>b, FlowEntry
    <3> QED
      BY <3>4, <1>i, <1>0 DEF Rx
  <2>3. Flows /\ setup' = setup
    BY <1>0 DEF LinkInv
  <2> QED
    BY <2>1, <2>2, <2>3, FlowsOfOne
<1>u. \A o, d \in Nodes : arp'[o][d].up = arp[o][d].up /\ arp'[o][d].hold \in {arp[o][d].hold, None}
  BY <1>b
<1>3. ReaderKnows' /\ Numbered' /\ NothingStranded'
  <2>1. ReaderKnows'
    BY <1>u, <1>0, LinkAssumption DEF LinkInv, ReaderKnows
  <2>2. Numbered'
    BY <1>0 DEF LinkInv, Numbered
  <2>3. NothingStranded'
    BY <1>u, <1>i, <1>0 DEF LinkInv, NothingStranded
  <2> QED
    BY <2>1, <2>2, <2>3
<1>4. HeldAwaitsArp'
  <2>1. setup.resets \in Nat
    BY <1>t, SetupTypes
  <2>2. resets \in 0 .. setup.resets
    BY <1>t DEF TypeOK
  <2>3. resets' # 0
    BY <2>1, <2>2, <1>0
  <2> QED
    BY <2>3 DEF HeldAwaitsArp
<1>5. Fifo!Next
  <2>1. sent \in [Channels -> Nat]
    BY <1>t DEF TypeOK
  <2>2. ASSUME NEW a \in Nodes, NEW d \in Nodes PROVE UnderWay(a, d)' \subseteq UnderWay(a, d)
    <3>1. ToSet(ifq'[a]) \subseteq ToSet(ifq[a])
      BY <1>i DEF ToSet
    <3> QED
      BY <3>1, <1>u, <1>0 DEF UnderWay, Queued
  <2>3. \A c \in Channels : c[1] \in Nodes /\ c[2] \in Nodes
    BY DEF Channels
  <2> QED
    BY <2>1, <2>2, <2>3, <1>0, QuietStep
<1> QED
  BY <1>1, <1>2, <1>3, <1>4, <1>5 DEF LinkInv

\* What ARP schedules, in the terms of the flow
ArpEntries(ps) == [j \in 1 .. Len(ps) |-> [pkt |-> ps[j], byArp |-> TRUE]]

LEMMA ArpEntriesPkts ==
  ASSUME NEW ps \in Seq(Packets)
  PROVE  ArpEntries(ps) \in Seq(SchedEntry) /\ Pkts(ArpEntries(ps)) = ToSet(ps)
<1> DEFINE es == ArpEntries(ps)
<1>0. Len(ps) \in Nat /\ (\A j \in 1 .. Len(ps) : ps[j] \in Packets)
      /\ ToSet(ps) = {ps[j] : j \in 1 .. Len(ps)}
  BY SetOfSeq
<1>1. DOMAIN es = 1 .. Len(ps) /\ \A j \in 1 .. Len(ps) : es[j] \in SchedEntry /\ es[j].pkt = ps[j]
  BY <1>0 DEF ArpEntries, SchedEntry
<1>2. es \in Seq(SchedEntry)
  <2>1. \A j \in 1 .. Len(ps) : [pkt |-> ps[j], byArp |-> TRUE] \in SchedEntry
    BY <1>0 DEF SchedEntry
  <2> QED
    BY <2>1, <1>0 DEF ArpEntries
<1>3. ToSet(es) = {es[j] : j \in 1 .. Len(ps)}
  BY <1>1 DEF ToSet
<1> HIDE DEF es
<1>4. Pkts(es) = ToSet(ps)
  BY <1>0, <1>1, <1>3 DEF Pkts
<1> QED
  BY <1>2, <1>4 DEF es

LEMMA ArpSchedulesInsert ==
  ASSUME NEW n \in Nodes, NEW ps, NEW s \in ArpSchedules(n, ps)
  PROVE  \E i \in 0 .. Len(sched[n]) : s = Insert(sched[n], ArpEntries(ps), i)
  BY DEF ArpSchedules, ArpEntries, Insert

\* An agent sends packet p.
LEMMA SendAccepts ==
  ASSUME LinkInv, NEW n \in Nodes, NEW p, p.src = n, p.seq = seqno[n] + 1,
         setup' = setup, got' = got,
         sent' = [c \in Channels |-> IF Uses(p, c) THEN p.seq ELSE sent[c]],
         seqno' = [seqno EXCEPT ![n] = seqno[n] + 1],
         \A c \in Channels : \A x \in UnderWay(c[1], c[2])' :
           x.error \/ ~Uses(x, c) \/ x = p \/ x \in UnderWay(c[1], c[2])
  PROVE  /\ Numbered' /\ Fifo!Next /\ sent' \in [Channels -> Nat]
         /\ \A o \in Nodes : seqno'[o] = IF o = n THEN seqno[n] + 1 ELSE seqno[o]
<1>t. /\ sent \in [Channels -> Nat] /\ \A o \in Nodes : seqno[o] \in Nat
  <2>1. \A o \in Nodes : seqno[o] \in Nat
    BY DEF LinkInv, Flows, Flow, FlowTypes
  <2> QED
    BY <2>1 DEF LinkInv, TypeOK
<1>q. \A o \in Nodes : seqno'[o] = IF o = n THEN seqno[n] + 1 ELSE seqno[o]
  BY DEF LinkInv, TypeOK
<1>1. ASSUME NEW c \in Channels
      PROVE  /\ sent[c] \in Nat /\ sent[c] <= seqno[c[1]] /\ c[1] \in Nodes
             /\ Uses(p, c) => c[1] = n
             /\ sent'[c] = IF Uses(p, c) THEN seqno[n] + 1 ELSE sent[c]
  BY <1>t DEF LinkInv, Numbered, Uses, Channels
<1>2. Numbered'
  <2> SUFFICES ASSUME NEW c \in Channels PROVE sent'[c] <= seqno'[c[1]]
    BY DEF Numbered
  <2>1. seqno[c[1]] \in Nat /\ seqno[n] \in Nat
    BY <1>t, <1>1
  <2>2. CASE Uses(p, c)
    BY <2>1, <2>2, <1>1, <1>q
  <2>3. CASE ~Uses(p, c)
    BY <2>1, <2>3, <1>1, <1>q
  <2> QED
    BY <2>2, <2>3
<1>3. ASSUME NEW c \in Channels PROVE Fifo!Accept(c)
  <2>1. transit'[c] \subseteq transit[c] \cup ({sent'[c]} \ {sent[c]})
    <3> SUFFICES ASSUME NEW x \in UnderWay(c[1], c[2])', Uses(x, c)', ~x.error
                 PROVE  x.seq \in transit[c] \cup ({sent'[c]} \ {sent[c]})
      BY DEF transit
    <3>1. Uses(x, c)
      BY DEF Uses, Cast
    <3>2. CASE x \in UnderWay(c[1], c[2])
      BY <3>1, <3>2 DEF transit
    <3>3. CASE x = p
      <4>1. sent'[c] = seqno[n] + 1 /\ sent[c] <= seqno[n] /\ sent[c] \in Nat /\ seqno[n] \in Nat
        BY <3>1, <3>3, <1>1, <1>t
      <4>2. sent'[c] # sent[c]
        BY <4>1
      <4> QED
        BY <4>1, <4>2, <3>3
    <3> QED
      BY <3>1, <3>2, <3>3
  <2>2. sent'[c] >= sent[c]
    <3>1. seqno[n] \in Nat
      BY <1>t
    <3>2. CASE Uses(p, c)
      BY <3>1, <3>2, <1>1
    <3>3. CASE ~Uses(p, c)
      BY <3>3, <1>1
    <3> QED
      BY <3>2, <3>3
  <2> QED
    BY <2>1, <2>2 DEF Fifo!Accept
<1>4. sent' \in [Channels -> Nat]
  BY <1>1, <1>t
<1> QED
  BY <1>2, <1>3, <1>4, <1>q DEF Fifo!Next

LEMMA SendStep ==
  ASSUME LinkInv, NEW n \in Nodes, NEW d \in (Nodes \cup {Everyone}) \ {n}, Send(n, d)
  PROVE  LinkInv' /\ Fifo!Next
<1> DEFINE p == Packet("IP", n, d, seqno[n] + 1, None)
           k == seqno[n]
           Entries == [up : BOOLEAN, hold : Packets \cup {None}, count : 0 .. setup.requests]
<1>t. TypeOK /\ Flow(n, setup.rfid, k, sched[n], ifq[n], Rx(n), arp[n])
  BY DEF LinkInv, Flows
<1>k. setup.rfid \in BOOLEAN /\ k \in Nat /\ k + 1 \in Nat /\ k <= k + 1 /\ setup.requests \in Nat
  <2>1. k \in Nat
    BY <1>t, StateTypes
  <2> QED
    BY <2>1, <1>t, SetupTypes
<1>0. /\ k < setup.sent[n] /\ (setup.rfid => RfidSends(n, d))
      /\ seqno' = [seqno EXCEPT ![n] = k + 1]
      /\ sent' = [c \in Channels |-> IF Uses(p, c) THEN p.seq ELSE sent[c]]
      /\ UNCHANGED <<setup, ifq, blocked, rx, routing, faults, resets, got>>
  BY DEF Send
<1>p. /\ p \in Packets /\ p.type = "IP" /\ p.src = n /\ p.dst = d /\ p.seq = k + 1 /\ ~p.error
      /\ Shape(n, k + 1, p)
  BY <1>k DEF Packet, Packets, Shape
<1>a. arp \in [Nodes -> [Nodes -> Entries]] /\ arp[n] \in [Nodes -> Entries]
  BY <1>t DEF TypeOK
<1> HIDE DEF p, k, Entries
\* A reader acknowledges only tags whose address it knows.
<1>r. setup.rfid => /\ n # Reader => d = Reader
                    /\ n = Reader /\ d \in Nodes => arp[n][d].up
  <2> SUFFICES ASSUME setup.rfid
               PROVE  (n # Reader => d = Reader) /\ (n = Reader /\ d \in Nodes => arp[n][d].up)
    OBVIOUS
  <2>1. RfidSends(n, d)
    BY <1>0
  <2>2. ASSUME n = Reader, d \in Nodes PROVE arp[n][d].up
    <3>1. got[<<d, Reader, "RFID">>] > 0
      BY <2>1, <2>2, LinkAssumption DEF RfidSends
    <3> QED
      BY <2>2, <3>1 DEF LinkInv, ReaderKnows
  <2> QED
    BY <2>1, <2>2 DEF RfidSends
<1>g. ASSUME arp' \in [Nodes -> [Nodes -> Entries]],
             sched' \in [Nodes -> Seq(SchedEntry)], dropped' \in BOOLEAN,
             \A o \in Nodes \ {n} : sched'[o] = sched[o] /\ arp'[o] = arp[o],
             \A b \in Nodes : arp'[n][b].up = arp[n][b].up,
             Flow(n, setup.rfid, k + 1, sched'[n], ifq[n], Rx(n), arp'[n]),
             HeldAwaitsArp',
             \A b \in Nodes : \A x \in UnderWay(n, b)' :
               x = p \/ x.type # "IP" \/ x \in UnderWay(n, b)
      PROVE  LinkInv' /\ Fifo!Next
  <2>0. \A o \in Nodes : seqno'[o] = IF o = n THEN k + 1 ELSE seqno[o]
    BY <1>t, <1>0 DEF TypeOK
  <2>1. Numbered' /\ Fifo!Next /\ sent' \in [Channels -> Nat]
    <3>1. ASSUME NEW c \in Channels, NEW x \in UnderWay(c[1], c[2])'
          PROVE  x.error \/ ~Uses(x, c) \/ x = p \/ x \in UnderWay(c[1], c[2])
      <4>1. c[1] \in Nodes /\ c[2] \in Nodes
        BY DEF Channels
      <4>2. CASE c[1] = n
        BY <4>1, <4>2, <1>g, <3>1 DEF Uses
      <4>3. CASE c[1] # n
        BY <4>1, <4>3, <1>g, <1>0, <3>1 DEF UnderWay, Queued
      <4> QED
        BY <4>2, <4>3
    <3>2. seqno' = [seqno EXCEPT ![n] = seqno[n] + 1] /\ p.seq = seqno[n] + 1
      BY <1>0, <1>p DEF k
    <3>3. /\ setup' = setup /\ got' = got /\ p.src = n
          /\ sent' = [c \in Channels |-> IF Uses(p, c) THEN p.seq ELSE sent[c]]
      BY <1>0, <1>p
    <3> QED
      BY <3>1, <3>2, <3>3, SendAccepts
  <2>2. TypeOK'
    <3>1. seqno' \in [Nodes -> Nat] /\ \A o \in Nodes : seqno'[o] <= setup.sent[o]
      <4>1. seqno' \in [Nodes -> Nat]
        BY <1>t, <1>0, <1>k DEF TypeOK
      <4>2. setup.sent[n] \in Nat
        BY <1>t, SetupTypes
      <4>3. k + 1 <= setup.sent[n]
        BY <4>2, <1>0, <1>k
      <4>4. \A o \in Nodes : seqno[o] <= setup.sent[o]
        BY <1>t DEF TypeOK
      <4> QED
        BY <4>1, <4>3, <4>4, <2>0
    <3> QED
      BY <3>1, <2>1, <1>g, <1>0, <1>t DEF TypeOK, Entries, SchedEntry
  <2>3. Flows'
    <3>1. \A o \in Nodes \ {n} :
            /\ sched'[o] = sched[o] /\ ifq'[o] = ifq[o] /\ arp'[o] = arp[o]
            /\ seqno'[o] = seqno[o] /\ \A m \in Nodes : rx'[m][o] = rx[m][o]
      BY <2>0, <1>g, <1>0
    <3>2. Rx(n)' = Rx(n) /\ ifq'[n] = ifq[n] /\ seqno'[n] = k + 1
      BY <2>0, <1>0 DEF Rx
    <3>3. Flow(n, setup.rfid, seqno'[n], sched'[n], ifq'[n], Rx(n)', arp'[n])
      BY <3>2, <1>g
    <3>4. Flows /\ setup' = setup
      BY <1>0 DEF LinkInv
    <3> QED
      BY <3>1, <3>3, <3>4, FlowsOfOne
  <2>u. \A o, b \in Nodes : arp'[o][b].up = arp[o][b].up
    BY <1>g
  <2>4. ReaderKnows'
    BY <2>u, <1>0, LinkAssumption DEF LinkInv, ReaderKnows
  <2>5. NothingStranded'
    <3>1. \A b \in Nodes : arp'[n][b].up => arp'[n][b].hold = None
      BY <1>g DEF Flow, Resolved
    <3>2. \A o, b \in Nodes : arp'[o][b].up => arp'[o][b].hold = None
      <4>1. \A o, b \in Nodes : arp[o][b].up => arp[o][b].hold = None
        BY DEF LinkInv, NothingStranded
      <4>2. \A o \in Nodes \ {n} : arp'[o] = arp[o]
        BY <1>g
      <4> QED
        BY <3>1, <4>1, <4>2
    <3> QED
      BY <3>2, <1>0 DEF LinkInv, NothingStranded
  <2> QED
    BY <2>1, <2>2, <2>3, <2>4, <2>5, <1>g DEF LinkInv
\* The packet is scheduled.
<1>1. ASSUME d = Everyone \/ arp[n][d].up, sched' = [sched EXCEPT ![n] = LLSchedules(n, p)],
             UNCHANGED <<arp, dropped>>
      PROVE  LinkInv' /\ Fifo!Next
  <2> DEFINE s == Append(sched[n], [pkt |-> p, byArp |-> FALSE])
  <2>k. setup.rfid \in BOOLEAN /\ k + 1 \in Nat /\ k <= k + 1
    BY <1>k
  <2>1. Flow(n, setup.rfid, k + 1, s, ifq[n], Rx(n), arp[n]) /\ Pkts(s) = Pkts(sched[n]) \cup {p}
    <3>1. p.type \in {"IP", "RTR"} /\ (p.type = "IP" => p.seq > k)
      BY <1>p, <1>k
    <3>2. setup.rfid /\ n # Reader => (p.type = "IP" => p.dst = Reader)
      BY <1>r, <1>p
    <3>3. p.type = "IP" => p.dst = Everyone \/ arp[n][p.dst].up
      BY <1>1, <1>p
    <3>4. p \in Packets /\ Shape(n, k + 1, p) /\ ~p.error /\ Everyone \notin Nodes
      BY <1>p, LinkAssumption
    <3>5. Flow(n, setup.rfid, k, sched[n], ifq[n], Rx(n), arp[n])
      BY <1>t
    <3> QED
      BY <3>1, <3>2, <3>3, <3>4, <3>5, <2>k, FlowSchedule
  <2>2. sched' = [sched EXCEPT ![n] = s]
    BY <1>1 DEF LLSchedules
  <2> HIDE DEF s
  <2>3. /\ sched' \in [Nodes -> Seq(SchedEntry)] /\ sched'[n] = s
        /\ \A o \in Nodes \ {n} : sched'[o] = sched[o]
    BY <2>1, <2>2, <1>t DEF TypeOK, Flow, FlowTypes, SchedEntry
  <2>4. ASSUME NEW a \in Nodes, NEW b \in Nodes
        PROVE  /\ UnderWay(a, b) \subseteq UnderWay(a, b)'
               /\ a = n => UnderWay(a, b)' \subseteq UnderWay(a, b) \cup {p}
    <3>1. /\ Queued(a)' = ToSet(ifq[a]) \cup Pkts(sched'[a])
          /\ Queued(a) = ToSet(ifq[a]) \cup Pkts(sched[a])
      BY <1>0 DEF Queued, Pkts
    <3>2. Queued(a) \subseteq Queued(a)' /\ (a = n => Queued(a)' \subseteq Queued(a) \cup {p})
      BY <3>1, <2>1, <2>3
    <3> QED
      BY <3>2, <1>0, <1>1 DEF UnderWay
  <2>5. HeldAwaitsArp'
    BY <2>4, <1>0, <1>1, HeldKept
  <2>6. dropped' \in BOOLEAN /\ arp' \in [Nodes -> [Nodes -> Entries]]
    BY <1>1, <1>t, <1>a DEF TypeOK
  <2>7. Flow(n, setup.rfid, k + 1, sched'[n], ifq[n], Rx(n), arp'[n])
    BY <2>1, <2>3, <1>1
  <2>8. /\ \A o \in Nodes \ {n} : sched'[o] = sched[o] /\ arp'[o] = arp[o]
        /\ \A b \in Nodes : arp'[n][b].up = arp[n][b].up
        /\ \A b \in Nodes : \A x \in UnderWay(n, b)' :
             x = p \/ x.type # "IP" \/ x \in UnderWay(n, b)
    BY <2>3, <2>4, <1>1
  <2> QED
    BY <2>3, <2>5, <2>6, <2>7, <2>8, <1>g
\* ARP gives up.
<1>2. ASSUME d \in Nodes, ~arp[n][d].up, dropped' = TRUE, sched' = sched,
             arp' = [arp EXCEPT ![n][d].count = 0, ![n][d].hold = None]
      PROVE  LinkInv' /\ Fifo!Next
  <2>1. /\ arp' \in [Nodes -> [Nodes -> Entries]] /\ arp'[n] \in [Nodes -> ArpEntry]
        /\ \A o \in Nodes \ {n} : arp'[o] = arp[o]
        /\ \A b \in Nodes : arp'[n][b].up = arp[n][b].up /\ arp'[n][b].hold \in {arp[n][b].hold, None}
    <3> DEFINE e == [arp[n][d] EXCEPT !.count = 0, !.hold = None]
    <3>0. arp[n][d] \in Entries
      BY <1>2, <1>a
    <3>1. e \in Entries /\ e.up = arp[n][d].up /\ e.hold = None
      <4>1. 0 \in 0 .. setup.requests
        BY <1>k
      <4> QED
        BY <4>1, <3>0 DEF Entries
    <3>2. arp' = [arp EXCEPT ![n] = [arp[n] EXCEPT ![d] = e]]
      BY <1>2, <1>a
    <3> HIDE DEF e
    <3>3. arp'[n] = [arp[n] EXCEPT ![d] = e] /\ arp'[n] \in [Nodes -> Entries]
      BY <3>1, <3>2, <1>a
    <3>4. Entries \subseteq ArpEntry
      BY <1>k DEF Entries, ArpEntry
    <3> QED
      BY <3>1, <3>2, <3>3, <3>4, <1>a
  <2>2. Flow(n, setup.rfid, k + 1, sched'[n], ifq[n], Rx(n), arp'[n])
    <3>1. \A b \in Nodes : arp'[n][b].up => arp'[n][b].hold = None
      BY <2>1, <1>t DEF Flow, Resolved
    <3>2. \A b \in Nodes : /\ arp[n][b].up => arp'[n][b].up
                           /\ arp'[n][b].up => arp'[n][b].hold = None
                           /\ arp'[n][b].hold \in {arp[n][b].hold, None}
      BY <3>1, <2>1
    <3>3. Flow(n, setup.rfid, k, sched'[n], ifq[n], Rx(n), arp[n])
      BY <1>2, <1>t
    <3>4. arp'[n] \in [Nodes -> ArpEntry]
      BY <2>1
    <3>5. setup.rfid \in BOOLEAN /\ k + 1 \in Nat /\ k <= k + 1
      BY <1>k
    <3> QED
      BY <3>2, <3>3, <3>4, <3>5, FlowEntry
  <2>3. sched' \in [Nodes -> Seq(SchedEntry)] /\ dropped' \in BOOLEAN
    BY <1>2, <1>t DEF TypeOK, SchedEntry
  <2>4. HeldAwaitsArp'
    BY <1>2 DEF HeldAwaitsArp
  <2>5. \A b \in Nodes : UnderWay(n, b)' \subseteq UnderWay(n, b)
    BY <2>1, <1>0, <1>2 DEF UnderWay, Queued
  <2>6. \A o \in Nodes \ {n} : sched'[o] = sched[o] /\ arp'[o] = arp[o]
    BY <2>1, <1>2
  <2> QED
    BY <2>1, <2>2, <2>3, <2>4, <2>5, <2>6, <1>g
\* ARP holds the packet, in place of an older one, and sends a request.
<1>3. ASSUME d \in Nodes, ~arp[n][d].up, arp[n][d].count < setup.requests, dropped' = dropped,
             arp' = [arp EXCEPT ![n][d].count = @ + 1, ![n][d].hold = p],
             NEW s \in ArpSchedules(n, <<Packet("REQ", n, Everyone, 0, p.dst)>>),
             sched' = [sched EXCEPT ![n] = s]
      PROVE  LinkInv' /\ Fifo!Next
  <2> DEFINE q == Packet("REQ", n, Everyone, 0, d)
             ps == <<q>>
  <2>1. /\ arp' \in [Nodes -> [Nodes -> Entries]] /\ arp'[n] \in [Nodes -> ArpEntry]
        /\ \A o \in Nodes \ {n} : arp'[o] = arp[o]
        /\ \A b \in Nodes : arp'[n][b].up = arp[n][b].up
        /\ \A b \in Nodes \ {d} : arp'[n][b] = arp[n][b]
        /\ arp'[n][d].hold = p
    <3> DEFINE e == [arp[n][d] EXCEPT !.count = arp[n][d].count + 1, !.hold = p]
    <3>0. arp[n][d] \in Entries
      BY <1>3, <1>a
    <3>1. e \in Entries /\ e.up = arp[n][d].up /\ e.hold = p
      <4>1. arp[n][d].count + 1 \in 0 .. setup.requests
        BY <3>0, <1>k, <1>3 DEF Entries
      <4> QED
        BY <4>1, <3>0, <1>p DEF Entries
    <3>2. arp' = [arp EXCEPT ![n] = [arp[n] EXCEPT ![d] = e]]
      BY <1>3, <1>a
    <3> HIDE DEF e
    <3>3. arp'[n] = [arp[n] EXCEPT ![d] = e] /\ arp'[n] \in [Nodes -> Entries]
      BY <3>1, <3>2, <1>a
    <3>4. Entries \subseteq ArpEntry
      BY <1>k DEF Entries, ArpEntry
    <3> QED
      BY <3>1, <3>2, <3>3, <3>4, <1>a, <1>3
  <2>2. Flow(n, setup.rfid, k + 1, sched[n], ifq[n], Rx(n), arp'[n])
    <3>1. \A b \in Nodes : arp'[n][b].up => arp'[n][b].hold = None
      BY <2>1, <1>3, <1>t DEF Flow, Resolved
    <3>2. setup.rfid => n # Reader /\ d = Reader
      BY <1>r, <1>3
    <3>3. \A b \in Nodes :
            /\ arp[n][b].up => arp'[n][b].up
            /\ arp'[n][b].up => arp'[n][b].hold = None
            /\ \/ arp'[n][b].hold \in {arp[n][b].hold, None}
               \/ /\ Shape(n, k + 1, arp'[n][b].hold) /\ ~arp'[n][b].hold.error
                  /\ arp'[n][b].hold.type = "IP" /\ arp'[n][b].hold.dst = b
                  /\ setup.rfid => n # Reader /\ b = Reader
      BY <3>1, <3>2, <2>1, <1>p, <1>3
    <3> QED
      BY <3>3, <2>1, <1>k, <1>t, FlowEntry, ZenonT(60)
  <2>q. /\ q \in Packets /\ q.type = "REQ" /\ q.dst = Everyone /\ q.target = d /\ ~q.error
        /\ Shape(n, k + 1, q)
    BY <1>3, LinkAssumption DEF Packet, Packets, Shape
  <2>s. s \in ArpSchedules(n, ps)
    BY <1>3, <1>p
  <2> HIDE DEF q
  <2>e. /\ ps \in Seq(Packets) /\ ToSet(ps) = {q}
        /\ ArpEntries(ps) \in Seq(SchedEntry) /\ Pkts(ArpEntries(ps)) = {q}
        /\ SortedSched(setup.rfid, ArpEntries(ps))
    <3>1. ps \in Seq(Packets) /\ Len(ps) = 1
      BY <2>q
    <3>2. ToSet(ps) = {q}
      BY DEF ToSet
    <3>3. Len(ArpEntries(ps)) = 1
      BY DEF ArpEntries
    <3>4. SortedSched(setup.rfid, ArpEntries(ps))
      BY <3>3 DEF SortedSched
    <3> QED
      BY <3>1, <3>2, <3>4, ArpEntriesPkts
  <2>3. Flow(n, setup.rfid, k + 1, s, ifq[n], Rx(n), arp'[n]) /\ Pkts(s) = Pkts(sched[n]) \cup {q}
    <3>1. PICK i \in 0 .. Len(sched[n]) : s = Insert(sched[n], ArpEntries(ps), i)
      BY <2>s, ArpSchedulesInsert
    <3>2. \A y : ~Clash(setup.rfid, q, y)
      BY <2>q DEF Clash
    <3>3. ~(setup.rfid /\ n = Reader)
      BY <1>r, <1>3
    <3>4. \A x \in Pkts(ArpEntries(ps)) :
            /\ Shape(n, k + 1, x) /\ ~x.error
            /\ x.type = "IP" => x.dst \in Nodes /\ arp'[n][x.dst].up
            /\ \A y \in ToSet(ifq[n]) \cup Pkts(sched[n]) : ~Clash(setup.rfid, x, y)
            /\ \A m \in Nodes : \A y \in ToSet(Rx(n)[m]) : ~Clash(setup.rfid, x, y)
            /\ setup.rfid /\ n # Reader => (x.type = "IP" => x.dst = Reader)
            /\ setup.rfid /\ n = Reader => x.type # "REQ" /\ (x.type = "REP" => arp'[n][x.dst].up)
      BY <2>q, <2>e, <3>2, <3>3
    <3> QED
      BY <2>2, <2>e, <3>1, <3>4, <1>k, FlowArp
  <2> HIDE DEF ps
  <2>4. /\ sched' \in [Nodes -> Seq(SchedEntry)] /\ sched'[n] = s
        /\ \A o \in Nodes \ {n} : sched'[o] = sched[o]
    BY <2>3, <1>3, <1>t DEF TypeOK, Flow, FlowTypes, SchedEntry
  <2>5. ASSUME NEW a \in Nodes, NEW b \in Nodes
        PROVE  /\ \A x \in UnderWay(a, b) : x.type # "IP" => x \in UnderWay(a, b)'
               /\ a = n => UnderWay(a, b)' \subseteq UnderWay(a, b) \cup {p, q}
               /\ a = n => q \in UnderWay(a, b)'
    <3>1. /\ Queued(a)' = ToSet(ifq[a]) \cup Pkts(sched'[a])
          /\ Queued(a) = ToSet(ifq[a]) \cup Pkts(sched[a])
      BY <1>0 DEF Queued, Pkts
    <3>2. /\ Queued(a) \subseteq Queued(a)'
          /\ a = n => Queued(a)' \subseteq Queued(a) \cup {q} /\ q \in Queued(a)'
      BY <3>1, <2>3, <2>4
    <3>3. arp[n][d].hold # None => arp[n][d].hold.type = "IP"
      BY <1>t, <1>3 DEF Flow, Shapes
    <3>4. arp'[a][b].hold \in {arp[a][b].hold, p} /\ (~(a = n /\ b = d) => arp'[a][b] = arp[a][b])
      BY <2>1
    <3>5. a = n => arp'[a][b].hold \in {arp[a][b].hold, p}
      BY <3>4
    <3> QED
      BY <3>2, <3>3, <3>4, <1>0, <1>3 DEF UnderWay
  <2>6. HeldAwaitsArp'
    <3>1. \A a, b \in Nodes : arp'[a][b].hold # None =>
            arp[a][b].hold # None \/ (a = n /\ b = d)
      BY <2>1
    <3>2. \E x \in UnderWay(n, d)' : x.type = "REQ" /\ x.target = d
      BY <2>5, <2>q, <1>3
    <3> QED
      BY <3>1, <3>2, <2>5, <1>0, <1>3, HeldMoves
  <2>7. /\ \A o \in Nodes \ {n} : sched'[o] = sched[o] /\ arp'[o] = arp[o]
        /\ \A b \in Nodes : \A x \in UnderWay(n, b)' :
             x = p \/ x.type # "IP" \/ x \in UnderWay(n, b)
    BY <2>1, <2>4, <2>5, <2>q
  <2>8. dropped' \in BOOLEAN
    BY <1>3, <1>t DEF TypeOK
  <2>9. Flow(n, setup.rfid, k + 1, sched'[n], ifq[n], Rx(n), arp'[n])
    BY <2>3, <2>4
  <2> QED
    BY <2>1, <2>4, <2>6, <2>7, <2>8, <2>9, <1>g
<1>c. CASE d = Everyone
  BY <1>c, <1>1 DEF Send, p
<1>d. CASE d # Everyone
  <2>1. d \in Nodes /\ Resolve(n, p)
    BY <1>d DEF Send, p
  <2>2. CASE arp[n][d].up
    BY <2>1, <2>2, <1>1, <1>p DEF Resolve
  <2>3. CASE ~arp[n][d].up /\ arp[n][d].count >= setup.requests
    <3>1. ~(arp[n][d].count < setup.requests)
      <4>1. arp[n][d].count \in 0 .. setup.requests
        BY <2>1, <1>a DEF Entries
      <4> QED
        BY <4>1, <2>3, <1>k
    <3>2. /\ dropped' = TRUE /\ sched' = sched
          /\ arp' = [arp EXCEPT ![n][d].count = 0, ![n][d].hold = None]
      BY <3>1, <2>1, <2>3, <1>p DEF Resolve
    <3> QED
      BY <3>2, <2>1, <2>3, <1>2
  <2>4. CASE ~arp[n][d].up /\ ~(arp[n][d].count >= setup.requests)
    <3>1. /\ dropped' = dropped /\ arp[n][d].count < setup.requests
          /\ arp' = [arp EXCEPT ![n][d].count = @ + 1, ![n][d].hold = p]
          /\ \E s \in ArpSchedules(n, <<Packet("REQ", n, Everyone, 0, p.dst)>>) :
               sched' = [sched EXCEPT ![n] = s]
      BY <2>1, <2>4, <1>p DEF Resolve
    <3> QED
      BY <3>1, <2>1, <2>4, <1>3
  <2> QED
    BY <2>2, <2>3, <2>4
<1> QED
  BY <1>c, <1>d

\* The oldest packet of m under way to n arrives.
LEMMA ArrivesEffect ==
  ASSUME LinkInv, NEW n \in Nodes, NEW m \in Nodes \ {n}, Arrives(n, m), NEW p, p = Head(rx[n][m])
  PROVE  /\ rx' \in [Nodes -> [Nodes -> Seq(Packets)]]
         /\ \A a, b \in Nodes : ~(a = n /\ b = m) => rx'[a][b] = rx[a][b]
         /\ ToSet(rx[n][m]) = {p} \cup ToSet(rx'[n][m])
         /\ Shape(m, seqno[m], p) /\ p.dst \in {n, Everyone}
         /\ Flow(m, setup.rfid, seqno[m], sched[m], ifq[m], Rx(m)', arp[m])
         /\ \A o \in Nodes \ {m} : Rx(o)' = Rx(o)
         /\ \A y \in ToSet(rx'[n][m]) \cup ToSet(ifq[m]) \cup Pkts(sched[m]) :
              Precedes(setup.rfid, p, y)
<1>t. TypeOK /\ Flow(m, setup.rfid, seqno[m], sched[m], ifq[m], Rx(m), arp[m])
  BY DEF LinkInv, Flows
<1>0. rx[n][m] # <<>> /\ rx' = [rx EXCEPT ![n][m] = Tail(rx[n][m])]
  BY DEF Arrives
<1>y. rx \in [Nodes -> [Nodes -> Seq(Packets)]] /\ rx[n] \in [Nodes -> Seq(Packets)]
      /\ rx[n][m] \in Seq(Packets)
  BY <1>t, StateTypes
<1>1. Tail(rx[n][m]) \in Seq(Packets) /\ ToSet(rx[n][m]) = {p} \cup ToSet(Tail(rx[n][m]))
  BY <1>0, <1>y, SetOfTail
<1>2. rx' = [rx EXCEPT ![n] = [rx[n] EXCEPT ![m] = Tail(rx[n][m])]]
  BY <1>0, <1>y
<1>3. /\ rx' \in [Nodes -> [Nodes -> Seq(Packets)]] /\ rx'[n][m] = Tail(rx[n][m])
      /\ \A a, b \in Nodes : ~(a = n /\ b = m) => rx'[a][b] = rx[a][b]
  BY <1>1, <1>2, <1>y
<1>4. Rx(m)' = [Rx(m) EXCEPT ![n] = Tail(Rx(m)[n])] /\ Rx(m)[n] = rx[n][m]
  BY <1>3 DEF Rx
<1>5. \A o \in Nodes \ {m} : Rx(o)' = Rx(o)
  BY <1>3 DEF Rx
<1>6. /\ Flow(m, setup.rfid, seqno[m], sched[m], ifq[m], Rx(m)', arp[m])
      /\ \A y \in ToSet(Tail(Rx(m)[n])) \cup ToSet(ifq[m]) \cup Pkts(sched[m]) :
           Precedes(setup.rfid, Head(Rx(m)[n]), y)
  <2>1. setup.rfid \in BOOLEAN
    BY <1>t, SetupTypes
  <2>2. Rx(m)[n] # <<>>
    BY <1>0, <1>4
  <2>3. Rx(m)' = [Rx(m) EXCEPT ![n] = Tail(Rx(m)[n])]
    BY <1>4
  <2>4. Flow(m, setup.rfid, seqno[m], sched[m], ifq[m], Rx(m), arp[m])
    BY <1>t
  <2> DEFINE R == Rx(m)
             T == Rx(m)'
             r == setup.rfid
             k == seqno[m]
             sd == sched[m]
             q == ifq[m]
             A == arp[m]
  <2>5. /\ r \in BOOLEAN /\ R[n] # <<>> /\ T = [R EXCEPT ![n] = Tail(R[n])]
        /\ Flow(m, r, k, sd, q, R, A)
    BY <2>1, <2>2, <2>3, <2>4
  <2> HIDE DEF R, T, r, k, sd, q, A
  <2>6. /\ Flow(m, r, k, sd, q, T, A)
        /\ \A y \in ToSet(Tail(R[n])) \cup ToSet(q) \cup Pkts(sd) : Precedes(r, Head(R[n]), y)
    BY <2>5, FlowReceive, ZenonT(60)
  <2> QED
    BY <2>6 DEF R, T, r, k, sd, q, A
<1>7. Shape(m, seqno[m], p) /\ p.dst \in {n, Everyone}
  BY <1>1, <1>4, <1>t DEF Flow, Shapes
<1> QED
  BY <1>1, <1>3, <1>4, <1>5, <1>6, <1>7

LEMMA ReceiveUpStep ==
  ASSUME LinkInv, NEW n \in Nodes, NEW m \in Nodes \ {n}, ReceiveUp(n, m)
  PROVE  LinkInv' /\ Fifo!Next
<1> DEFINE p == Head(rx[n][m])
           Takes(c) == Uses(p, c) /\ c[2] = n /\ ~p.error
<1>t. TypeOK /\ Flow(m, setup.rfid, seqno[m], sched[m], ifq[m], Rx(m), arp[m])
  BY DEF LinkInv, Flows
<1>0. /\ Arrives(n, m) /\ p.type \in {"IP", "RTR"}
      /\ got' = [c \in Channels |-> IF Takes(c) THEN p.seq ELSE got[c]]
      /\ UNCHANGED <<setup, arp, sched, ifq, blocked, seqno, routing, faults, resets, sent, dropped>>
  BY DEF ReceiveUp
<1> HIDE DEF p
<1>a. /\ rx' \in [Nodes -> [Nodes -> Seq(Packets)]]
      /\ \A a, b \in Nodes : ~(a = n /\ b = m) => rx'[a][b] = rx[a][b]
      /\ ToSet(rx[n][m]) = {p} \cup ToSet(rx'[n][m])
      /\ Shape(m, seqno[m], p) /\ p.dst \in {n, Everyone}
      /\ Flow(m, setup.rfid, seqno[m], sched[m], ifq[m], Rx(m)', arp[m])
      /\ \A o \in Nodes \ {m} : Rx(o)' = Rx(o)
      /\ \A y \in ToSet(rx'[n][m]) \cup ToSet(ifq[m]) \cup Pkts(sched[m]) :
           Precedes(setup.rfid, p, y)
  BY <1>0, ArrivesEffect DEF p
<1>p. p \in Packets /\ p.src = m /\ p.seq \in Nat
  BY <1>a DEF Shape, Packets
<1>x. p \in ToSet(Rx(m)[n])
  BY <1>a DEF Rx
<1>1. TypeOK'
  <2>1. got' \in [Channels -> Nat]
    BY <1>0, <1>p, <1>t DEF TypeOK
  <2> QED
    BY <2>1, <1>0, <1>a, <1>t DEF TypeOK
<1>2. Flows'
  <2>1. \A o \in Nodes \ {m} :
          /\ sched'[o] = sched[o] /\ ifq'[o] = ifq[o] /\ arp'[o] = arp[o]
          /\ seqno'[o] = seqno[o] /\ \A a \in Nodes : rx'[a][o] = rx[a][o]
    BY <1>0, <1>a
  <2>2. Flow(m, setup.rfid, seqno'[m], sched'[m], ifq'[m], Rx(m)', arp'[m])
    BY <1>0, <1>a
  <2>3. Flows /\ setup' = setup
    BY <1>0 DEF LinkInv
  <2> QED
    BY <2>1, <2>2, <2>3, FlowsOfOne
<1>3. ReaderKnows'
  <2> SUFFICES ASSUME setup.rfid, NEW d \in Nodes \ {Reader}
               PROVE  /\ arp[d][Reader].up => arp[Reader][d].up
                      /\ got'[<<d, Reader, "RFID">>] > 0 => arp[Reader][d].up
    BY <1>0 DEF ReaderKnows
  <2> DEFINE c == <<d, Reader, "RFID">>
  <2>1. /\ arp[d][Reader].up => arp[Reader][d].up
        /\ got[c] > 0 => arp[Reader][d].up
    BY DEF LinkInv, ReaderKnows
  <2>2. c \in Channels /\ c[1] = d /\ c[2] = Reader
    BY LinkAssumption DEF Channels
  <2>3. ASSUME Takes(c) PROVE arp[d][Reader].up
    <3>1. p.type = "IP" /\ m = d /\ n = Reader
      BY <2>2, <2>3, <1>p DEF Uses
    <3>2. p.dst = Reader
      BY <3>1, <1>x, <1>t DEF Flow, RfidFlow
    <3> QED
      BY <3>1, <3>2, <1>x, <1>t DEF Flow, Resolved
  <2>4. got'[c] = IF Takes(c) THEN p.seq ELSE got[c]
    BY <2>2, <1>0
  <2> QED
    BY <2>1, <2>3, <2>4
<1>4. Numbered' /\ NothingStranded'
  BY <1>0 DEF LinkInv, Numbered, NothingStranded
<1>u. ASSUME NEW a \in Nodes, NEW b \in Nodes
      PROVE  /\ UnderWay(a, b)' \subseteq UnderWay(a, b)
             /\ UnderWay(a, b) \subseteq UnderWay(a, b)' \cup {p}
  <2>1. Queued(a)' = Queued(a)
    BY <1>0 DEF Queued
  <2>2. ToSet(rx'[b][a]) \subseteq ToSet(rx[b][a]) /\ ToSet(rx[b][a]) \subseteq ToSet(rx'[b][a]) \cup {p}
    BY <1>a
  <2> QED
    BY <2>1, <2>2, <1>0 DEF UnderWay
<1>5. HeldAwaitsArp'
  <2>1. p.type \notin {"REQ", "REP"}
    BY <1>0
  <2> QED
    BY <2>1, <1>0, <1>u, HeldKept
<1>6. ASSUME NEW c \in Channels PROVE Fifo!Accept(c) \/ Fifo!Deliver(c)
  <2>0. c[1] \in Nodes /\ c[2] \in Nodes
    BY DEF Channels
  <2>1. \A x : Uses(x, c)' <=> Uses(x, c)
    BY <1>0 DEF Uses, Cast
  <2>2. transit'[c] \subseteq transit[c]
    BY <2>0, <2>1, <1>u DEF transit
  <2>3. CASE ~Takes(c)
    <3>1. got'[c] = got[c] /\ sent'[c] = sent[c] /\ sent[c] \in Nat
      BY <2>3, <1>0, <1>t DEF TypeOK
    <3> QED
      BY <2>2, <3>1 DEF Fifo!Accept
  <2>4. CASE Takes(c)
    <3>0. c[1] = m /\ c[2] = n /\ p.type = "IP"
      BY <2>4, <1>p DEF Uses
    <3>1. p.seq \in transit[c]
      <4>1. p \in UnderWay(c[1], c[2])
        BY <3>0, <1>a DEF UnderWay
      <4> QED
        BY <4>1, <2>4 DEF transit
    \* Nothing else on the channel is older.
    <3>2. ASSUME NEW x \in UnderWay(m, n)', Uses(x, c), ~x.error PROVE x.seq > p.seq
      <4>1. Clash(setup.rfid, p, x)
        BY <2>4, <3>0, <3>2 DEF Uses, Cast, Clash
      <4>2. x \in ToSet(rx'[n][m]) \cup (ToSet(ifq[m]) \cup Pkts(sched[m]))
        <5>1. \/ x \in ToSet(rx'[n][m]) \cup (ToSet(ifq[m]) \cup Pkts(sched[m]))
              \/ x = arp[m][n].hold /\ x # None
          BY <3>2, <1>0 DEF UnderWay, Queued, Pkts
        <5>2. ASSUME x = arp[m][n].hold, x # None PROVE FALSE
          <6>1. ~arp[m][n].up /\ x.dst = n
            BY <5>2, <1>t DEF Flow, Resolved, Shapes
          <6>2. p.dst # n
            BY <6>1, <1>x, <1>t, <3>0 DEF Flow, Resolved
          <6>3. p.dst = Everyone /\ x.dst # Everyone
            BY <6>1, <6>2, <1>a, LinkAssumption
          <6>4. setup.rfid
            BY <4>1, <6>1, <6>2 DEF Clash
          <6>5. m # Reader => p.dst = Reader
            BY <6>4, <1>x, <1>t, <3>0 DEF Flow, RfidFlow
          <6>6. m = Reader => arp[m][n].hold = None
            BY <6>4, <1>t DEF Flow, RfidFlow
          <6> QED
            BY <6>3, <6>5, <6>6, <5>2, LinkAssumption
        <5> QED
          BY <5>1, <5>2
      <4>3. p.seq < x.seq
        BY <4>1, <4>2, <1>a DEF Precedes
      <4>4. x.seq \in Nat
        BY <4>2, <1>a DEF Rx, Flow, Shapes, Shape, Packets
      <4> QED
        BY <4>3, <4>4, <1>p
    <3>3. transit'[c] \subseteq {j \in transit[c] : j > p.seq}
      <4> SUFFICES ASSUME NEW x \in UnderWay(c[1], c[2])', Uses(x, c)', ~x.error
                   PROVE  x.seq \in transit[c] /\ x.seq > p.seq
        BY DEF transit
      <4>1. x \in UnderWay(c[1], c[2]) /\ Uses(x, c)
        BY <2>0, <2>1, <1>u
      <4> QED
        BY <4>1, <3>0, <3>2 DEF transit
    <3>4. got'[c] = p.seq /\ sent'[c] = sent[c]
      BY <2>4, <1>0
    <3> QED
      BY <3>1, <3>3, <3>4 DEF Fifo!Deliver
  <2> QED
    BY <2>3, <2>4
<1> QED
  BY <1>1, <1>2, <1>3, <1>4, <1>5, <1>6 DEF LinkInv, Fifo!Next

LEMMA ReceiveArpStep ==
  ASSUME LinkInv, NEW n \in Nodes, NEW m \in Nodes \ {n}, ReceiveArp(n, m)
  PROVE  LinkInv' /\ Fifo!Next
<1> DEFINE p == Head(rx[n][m])
           h == arp[n][m].hold
           rep == Packet("REP", n, m, 0, None)
           asked == p.type = "REQ" /\ p.target = n
           held == IF h = None THEN <<>> ELSE <<h>>
           reply == IF asked THEN <<rep>> ELSE <<>>
           ps == held \o reply
           r == setup.rfid
           k == seqno[n]
           Entries == [up : BOOLEAN, hold : Packets \cup {None}, count : 0 .. setup.requests]
<1>t. /\ TypeOK /\ Flow(n, r, k, sched[n], ifq[n], Rx(n), arp[n])
      /\ Flow(m, r, seqno[m], sched[m], ifq[m], Rx(m), arp[m])
  BY DEF LinkInv, Flows
<1>k. r \in BOOLEAN /\ k \in Nat /\ k <= k /\ setup.requests \in Nat
  <2>1. k \in Nat
    BY <1>t, StateTypes
  <2> QED
    BY <2>1, <1>t, SetupTypes
<1>0. /\ Arrives(n, m) /\ p.type \in {"REQ", "REP"}
      /\ arp' = [arp EXCEPT ![n][m].up = TRUE, ![n][m].hold = None]
      /\ UNCHANGED <<setup, ifq, blocked, seqno, routing, faults, resets, sent, got, dropped>>
  BY DEF ReceiveArp
<1> HIDE DEF p
<1>a. /\ rx' \in [Nodes -> [Nodes -> Seq(Packets)]]
      /\ \A a, b \in Nodes : ~(a = n /\ b = m) => rx'[a][b] = rx[a][b]
      /\ ToSet(rx[n][m]) = {p} \cup ToSet(rx'[n][m])
      /\ Shape(m, seqno[m], p) /\ p.dst \in {n, Everyone}
      /\ Flow(m, r, seqno[m], sched[m], ifq[m], Rx(m)', arp[m])
      /\ \A o \in Nodes \ {m} : Rx(o)' = Rx(o)
      /\ \A y \in ToSet(rx'[n][m]) \cup ToSet(ifq[m]) \cup Pkts(sched[m]) : Precedes(r, p, y)
  <2>1. p = Head(rx[n][m])
    BY DEF p
  <2>2. Arrives(n, m)
    BY <1>0
  <2> QED
    BY <2>1, <2>2, ArrivesEffect, ZenonT(60)
<1>s. PICK s \in ArpSchedules(n, ps) : sched' = [sched EXCEPT ![n] = s]
  BY DEF ReceiveArp, p
<1> HIDE DEF r, k, Entries
\* The address of m is known now.
<1>b. /\ arp' \in [Nodes -> [Nodes -> Entries]] /\ arp'[n] \in [Nodes -> ArpEntry]
      /\ \A o \in Nodes \ {n} : arp'[o] = arp[o]
      /\ \A b \in Nodes \ {m} : arp'[n][b] = arp[n][b]
      /\ arp'[n][m].up /\ arp'[n][m].hold = None
  <2> DEFINE e == [arp[n][m] EXCEPT !.up = TRUE, !.hold = None]
  <2>0. arp \in [Nodes -> [Nodes -> Entries]] /\ arp[n] \in [Nodes -> Entries] /\ arp[n][m] \in Entries
    BY <1>t, StateTypes DEF Entries
  <2>1. e \in Entries /\ e.up /\ e.hold = None
    BY <2>0 DEF Entries
  <2>2. arp' = [arp EXCEPT ![n] = [arp[n] EXCEPT ![m] = e]]
    BY <1>0, <2>0
  <2> HIDE DEF e
  <2>3. arp'[n] = [arp[n] EXCEPT ![m] = e] /\ arp'[n] \in [Nodes -> Entries]
    BY <2>0, <2>1, <2>2
  <2>4. Entries \subseteq ArpEntry
    BY <1>k DEF Entries, ArpEntry
  <2> QED
    BY <2>0, <2>1, <2>2, <2>3, <2>4
\* What is scheduled clashes with nothing under way.
<1>q. /\ rep \in Packets /\ rep.type = "REP" /\ rep.dst = m /\ ~rep.error /\ Shape(n, k, rep)
  BY DEF Packet, Packets, Shape
<1>h. h # None => /\ Shape(n, k, h) /\ h \in Packets /\ ~h.error /\ h.type = "IP" /\ h.dst = m
                  /\ ~arp[n][m].up /\ (r => n # Reader /\ m = Reader)
  <2> SUFFICES ASSUME h # None
               PROVE  /\ Shape(n, k, h) /\ h \in Packets /\ ~h.error /\ h.type = "IP" /\ h.dst = m
                      /\ ~arp[n][m].up /\ (r => n # Reader /\ m = Reader)
    OBVIOUS
  <2>1. Shape(n, k, h) /\ ~h.error /\ h.type = "IP" /\ h.dst = m
    BY <1>t DEF Flow, Shapes
  <2>2. ~arp[n][m].up
    BY <1>t DEF Flow, Resolved
  <2>3. r => n # Reader /\ m = Reader
    BY <1>t DEF Flow, RfidFlow
  <2> QED
    BY <2>1, <2>2, <2>3 DEF Shape
<1>c. ASSUME h # None,
             NEW y, y \in ToSet(ifq[n]) \cup Pkts(sched[n]) \/ \E b \in Nodes : y \in ToSet(Rx(n)[b])
      PROVE  ~Clash(r, h, y)
  <2> SUFFICES ASSUME y.type = "IP" PROVE y.dst # m /\ (r => y.dst # Everyone)
    BY <1>c, <1>h, LinkAssumption DEF Clash
  <2>1. y.dst # m
    <3>1. CASE y \in ToSet(ifq[n]) \cup Pkts(sched[n])
      BY <3>1, <1>c, <1>h, <1>t DEF Flow, Resolved
    <3>2. ASSUME NEW b \in Nodes, y \in ToSet(Rx(n)[b]) PROVE y.dst # m
      <4>1. CASE b = m
        BY <4>1, <3>2, <1>c, <1>h, <1>t DEF Flow, Resolved
      <4>2. CASE b # m
        <5>1. y.dst \in {b, Everyone}
          BY <3>2, <1>t DEF Flow, Shapes
        <5> QED
          BY <5>1, <4>2, LinkAssumption
      <4> QED
        BY <4>1, <4>2
    <3> QED
      BY <3>1, <3>2, <1>c
  <2>2. r => y.dst = Reader
    BY <1>c, <1>h, <1>t DEF Flow, RfidFlow
  <2> QED
    BY <2>1, <2>2, LinkAssumption
<1> HIDE DEF h, rep
<1>e. /\ ps \in Seq(Packets) /\ SortedSched(r, ArpEntries(ps))
      /\ ToSet(ps) = {x \in {h, rep} : (x = h /\ h # None) \/ (x = rep /\ asked)}
  <2> HIDE DEF asked
  <2>0. /\ Packets # {} /\ (h # None => h \in Packets) /\ rep \in Packets
    BY <1>h, <1>q
  <2>1. /\ held \in Seq(Packets) /\ reply \in Seq(Packets)
        /\ ToSet(held) = {x \in {h} : h # None} /\ ToSet(reply) = {x \in {rep} : asked}
    <3>1. ToSet(<<>>) = {} /\ \A x : ToSet(<<x>>) = {x}
      BY DEF ToSet
    <3>2. held \in Seq(Packets) /\ reply \in Seq(Packets)
      BY <2>0
    <3>3. ToSet(held) = {x \in {h} : h # None}
      <4>1. CASE h = None
        BY <3>1, <4>1
      <4>2. CASE h # None
        BY <3>1, <4>2
      <4> QED
        BY <4>1, <4>2
    <3>4. ToSet(reply) = {x \in {rep} : asked}
      <4>1. CASE asked
        BY <3>1, <4>1
      <4>2. CASE ~asked
        BY <3>1, <4>2
      <4> QED
        BY <4>1, <4>2
    <3> QED
      BY <3>2, <3>3, <3>4
  <2>2. Len(held) \in {0, 1} /\ Len(reply) \in {0, 1} /\ (reply # <<>> => reply[1] = rep /\ reply = <<rep>>)
    OBVIOUS
  <2> HIDE DEF held, reply
  <2>3. /\ ps \in Seq(Packets) /\ Len(ps) = Len(held) + Len(reply)
        /\ \A i \in 1 .. Len(held) + Len(reply) :
             ps[i] = IF i <= Len(held) THEN held[i] ELSE reply[i - Len(held)]
        /\ ToSet(ps) = ToSet(held) \cup ToSet(reply)
    BY <2>1, ConcatProperties, SetOfConcat
  <2> HIDE DEF ps
  <2>4. /\ Len(ArpEntries(ps)) = Len(ps)
        /\ \A i \in 1 .. Len(ps) : ArpEntries(ps)[i].pkt = ps[i]
    <3>1. Len(ps) \in Nat
      BY <2>3
    <3> QED
      BY <3>1 DEF ArpEntries
  <2>5. ASSUME NEW i \in 1 .. Len(ps), NEW j \in 1 .. Len(ps), i < j
        PROVE  Precedes(r, ps[i], ps[j])
    <3>1. Len(held) = 1 /\ Len(reply) = 1 /\ j = 2
      BY <2>2, <2>3, <2>5
    <3>2. ps[j] = reply[1] /\ reply # <<>>
      BY <3>1, <2>3
    <3>3. ps[j].type # "IP"
      BY <3>2, <2>2, <1>q
    <3> QED
      BY <3>3 DEF Precedes, Clash
  <2>6. SortedSched(r, ArpEntries(ps))
    BY <2>4, <2>5 DEF SortedSched
  <2>7. ToSet(ps) = {x \in {h, rep} : (x = h /\ h # None) \/ (x = rep /\ asked)}
    BY <2>1, <2>3
  <2> QED
    BY <2>3, <2>6, <2>7
<1> HIDE DEF ps, asked
<1>f. /\ Flow(n, r, k, s, ifq[n], Rx(n), arp'[n])
      /\ Pkts(s) = Pkts(sched[n]) \cup ToSet(ps)
  <2>1. \A b \in Nodes :
          /\ arp[n][b].up => arp'[n][b].up
          /\ arp'[n][b].up => arp'[n][b].hold = None
          /\ arp'[n][b].hold \in {arp[n][b].hold, None}
    <3>1. \A b \in Nodes : arp[n][b].up => arp[n][b].hold = None
      BY <1>t DEF Flow, Resolved
    <3> QED
      BY <3>1, <1>b
  <2>2. Flow(n, r, k, sched[n], ifq[n], Rx(n), arp'[n])
    <3>1. arp'[n] \in [Nodes -> ArpEntry]
      BY <1>b
    <3>2. Flow(n, r, k, sched[n], ifq[n], Rx(n), arp[n])
      BY <1>t
    <3> QED
      BY <3>1, <3>2, <2>1, <1>k, FlowEntry
  <2>3. PICK i \in 0 .. Len(sched[n]) : s = Insert(sched[n], ArpEntries(ps), i)
    BY ArpSchedulesInsert
  <2>4. ArpEntries(ps) \in Seq(SchedEntry) /\ Pkts(ArpEntries(ps)) = ToSet(ps)
    BY <1>e, ArpEntriesPkts
  <2>5. ASSUME NEW x \in ToSet(ps)
        PROVE  /\ Shape(n, k, x) /\ ~x.error
               /\ x.type = "IP" => x.dst \in Nodes /\ arp'[n][x.dst].up
               /\ \A y \in ToSet(ifq[n]) \cup Pkts(sched[n]) : ~Clash(r, x, y)
               /\ \A b \in Nodes : \A y \in ToSet(Rx(n)[b]) : ~Clash(r, x, y)
               /\ r /\ n # Reader => (x.type = "IP" => x.dst = Reader)
               /\ r /\ n = Reader => x.type # "REQ" /\ (x.type = "REP" => arp'[n][x.dst].up)
    <3>1. CASE x = rep
      <4>1. \A y : ~Clash(r, x, y)
        BY <3>1, <1>q DEF Clash
      <4> QED
        BY <3>1, <4>1, <1>q, <1>b
    <3>2. CASE x = h /\ h # None
      BY <3>2, <1>h, <1>b, <1>c
    <3> QED
      BY <3>1, <3>2, <1>e
  <2>6. \A x \in Pkts(ArpEntries(ps)) :
          /\ Shape(n, k, x) /\ ~x.error
          /\ x.type = "IP" => x.dst \in Nodes /\ arp'[n][x.dst].up
          /\ \A y \in ToSet(ifq[n]) \cup Pkts(sched[n]) : ~Clash(r, x, y)
          /\ \A b \in Nodes : \A y \in ToSet(Rx(n)[b]) : ~Clash(r, x, y)
          /\ r /\ n # Reader => (x.type = "IP" => x.dst = Reader)
          /\ r /\ n = Reader => x.type # "REQ" /\ (x.type = "REP" => arp'[n][x.dst].up)
    BY <2>4, <2>5
  <2>7. /\ r \in BOOLEAN /\ ArpEntries(ps) \in Seq(SchedEntry) /\ SortedSched(r, ArpEntries(ps))
    BY <2>4, <1>e, <1>k
  <2>8. /\ Flow(n, r, k, s, ifq[n], Rx(n), arp'[n])
        /\ Pkts(s) = Pkts(sched[n]) \cup Pkts(ArpEntries(ps))
    BY <2>2, <2>3, <2>6, <2>7, FlowArp
  <2> QED
    BY <2>4, <2>8
<1>d. /\ sched' \in [Nodes -> Seq(SchedEntry)] /\ sched'[n] = s
      /\ \A o \in Nodes \ {n} : sched'[o] = sched[o]
  BY <1>f, <1>s, <1>t DEF TypeOK, Flow, FlowTypes, SchedEntry
<1>1. TypeOK'
  BY <1>0, <1>a, <1>b, <1>d, <1>t DEF TypeOK, SchedEntry, Entries
<1>2. Flows'
  <2> SUFFICES ASSUME NEW o \in Nodes
               PROVE  Flow(o, r, seqno[o], sched'[o], ifq[o], Rx(o)', arp'[o])
    BY <1>0 DEF Flows, r
  <2>1. CASE o = n
    BY <2>1, <1>a, <1>d, <1>f DEF k
  <2>2. CASE o = m
    BY <2>2, <1>a, <1>b, <1>d
  <2>3. CASE o \notin {m, n}
    <3>1. Flow(o, r, seqno[o], sched[o], ifq[o], Rx(o), arp[o])
      BY DEF LinkInv, Flows, r
    <3> QED
      BY <3>1, <2>3, <1>a, <1>b, <1>d
  <2> QED
    BY <2>1, <2>2, <2>3
<1>3. ReaderKnows'
  <2> SUFFICES ASSUME r, NEW d \in Nodes \ {Reader}
               PROVE  /\ arp'[d][Reader].up => arp'[Reader][d].up
                      /\ got[<<d, Reader, "RFID">>] > 0 => arp'[Reader][d].up
    BY <1>0 DEF ReaderKnows, r
  <2>1. /\ arp[d][Reader].up => arp[Reader][d].up
        /\ got[<<d, Reader, "RFID">>] > 0 => arp[Reader][d].up
    BY DEF LinkInv, ReaderKnows, r
  <2>2. \A o, b \in Nodes : /\ arp[o][b].up => arp'[o][b].up
                            /\ arp'[o][b].up => arp[o][b].up \/ (o = n /\ b = m)
    BY <1>b
  <2>3. ASSUME d = n, Reader = m PROVE arp[Reader][d].up
    <3>1. p \in ToSet(Rx(m)[n])
      BY <1>a DEF Rx
    <3>2. p.type # "REQ" /\ (p.type = "REP" /\ p.dst = n => arp[m][n].up)
      BY <3>1, <2>3, <1>t DEF Flow, RfidFlow
    <3>3. p.type = "REP" /\ p.dst = n
      BY <3>2, <1>0, <1>a, LinkAssumption DEF Shape
    <3> QED
      BY <3>2, <3>3, <2>3
  <2> QED
    BY <2>1, <2>2, <2>3, LinkAssumption
<1>4. Numbered' /\ NothingStranded'
  <2>1. \A o, b \in Nodes : arp'[o][b].up => arp'[o][b].hold = None
    <3>1. \A o, b \in Nodes : arp[o][b].up => arp[o][b].hold = None
      BY DEF LinkInv, NothingStranded
    <3> QED
      BY <3>1, <1>b
  <2> QED
    BY <2>1, <1>0 DEF LinkInv, Numbered, NothingStranded
<1>u. ASSUME NEW a \in Nodes, NEW b \in Nodes
      PROVE  /\ \A x \in UnderWay(a, b)' : x \in UnderWay(a, b) \/ (a = n /\ x \in ToSet(ps))
             /\ \A x \in UnderWay(a, b) :
                  x \in UnderWay(a, b)' \/ (a = m /\ b = n /\ x = p)
             /\ a = n => ToSet(ps) \subseteq UnderWay(a, b)'
  <2>1. /\ Queued(a)' = ToSet(ifq[a]) \cup Pkts(sched'[a])
        /\ Queued(a) = ToSet(ifq[a]) \cup Pkts(sched[a])
    BY <1>0 DEF Queued, Pkts
  <2>2. Queued(a)' = Queued(a) \cup (IF a = n THEN ToSet(ps) ELSE {})
    BY <2>1, <1>d, <1>f
  <2>3. /\ ToSet(rx'[b][a]) \subseteq ToSet(rx[b][a])
        /\ \A x \in ToSet(rx[b][a]) : x \in ToSet(rx'[b][a]) \/ (a = m /\ b = n /\ x = p)
    BY <1>a
  <2>4. /\ ({arp'[a][b].hold} \ {None}) \subseteq ({arp[a][b].hold} \ {None})
        /\ \A x \in {arp[a][b].hold} : x = arp'[a][b].hold \/ (a = n /\ b = m /\ x = h)
    BY <1>b DEF h
  <2>5. h # None => h \in ToSet(ps)
    BY <1>e
  <2> QED
    BY <2>2, <2>3, <2>4, <2>5 DEF UnderWay
<1>5. HeldAwaitsArp'
  <2>1. ASSUME NEW a \in Nodes, NEW b \in Nodes, arp'[a][b].hold # None
        PROVE  \/ \E x \in UnderWay(b, a)' : x.type = "REP" /\ x.dst = a
               \/ /\ arp[a][b].hold # None
                  /\ \A x \in UnderWay(a, b) :
                       x.type = "REQ" /\ x.target = b /\ x.dst = Everyone => x \in UnderWay(a, b)'
                  /\ \A x \in UnderWay(b, a) : x.type = "REP" /\ x.dst = a => x \in UnderWay(b, a)'
    <3>0. ~(a = n /\ b = m) /\ arp[a][b].hold # None
      BY <1>b, <2>1
    <3>2. \A x \in UnderWay(b, a) : x.type = "REP" /\ x.dst = a => x \in UnderWay(b, a)'
      BY <3>0, <1>u
    <3>3. CASE a = m /\ b = n /\ asked
      <4>1. rep \in ToSet(ps)
        BY <3>3, <1>e
      <4> QED
        BY <4>1, <3>3, <1>q, <1>u
    <3>4. CASE ~(a = m /\ b = n /\ asked)
      <4>1. \A x \in UnderWay(a, b) :
              x.type = "REQ" /\ x.target = b /\ x.dst = Everyone => x \in UnderWay(a, b)'
        BY <3>0, <3>4, <1>u DEF asked
      <4> QED
        BY <4>1, <3>0, <3>2
    <3> QED
      BY <3>3, <3>4
  <2>2. UNCHANGED <<faults, resets, dropped>>
    BY <1>0
  <2> QED
    BY <2>1, <2>2, HeldMoves
<1>6. Fifo!Next
  <2>1. sent \in [Channels -> Nat] /\ UNCHANGED <<setup, sent, got>>
    BY <1>0, <1>t DEF TypeOK
  <2>2. ASSUME NEW c \in Channels, NEW x \in UnderWay(c[1], c[2])'
        PROVE  x.error \/ ~Uses(x, c) \/ x \in UnderWay(c[1], c[2])
    <3>0. c[1] \in Nodes /\ c[2] \in Nodes
      BY DEF Channels
    <3>1. CASE x = rep
      BY <3>1, <1>q DEF Uses
    <3>2. CASE c[1] = n /\ x = h /\ h # None
      <4>1. CASE c[2] = m
        BY <4>1, <3>2 DEF UnderWay, h
      <4>2. CASE c[2] # m
        BY <4>2, <3>2, <1>h, LinkAssumption DEF Uses
      <4> QED
        BY <4>1, <4>2
    <3> QED
      BY <3>0, <3>1, <3>2, <1>u, <1>e
  <2> QED
    BY <2>1, <2>2, QuietStep
<1> QED
  BY <1>1, <1>2, <1>3, <1>4, <1>5, <1>6 DEF LinkInv

LEMMA LinkStep == LinkInv /\ [Next]_vars => LinkInv' /\ [Fifo!Next]_(Fifo!vars)
<1> SUFFICES ASSUME LinkInv, [Next]_vars PROVE LinkInv' /\ [Fifo!Next]_(Fifo!vars)
  OBVIOUS
<1>1. CASE Next
  <2>1. PICK n \in Nodes :
          \/ \E d \in (Nodes \cup {Everyone}) \ {n} : Send(n, d)
          \/ SendRouting(n) \/ ToQueue(n) \/ Resume(n) \/ Reset(n)
          \/ \E m \in Nodes \ {n} : ReceiveUp(n, m) \/ ReceiveArp(n, m)
    BY <1>1 DEF Next
  <2>2. ASSUME NEW d \in (Nodes \cup {Everyone}) \ {n}, Send(n, d) PROVE LinkInv' /\ Fifo!Next
    BY <2>2, SendStep
  <2>3. CASE SendRouting(n)
    BY <2>3, SendRoutingStep
  <2>4. CASE ToQueue(n)
    BY <2>4, ToQueueStep
  <2>5. CASE Resume(n)
    BY <2>5, ResumeStep
  <2>6. CASE Reset(n)
    BY <2>6, ResetStep
  <2>7. ASSUME NEW m \in Nodes \ {n}, ReceiveUp(n, m) PROVE LinkInv' /\ Fifo!Next
    BY <2>7, ReceiveUpStep
  <2>8. ASSUME NEW m \in Nodes \ {n}, ReceiveArp(n, m) PROVE LinkInv' /\ Fifo!Next
    BY <2>8, ReceiveArpStep
  <2> QED
    BY <2>1, <2>2, <2>3, <2>4, <2>5, <2>6, <2>7, <2>8
<1>2. CASE UNCHANGED vars
  <2> USE <1>2 DEF vars
  <2>1. TypeOK'
    BY DEF LinkInv, TypeOK
  <2>2. Flows'
    BY DEF LinkInv, Flows, Rx
  <2>3. ReaderKnows' /\ Numbered' /\ NothingStranded'
    BY DEF LinkInv, ReaderKnows, Numbered, NothingStranded
  <2>4. HeldAwaitsArp'
    BY DEF LinkInv, HeldAwaitsArp, UnderWay, Queued
  <2>5. UNCHANGED Fifo!vars
    <3>1. transit' = transit
      BY DEF transit, UnderWay, Queued, Uses, Cast
    <3> QED
      BY <3>1 DEF Fifo!vars
  <2> QED
    BY <2>1, <2>2, <2>3, <2>4, <2>5 DEF LinkInv
<1> QED
  BY <1>1, <1>2

LEMMA LinkInvariant == Spec => []LinkInv
<1>1. Init => LinkInv
  BY InitLink
<1>2. LinkInv /\ [Next]_vars => LinkInv'
  BY LinkStep
<1> QED
  BY <1>1, <1>2, PTL DEF Spec

(***************************************************************************)
(* Tables, queues and counters keep their types and bounds: ARP's requests *)
(* for an address never exceed ARP_MAX_REQUEST_COUNT, however sends,       *)
(* replies and resets interleave (arp.cc, ll.cc, priqueue.cc).             *)
(***************************************************************************)
THEOREM LinkTypeCorrect == Spec => []TypeOK
<1>1. LinkInv => TypeOK
  BY DEF LinkInv
<1> QED
  BY <1>1, LinkInvariant, PTL

(***************************************************************************)
(* No queue waits for a transmission that is not there, and ARP holds no   *)
(* packet for an address it knows, for any queue length, drop policy,      *)
(* number of nodes, losses and resets (queue.cc, arp.cc).                  *)
(***************************************************************************)
THEOREM NoPacketStranded == Spec => []NothingStranded
<1>1. LinkInv => NothingStranded
  BY DEF LinkInv
<1> QED
  BY <1>1, LinkInvariant, PTL

(***************************************************************************)
(* As long as nothing is lost, a packet that ARP holds has its request or  *)
(* the reply under way: ARP needs no timer on a network that loses nothing *)
(* (ARPTable::arpresolve, ARPTable::arpinput).                             *)
(***************************************************************************)
THEOREM HeldPacketsAwaitArp == Spec => []HeldAwaitsArp
<1>1. LinkInv => HeldAwaitsArp
  BY DEF LinkInv
<1> QED
  BY <1>1, LinkInvariant, PTL

(***************************************************************************)
(* The layers below the agents implement a lossy FIFO channel between any  *)
(* two nodes, unicast and broadcast apart, or together in RFID traffic:    *)
(* ARP's hold, its packets that overtake LL's, the priority of routing     *)
(* packets, overflow, losses and resets reorder and duplicate nothing.     *)
(***************************************************************************)
THEOREM LinkImplementsFifo == Spec => ImplementsFifo
<1>1. Init => Fifo!Init
  BY InitLink
<1>2. LinkInv /\ [Next]_vars => [Fifo!Next]_(Fifo!vars)
  BY LinkStep
<1> QED
  BY <1>1, <1>2, LinkInvariant, PTL DEF Spec, ImplementsFifo, Fifo!Spec
================================================================================
