--------------------------- MODULE MacDeliveryProofs ---------------------------
(***************************************************************************)
(* The packets of Mac/802_11, for any number of nodes, any channel and     *)
(* traffic, any retry limits and any number of sequence numbers: each has  *)
(* the transmissions its retry limit promises, and those of one sender are *)
(* passed up in order and once. The invariants say how a node's packets    *)
(* follow one another and what its counts count, and what is on its way to *)
(* a node or was passed up there.                                          *)
(***************************************************************************)
EXTENDS MacProofs

-------------------------------------------------------------------------------
(* The packets of a node *)

\* The packet that node s, handed g packets, is busy with or was last
Cur(s, g) == g - Len(s.ifq)

\* The packets that LL hands down to node s
TrafficOf(s) == setup.traffic[s.index]

\* p is packet i of node s.
IsPacket(p, s, i) ==
  p.id = i /\ p.ra = TrafficOf(s)[i].ra /\ p.size = TrafficOf(s)[i].size

\* The current packet, if it is not done with, and those of the queue follow
\* one another, with the sequence numbers of their places.
QueueInv(s, g) ==
  /\ g \in 0 .. Len(TrafficOf(s)) /\ Cur(s, g) \in Nat
  /\ \A j \in DOMAIN s.ifq : IsPacket(s.ifq[j], s, Cur(s, g) + j)
  /\ s.pktTx # None =>
       /\ IsPacket(s.pktTx, s, Cur(s, g)) /\ Cur(s, g) # 0
       /\ s.pktTx.seq = Cur(s, g) % setup.wrap
  /\ s.sta_seqno = (Cur(s, g) + 1) % setup.wrap
  /\ s.callback = FALSE => s.ifq = <<>>

\* What sendDATA() takes from the packet
LEMMA DataOfFields ==
  ASSUME NEW s, NEW p
  PROVE  /\ DataOf(s, p).ra = p.ra /\ DataOf(s, p).size = p.size
         /\ DataOf(s, p).id = p.id /\ DataOf(s, p).seq = s.sta_seqno
  BY DEF DataOf, Frame

\* A remainder is what is left over.
LEMMA Remainder ==
  ASSUME NEW w \in Nat \ {0}, NEW q \in Nat, NEW x \in 0 .. w - 1
  PROVE  (w * q + x) % w = x
<1> DEFINE y == w * q + x
           d == y \div w
           m == y % w
<1>0. w * q \in Nat
  OBVIOUS
<1>1. y \in Nat /\ d \in Int /\ m \in 0 .. w - 1 /\ y = w * d + m
  BY <1>0
<1>2. y = w * q + x
  OBVIOUS
<1> HIDE DEF y, d, m
<1>3. w * (q - d) = m - x
  BY <1>0, <1>1, <1>2
<1>4. ASSUME q - d >= 1 PROVE FALSE
  <2>1. w * (q - d) >= w
    BY <1>1, <1>4
  <2> QED BY <1>1, <1>3, <2>1
<1>5. ASSUME d - q >= 1 PROVE FALSE
  <2>1. w * (d - q) >= w
    BY <1>1, <1>5
  <2>2. w * (q - d) = - (w * (d - q))
    BY <1>1
  <2> QED BY <1>1, <1>3, <2>1, <2>2
<1>6. q - d = 0
  BY <1>1, <1>4, <1>5
<1>7. m = x
  BY <1>1, <1>3, <1>6
<1> QED BY <1>7 DEF m, y

\* The sequence number after the next one, when dh_scontrol may wrap
LEMMA NextNumber ==
  ASSUME NEW w \in Nat \ {0, 1}, NEW c \in Nat
  PROVE  (((c + 1) % w) + 1) % w = (c + 2) % w
<1> DEFINE r == (c + 1) % w
           q == (c + 1) \div w
<1>1. r \in 0 .. w - 1 /\ q \in Nat /\ c + 1 = w * q + r
  OBVIOUS
<1> HIDE DEF r, q
<1>2. c + 2 = w * q + (r + 1)
  <2>1. w * q \in Nat
    BY <1>1
  <2> QED BY <1>1, <2>1
<1>3. (w * q + (r + 1)) % w = (r + 1) % w
  <2>1. CASE r + 1 < w
    <3>1. (r + 1) % w = r + 1
      BY <1>1, <2>1
    <3>2. (w * q + (r + 1)) % w = r + 1
      <4> DEFINE x == r + 1
      <4>1. x \in 0 .. w - 1 /\ w \in Nat \ {0} /\ q \in Nat
        BY <1>1, <2>1
      <4> HIDE DEF x
      <4>2. (w * q + x) % w = x
        BY <4>1, Remainder
      <4> QED BY <4>2 DEF x
    <3> QED BY <3>1, <3>2
  <2>2. CASE r + 1 = w
    <3>1. w * q + w = w * (q + 1)
      BY <1>1
    <3>2. (w * (q + 1)) % w = 0
      BY <1>1
    <3>3. w % w = 0
      OBVIOUS
    <3> QED BY <2>2, <3>1, <3>2, <3>3
  <2> QED BY <1>1, <2>1, <2>2
<1> QED BY <1>2, <1>3 DEF r

\* A node takes up the packet after the current one.
LEMMA TakesQueue ==
  ASSUME Params, NEW s, NEW t, NEW g, NEW h, NEW p, NodeTypes(s), NodeTypes(t), 
         QueueInv(s, g), Takes(s, t, p), t.index = s.index,
         h \in 0 .. Len(TrafficOf(s)), Cur(t, h) = Cur(s, g) + 1,
         IsPacket(p, s, Cur(s, g) + 1),
         \A j \in DOMAIN t.ifq : IsPacket(t.ifq[j], s, Cur(s, g) + 1 + j)
  PROVE  QueueInv(t, h)
<1> DEFINE c == Cur(s, g)
           d == Cur(t, h)
<1>1. c \in Nat /\ d = c + 1 /\ setup.wrap \in Nat \ {0, 1}
  BY DEF QueueInv, Params, Numbers
<1>2. TrafficOf(t) = TrafficOf(s)
  BY DEF TrafficOf
<1>3. s.sta_seqno = (c + 1) % setup.wrap /\ t.callback = TRUE
  BY DEF QueueInv, Takes
<1>4. IsPacket(t.pktTx, t, d) /\ t.pktTx.seq = d % setup.wrap
  BY <1>1, <1>2, <1>3, DataOfFields DEF Takes, IsPacket
<1>5. t.sta_seqno = (d + 1) % setup.wrap
  <2> HIDE DEF c, d
  <2>1. t.sta_seqno = (((c + 1) % setup.wrap) + 1) % setup.wrap
    BY <1>3 DEF Takes
  <2>2. (((c + 1) % setup.wrap) + 1) % setup.wrap = (c + 2) % setup.wrap
    BY <1>1, NextNumber
  <2>3. c + 2 = d + 1
    BY <1>1
  <2> QED BY <2>1, <2>2, <2>3
<1>6. \A j \in DOMAIN t.ifq : IsPacket(t.ifq[j], t, d + j)
  BY <1>1, <1>2 DEF IsPacket
<1>7. h \in 0 .. Len(TrafficOf(t)) /\ d \in Nat /\ d # 0
  BY <1>1, <1>2
<1> QED BY <1>3, <1>4, <1>5, <1>6, <1>7 DEF QueueInv

\* A node that goes on keeps its packets in line, and takes up the next one or
\* none.
LEMMA ContinuesQueue ==
  ASSUME Params, NEW s, NEW t, NEW g, NodeTypes(s), NodeTypes(t), t.index = s.index,
         QueueInv(s, g), Continues(s, t)
  PROVE  /\ QueueInv(t, g)
         /\ \/ Cur(t, g) = Cur(s, g) /\ t.pktTx = s.pktTx /\ t.pktRTS = s.pktRTS
            \/ /\ Cur(t, g) = Cur(s, g) + 1 /\ s.pktTx = None /\ s.pktRTS = None
               /\ t.pktTx # None /\ (t.pktRTS # None <=> UsesRTS(t.pktTx))
<1>1. CASE t.pktTx = s.pktTx /\ t.sta_seqno = s.sta_seqno /\ t.ifq = s.ifq
           /\ t.pktRTS = s.pktRTS /\ (t.callback = s.callback \/ s.ifq = <<>>)
  BY <1>1 DEF QueueInv, Cur, IsPacket, TrafficOf
<1>2. CASE /\ s.pktTx = None /\ s.pktRTS = None /\ s.ifq # <<>>
           /\ t.ifq = Tail(s.ifq) /\ Takes(s, t, Head(s.ifq))
  <2>1. s.ifq \in Seq(Packets) /\ s.ifq # <<>> /\ g \in Nat
    BY <1>2 DEF NodeTypes, IsQueue, QueueInv
  <2>2. Len(t.ifq) = Len(s.ifq) - 1 /\ Len(s.ifq) \in Nat
    BY <1>2, <2>1
  <2>3. Cur(t, g) = Cur(s, g) + 1
    BY <2>1, <2>2 DEF Cur
  <2>4. 1 \in DOMAIN s.ifq /\ Head(s.ifq) = s.ifq[1]
    BY <2>1
  <2>5. IsPacket(Head(s.ifq), s, Cur(s, g) + 1)
    BY <2>4 DEF QueueInv
  <2>6. ASSUME NEW j \in DOMAIN t.ifq PROVE IsPacket(t.ifq[j], s, Cur(s, g) + 1 + j)
    <3>1. j \in Nat /\ j + 1 \in DOMAIN s.ifq /\ t.ifq[j] = s.ifq[j + 1]
      BY <1>2, <2>1
    <3>2. IsPacket(s.ifq[j + 1], s, Cur(s, g) + (j + 1))
      BY <3>1 DEF QueueInv
    <3>3. Cur(s, g) + (j + 1) = Cur(s, g) + 1 + j
      BY <3>1 DEF QueueInv
    <3> QED BY <3>1, <3>2, <3>3
  <2>7. g \in 0 .. Len(TrafficOf(s))
    BY DEF QueueInv
  <2>8. QueueInv(t, g)
    BY <1>2, <2>3, <2>5, <2>6, <2>7, TakesQueue
  <2> QED BY <1>2, <2>3, <2>8 DEF Takes
<1> QED BY <1>1, <1>2 DEF Continues

-------------------------------------------------------------------------------
(* How often a packet is transmitted *)

Short(p) == p.ra # MAC_BROADCAST /\ p.size < setup.RTSThreshold
Long(p) == p.ra # MAC_BROADCAST /\ p.size > setup.RTSThreshold

\* One of the first i packets was given up for want of a CTS.
GaveUp(f, i) == \E j \in 1 .. i : f[j] = "NO_CTS"

\* c is the current packet, f the fates and k the transmissions of the node's
\* packets; b is 1 while a transmission of the current one is under way.
ShortCount(s, c, k, b) ==
  /\ s.pktRTS # None => s.pktTx # None /\ UsesRTS(s.pktTx)
  /\ s.pktTx = None => s.ssrc = 0
  /\ s.pktTx # None /\ UsesRTS(s.pktTx) /\ s.pktRTS = None => s.ssrc = 0
  /\ s.pktTx # None /\ s.pktTx.ra = MAC_BROADCAST => s.ssrc = 0 /\ k[c] = b
  /\ s.pktTx # None /\ Short(s.pktTx) =>
       s.ssrc < setup.ShortRetryLimit /\ k[c] = s.ssrc + b

\* slrc_ counts the failures of the current packet, and what is left over of
\* a packet that was given up for want of a CTS.
LongCount(s, c, f, k, b) ==
  /\ s.slrc < setup.LongRetryLimit
  /\ s.pktTx # None /\ Long(s.pktTx) =>
       /\ b <= k[c] /\ k[c] <= s.slrc + b
       /\ k[c] < s.slrc + b => GaveUp(f, c)
  /\ ~(s.pktTx # None /\ Long(s.pktTx)) /\ s.slrc # 0 => GaveUp(f, c)

\* Packets that were not taken up yet were not transmitted, and the current one
\* has no fate.
History(s, c, f, k) ==
  /\ DOMAIN f = DOMAIN TrafficOf(s) /\ k \in [DOMAIN TrafficOf(s) -> Nat]
  /\ \A i \in DOMAIN k : i > c => k[i] = 0 /\ f[i] = "NONE"
  /\ s.pktTx # None => f[c] = "NONE"

\* FullRetries for one node
Full(s, f, k) ==
  \A i \in DOMAIN k : LET p == TrafficOf(s)[i] IN
    p.size # setup.RTSThreshold =>
      /\ k[i] <= Limit(p)
      /\ f[i] = "NO_ACK" /\ k[i] < Limit(p) => GaveUp(f, i - 1)

\* What is known of the counts and the history of a node
Counts(s, c, f, k, b) ==
  ShortCount(s, c, k, b) /\ LongCount(s, c, f, k, b) /\ History(s, c, f, k) /\ Full(s, f, k)

\* 1 while a transmission of the current packet is under way
InSend(s) == IF s.tx_state = "SEND" THEN 1 ELSE 0

\* The fates f and the transmissions k of a node after it has become s
Fated(f, s) == IF s.over = None THEN f ELSE [f EXCEPT ![s.over.id] = s.over.fate]
Tried(k, s) == IF s.out # None /\ s.out.type = "DATA" THEN [k EXCEPT ![s.out.id] = @ + 1] ELSE k

\* The packets of the traffic are well typed, and their limits at least 1.
LEMMA SizesNat ==
  ASSUME Params, NEW s, NodeTypes(s), NEW i \in DOMAIN TrafficOf(s)
  PROVE  /\ TrafficOf(s)[i].size \in Nat /\ setup.RTSThreshold \in Nat
         /\ Limit(TrafficOf(s)[i]) \in Nat \ {0}
         /\ TrafficOf(s) \in Seq([ra : Nodes \cup {MAC_BROADCAST}, size : Nat])
<1>1. TrafficOf(s) \in Seq([ra : Nodes \cup {MAC_BROADCAST}, size : Nat])
  BY DEF Params, Traffic, TrafficOf, NodeTypes
<1>2. TrafficOf(s)[i] \in [ra : Nodes \cup {MAC_BROADCAST}, size : Nat]
  BY <1>1, SeqElement
<1> QED BY <1>1, <1>2 DEF Params, Numbers, Limit

\* A packet that is given up for want of an ACK had all its transmissions.
Exhausted(s, c, f, k, why) ==
  TrafficOf(s)[c].size # setup.RTSThreshold /\ why = "NO_ACK" /\ k[c] < Limit(TrafficOf(s)[c])
    => GaveUp(f, c - 1)

\* slrc_ is left over only from a packet given up for want of a CTS.
LeftOver(u, f, c) == u.slrc # 0 => GaveUp(f, c)

\* A packet that is done with
LEMMA DoneCounts ==
  ASSUME Params, NEW s, NEW u, NEW c, NEW f, NEW k, NEW b, NodeTypes(s),
         NEW why \in {"ACKED", "NO_ACK", "NO_CTS", "SENT"},
         Counts(s, c, f, k, b), s.pktTx # None, c \in DOMAIN TrafficOf(s),
         s.pktTx.id = c, u.index = s.index, Done(s, u, why), 
         u.ssrc = 0, u.slrc < setup.LongRetryLimit,
         LeftOver(u, Fated(f, u), c), Exhausted(s, c, f, k, why)
  PROVE  Counts(u, c, Fated(f, u), k, 0)
<1> DEFINE g == [f EXCEPT ![c] = why]
<1>1. TrafficOf(u) = TrafficOf(s)
  BY DEF TrafficOf
<1>2. u.pktTx = None /\ u.pktRTS = None
  BY DEF Done
<1>3. TrafficOf(s) \in Seq([ra : Nodes \cup {MAC_BROADCAST}, size : Nat]) /\ c \in Nat
  <2>1. TrafficOf(s) \in Seq([ra : Nodes \cup {MAC_BROADCAST}, size : Nat])
    BY SizesNat
  <2> QED BY <2>1
<1>4. Fated(f, u) = g
  <2>1. u.over \in Overs /\ u.over.id = c /\ u.over.fate = why
    BY <1>3 DEF Done, Overs
  <2>2. u.over # None
    BY <2>1, MacAssumption
  <2> QED BY <2>1, <2>2 DEF Fated
<1>5. DOMAIN f = DOMAIN TrafficOf(s) /\ k \in [DOMAIN TrafficOf(s) -> Nat] /\ f[c] = "NONE"
  BY DEF Counts, History
<1>6. DOMAIN g = DOMAIN f /\ g[c] = why /\ \A i \in DOMAIN f : i # c => g[i] = f[i]
  BY <1>5
<1> HIDE DEF g
<1>7. ASSUME NEW i \in 0 .. Len(TrafficOf(s)), GaveUp(f, i) PROVE GaveUp(g, i)
  <2>1. PICK j \in 1 .. i : f[j] = "NO_CTS"
    BY <1>7 DEF GaveUp
  <2>2. j \in DOMAIN f /\ j # c
    BY <1>3, <1>5, <2>1
  <2> QED BY <1>6, <2>1, <2>2 DEF GaveUp
<1>8. ShortCount(u, c, k, 0)
  BY <1>2 DEF ShortCount
<1>9. LongCount(u, c, g, k, 0)
  BY <1>2, <1>4 DEF LongCount, LeftOver
<1>10. History(u, c, g, k)
  <2>1. \A i \in DOMAIN k : i > c => k[i] = 0 /\ f[i] = "NONE"
    BY DEF Counts, History
  <2>2. \A i \in DOMAIN k : i > c => k[i] = 0 /\ g[i] = "NONE"
    BY <1>3, <1>5, <1>6, <2>1
  <2> QED BY <1>1, <1>2, <1>5, <1>6, <2>2 DEF History
<1>11. Full(u, g, k)
  <2>1. SUFFICES ASSUME NEW i \in DOMAIN k, TrafficOf(s)[i].size # setup.RTSThreshold
                 PROVE  LET p == TrafficOf(s)[i] IN
                        /\ k[i] <= Limit(p)
                        /\ g[i] = "NO_ACK" /\ k[i] < Limit(p) => GaveUp(g, i - 1)
    BY <1>1 DEF Full
  <2>2. /\ k[i] <= Limit(TrafficOf(s)[i])
        /\ f[i] = "NO_ACK" /\ k[i] < Limit(TrafficOf(s)[i]) => GaveUp(f, i - 1)
    BY <2>1 DEF Counts, Full
  <2>3. i - 1 \in 0 .. Len(TrafficOf(s))
    BY <1>3, <1>5
  <2>4. CASE i = c
    BY <1>6, <1>7, <2>1, <2>2, <2>3, <2>4 DEF Exhausted
  <2>5. CASE i # c
    BY <1>5, <1>6, <1>7, <2>2, <2>3, <2>5
  <2> QED BY <2>4, <2>5
<1> QED BY <1>4, <1>8, <1>9, <1>10, <1>11 DEF Counts

\* A packet that stays, with new counts
LEMMA KeptCounts ==
  ASSUME Params, NEW s, NEW u, NEW c, NEW f, NEW k, NEW b, NEW d,
         Counts(s, c, f, k, b), u.pktTx = s.pktTx, u.index = s.index, u.over = None,
         ShortCount(u, c, k, d), LongCount(u, c, f, k, d)
  PROVE  Counts(u, c, Fated(f, u), k, d)
<1>1. TrafficOf(u) = TrafficOf(s) /\ Fated(f, u) = f
  BY DEF TrafficOf, Fated
<1> QED BY <1>1 DEF Counts, History, Full

\* A packet that is done with has its fate.
LEMMA DoneFate ==
  ASSUME NEW s, NEW u, NEW f, NEW c \in DOMAIN f, c \in Nat,
         NEW why \in {"ACKED", "NO_ACK", "NO_CTS", "SENT"},
         s.pktTx.id = c, Done(s, u, why)
  PROVE  Fated(f, u)[c] = why
<1>1. u.over \in Overs /\ u.over.id = c /\ u.over.fate = why
  BY DEF Done, Overs
<1>2. u.over # None
  BY <1>1, MacAssumption
<1> QED BY <1>1, <1>2 DEF Fated

\* The current packet was not the one given up.
LEMMA GaveUpBefore ==
  ASSUME NEW c \in Nat, NEW f, f[c] = "NONE", GaveUp(f, c)
  PROVE  GaveUp(f, c - 1)
<1>1. PICK j \in 1 .. c : f[j] = "NO_CTS"
  BY DEF GaveUp
<1>2. j # c
  BY <1>1
<1>3. j \in 1 .. c - 1
  BY <1>2
<1> QED BY <1>1, <1>3 DEF GaveUp

\* The end of a transmission keeps the counts: RetransmitRTS(),
\* RetransmitDATA(), recvCTS() and recvACK().
LEMMA EndsCounts ==
  ASSUME Params, NEW s, NEW u, NEW g, NEW f, NEW k, NodeInv(s), NodeTypes(u),
         QueueInv(s, g), Counts(s, Cur(s, g), f, k, InSend(s)), s.over = None,
         Ends(s, u), u.index = s.index
  PROVE  Counts(u, Cur(s, g), Fated(f, u), k, 0)
<1> DEFINE c == Cur(s, g)
           q == s.pktTx
           b == InSend(s)
<1>0. NodeTypes(s) /\ OnAir(s) /\ Holding(s)
  BY DEF NodeInv
<1>1. /\ s.ssrc \in Nat /\ s.slrc \in Nat /\ u.ssrc \in Nat /\ u.slrc \in Nat
      /\ setup.RTSThreshold \in Nat /\ setup.ShortRetryLimit \in Nat \ {0}
      /\ setup.LongRetryLimit \in Nat \ {0}
  BY <1>0 DEF NodeTypes, Params, Numbers
<1>2. ASSUME q # None
      PROVE  /\ c \in DOMAIN TrafficOf(s) /\ q.id = c /\ q.ra = TrafficOf(s)[c].ra
             /\ q.size = TrafficOf(s)[c].size /\ q.size \in Nat /\ k[c] \in Nat
             /\ c \in Nat \ {0} /\ f[c] = "NONE" /\ c \in DOMAIN f
  <2>1. IsPacket(q, s, c) /\ c # 0 /\ c \in Nat /\ g \in 0 .. Len(TrafficOf(s))
    BY <1>2 DEF QueueInv
  <2>2. TrafficOf(s) \in Seq([ra : Nodes \cup {MAC_BROADCAST}, size : Nat])
    BY <1>0 DEF Params, Traffic, TrafficOf, NodeTypes
  <2>3. c <= g
    <3>1. Len(s.ifq) \in Nat
      BY <1>0 DEF NodeTypes, IsQueue
    <3> QED BY <2>1, <3>1 DEF Cur
  <2> HIDE DEF c
  <2>4. c \in DOMAIN TrafficOf(s)
    BY <2>1, <2>2, <2>3
  <2>5. TrafficOf(s)[c].size \in Nat
    BY <1>0, <2>4, SizesNat
  <2>6. /\ k \in [DOMAIN TrafficOf(s) -> Nat] /\ f[c] = "NONE"
        /\ DOMAIN f = DOMAIN TrafficOf(s)
    BY <1>2 DEF Counts, History, c
  <2> QED BY <2>1, <2>4, <2>5, <2>6 DEF IsPacket
<1>3. ShortCount(s, c, k, b) /\ LongCount(s, c, f, k, b)
  BY DEF Counts
<1>4. Counts(s, c, f, k, b)
  OBVIOUS
<1> SUFFICES Counts(u, c, Fated(f, u), k, 0)
  OBVIOUS
<1> HIDE DEF c, b
<1>5. CASE s.tx_state = "RTS"
  <2>1. b = 0 /\ s.pktRTS # None /\ q # None /\ UsesRTS(q)
    BY <1>0, <1>3, <1>5 DEF InSend, OnAir, ShortCount, b
  <2>2. q.ra # MAC_BROADCAST /\ ~Short(q)
    BY <1>1, <1>2, <2>1 DEF UsesRTS, Short
  <2>3. CASE Done(s, u, "NO_CTS") /\ u.ssrc = 0 /\ u.slrc = s.slrc
    <3>1. u.slrc < setup.LongRetryLimit
      BY <1>3, <2>3 DEF LongCount
    <3>2. Fated(f, u)[c] = "NO_CTS" /\ c \in 1 .. c
      BY <1>2, <2>1, <2>3, DoneFate
    <3>3. LeftOver(u, Fated(f, u), c)
      BY <3>2 DEF LeftOver, GaveUp
    <3>4. Exhausted(s, c, f, k, "NO_CTS")
      BY DEF Exhausted
    <3> QED BY <1>0, <1>2, <1>4, <2>1, <2>3, <3>1, <3>3, <3>4, DoneCounts
  <2>4. CASE /\ Keeps(s, u) /\ u.slrc = s.slrc
             /\ u.pktRTS = s.pktRTS \/ (u.pktRTS = None /\ u.ssrc = 0)
    <3>1. ShortCount(u, c, k, 0)
      BY <2>1, <2>2, <2>4 DEF ShortCount, Keeps
    <3>2. LongCount(u, c, f, k, 0)
      BY <1>3, <2>1, <2>4 DEF LongCount, Keeps
    <3> QED BY <1>4, <2>4, <3>1, <3>2, KeptCounts DEF Keeps
  <2> QED BY <1>5, <2>3, <2>4 DEF Ends
<1>6. CASE s.tx_state = "SEND"
  <2>1. b = 1 /\ s.pktRTS = None /\ q # None
    BY <1>0, <1>6 DEF InSend, OnAir, b
  <2>2. /\ c \in DOMAIN TrafficOf(s) /\ q.id = c /\ q.size = TrafficOf(s)[c].size
        /\ q.size \in Nat /\ k[c] \in Nat /\ c \in Nat /\ f[c] = "NONE"
        /\ Limit(q) = Limit(TrafficOf(s)[c])
    BY <1>2, <2>1 DEF Limit
  <2>3. UsesRTS(q) => s.ssrc = 0
    BY <1>3, <2>1 DEF ShortCount
  <2>4. q.ra = MAC_BROADCAST => s.ssrc = 0
    BY <1>3, <2>1 DEF ShortCount
  <2>5. Short(q) => s.ssrc < setup.ShortRetryLimit /\ k[c] = s.ssrc + 1
    BY <1>3, <2>1 DEF ShortCount
  <2>6. Long(q) => /\ 1 <= k[c] /\ k[c] <= s.slrc + 1
                   /\ k[c] < s.slrc + 1 => GaveUp(f, c)
    BY <1>3, <2>1 DEF LongCount
  <2>7. s.slrc < setup.LongRetryLimit /\ (~Long(q) /\ s.slrc # 0 => GaveUp(f, c))
    BY <1>3, <2>1 DEF LongCount
  <2>8. GaveUp(f, c) => GaveUp(f, c - 1)
    BY <2>2, GaveUpBefore
  <2>9. ASSUME NEW why \in {"ACKED", "NO_ACK", "NO_CTS", "SENT"}, Done(s, u, why)
        PROVE  GaveUp(f, c) => GaveUp(Fated(f, u), c)
    <3>1. u.over.id = c /\ u.over.fate = why
      BY <2>2, <2>9 DEF Done
    <3> QED BY <2>2, <3>1 DEF GaveUp, Fated
  <2>10. CASE q.ra = MAC_BROADCAST /\ Done(s, u, "SENT") /\ SameCounts(s, u)
    <3>1. Exhausted(s, c, f, k, "SENT")
      BY DEF Exhausted
    <3>2. LeftOver(u, Fated(f, u), c)
      BY <2>7, <2>9, <2>10 DEF LeftOver, Long, SameCounts
    <3>3. u.ssrc = 0 /\ u.slrc < setup.LongRetryLimit
      BY <2>4, <2>7, <2>10 DEF SameCounts
    <3> QED BY <1>0, <1>4, <2>1, <2>2, <2>10, <3>1, <3>2, <3>3, DoneCounts
  <2>11. ASSUME Counted(s, u, 0)
         PROVE  /\ u.ssrc = 0 /\ u.slrc < setup.LongRetryLimit
                /\ u.slrc # 0 => GaveUp(f, c)
    <3>1. CASE q.size <= setup.RTSThreshold
      BY <1>1, <2>2, <2>7, <2>11, <3>1 DEF Counted, Long
    <3>2. CASE ~(q.size <= setup.RTSThreshold)
      BY <1>1, <2>2, <2>3, <2>4, <2>11, <3>2 DEF Counted, UsesRTS
    <3> QED BY <3>1, <3>2
  <2>12. CASE /\ q.ra # MAC_BROADCAST /\ CountOf(s) + 1 >= Limit(q)
              /\ Done(s, u, "NO_ACK") /\ Counted(s, u, 0)
    <3>1. Exhausted(s, c, f, k, "NO_ACK")
      <4>1. CASE q.size < setup.RTSThreshold
        BY <1>1, <2>2, <2>5, <2>12, <4>1 DEF Exhausted, CountOf, Limit, Short
      <4>2. CASE q.size > setup.RTSThreshold
        BY <1>1, <2>2, <2>6, <2>8, <2>12, <4>2 DEF Exhausted, CountOf, Limit, Long
      <4>3. CASE q.size = setup.RTSThreshold
        BY <2>2, <4>3 DEF Exhausted
      <4> QED BY <1>1, <2>2, <4>1, <4>2, <4>3
    <3>2. LeftOver(u, Fated(f, u), c)
      BY <2>9, <2>11, <2>12 DEF LeftOver
    <3> QED BY <1>0, <1>4, <2>1, <2>2, <2>11, <2>12, <3>1, <3>2, DoneCounts
  <2>13. CASE Done(s, u, "ACKED") /\ Counted(s, u, 0)
    <3>1. Exhausted(s, c, f, k, "ACKED")
      BY DEF Exhausted
    <3>2. LeftOver(u, Fated(f, u), c)
      BY <2>9, <2>11, <2>13 DEF LeftOver
    <3> QED BY <1>0, <1>4, <2>1, <2>2, <2>11, <2>13, <3>1, <3>2, DoneCounts
  <2>14. CASE /\ q.ra # MAC_BROADCAST /\ CountOf(s) + 1 < Limit(q)
              /\ Keeps(s, u) /\ Counted(s, u, CountOf(s) + 1)
              /\ u.pktRTS # None <=> UsesRTS(q)
    <3>1. ShortCount(u, c, k, 0)
      BY <1>1, <2>1, <2>2, <2>5, <2>14
         DEF ShortCount, Keeps, Counted, CountOf, UsesRTS, Short, Limit
    <3>2. LongCount(u, c, f, k, 0)
      BY <1>1, <2>1, <2>2, <2>6, <2>7, <2>14
         DEF LongCount, Keeps, Counted, CountOf, Long, Limit
    <3> QED BY <1>4, <2>14, <3>1, <3>2, KeptCounts DEF Keeps
  <2> QED BY <1>6, <2>10, <2>12, <2>13, <2>14 DEF Ends
<1>7. CASE s.tx_state \notin {"RTS", "SEND"}
  <2>1. b = 0 /\ Keeps(s, u) /\ u.pktRTS = s.pktRTS /\ SameCounts(s, u)
    BY <1>7 DEF InSend, Ends, b
  <2>2. ShortCount(u, c, k, 0) /\ LongCount(u, c, f, k, 0)
    BY <1>3, <2>1 DEF ShortCount, LongCount, Keeps, SameCounts
  <2> QED BY <1>4, <2>1, <2>2, KeptCounts DEF Keeps
<1> QED BY <1>5, <1>6, <1>7

\* What was given up stays given up.
LEMMA GaveUpLater ==
  ASSUME NEW c \in Nat, NEW f, GaveUp(f, c)
  PROVE  GaveUp(f, c + 1)
<1>1. PICK j \in 1 .. c : f[j] = "NO_CTS"
  BY DEF GaveUp
<1> QED BY <1>1 DEF GaveUp

\* A node that goes on, or takes up its next packet
LEMMA ContinuesCounts ==
  ASSUME Params, NEW u, NEW t, NEW g, NEW h, NEW f, NEW k, NodeTypes(u), NodeTypes(t),
         QueueInv(u, g), QueueInv(t, h), Counts(u, Cur(u, g), f, k, 0),
         t.index = u.index, t.ssrc = u.ssrc, t.slrc = u.slrc,
         \/ Cur(t, h) = Cur(u, g) /\ t.pktTx = u.pktTx /\ t.pktRTS = u.pktRTS
         \/ /\ Cur(t, h) = Cur(u, g) + 1 /\ u.pktTx = None /\ u.pktRTS = None
            /\ t.pktTx # None /\ (t.pktRTS # None <=> UsesRTS(t.pktTx))
  PROVE  Counts(t, Cur(t, h), f, k, 0)
<1> DEFINE c == Cur(u, g)
           d == Cur(t, h)
<1>1. TrafficOf(t) = TrafficOf(u) /\ c \in Nat /\ d \in Nat
  BY DEF TrafficOf, QueueInv
<1>2. /\ ShortCount(u, c, k, 0) /\ LongCount(u, c, f, k, 0)
      /\ History(u, c, f, k) /\ Full(u, f, k)
  BY DEF Counts
<1>3. Full(t, f, k)
  BY <1>1, <1>2 DEF Full
<1>4. CASE d = c /\ t.pktTx = u.pktTx /\ t.pktRTS = u.pktRTS
  <2> HIDE DEF c, d
  <2> QED BY <1>1, <1>2, <1>3, <1>4 DEF Counts, ShortCount, LongCount, History, d
<1>5. CASE /\ d = c + 1 /\ u.pktTx = None /\ u.pktRTS = None
           /\ t.pktTx # None /\ (t.pktRTS # None <=> UsesRTS(t.pktTx))
  <2>1. d \in DOMAIN TrafficOf(t)
    <3>1. h \in 0 .. Len(TrafficOf(t)) /\ Len(t.ifq) \in Nat
      BY DEF QueueInv, NodeTypes, IsQueue
    <3>2. d <= h
      BY <3>1 DEF Cur
    <3>3. TrafficOf(t) \in Seq([ra : Nodes \cup {MAC_BROADCAST}, size : Nat])
      BY DEF Params, Traffic, TrafficOf, NodeTypes
    <3> HIDE DEF c, d
    <3> QED BY <1>1, <1>5, <3>1, <3>2, <3>3
  <2>2. /\ t.ssrc = 0 /\ setup.ShortRetryLimit \in Nat \ {0}
        /\ t.slrc \in Nat /\ t.slrc < setup.LongRetryLimit
    BY <1>2, <1>5 DEF ShortCount, LongCount, Params, Numbers, NodeTypes
  <2> HIDE DEF c, d
  <2>3. k[d] = 0 /\ f[d] = "NONE"
    BY <1>1, <1>2, <1>5, <2>1 DEF History
  <2>4. ShortCount(t, d, k, 0)
    BY <1>5, <2>2, <2>3 DEF ShortCount
  <2>5. t.slrc # 0 => GaveUp(f, d)
    BY <1>1, <1>2, <1>5, GaveUpLater DEF LongCount
  <2>6. LongCount(t, d, f, k, 0)
    BY <2>2, <2>3, <2>5 DEF LongCount
  <2>7. History(t, d, f, k)
    <3>1. TrafficOf(t) \in Seq([ra : Nodes \cup {MAC_BROADCAST}, size : Nat])
      BY DEF Params, Traffic, TrafficOf, NodeTypes
    <3>2. k \in [DOMAIN TrafficOf(t) -> Nat] /\ DOMAIN f = DOMAIN TrafficOf(t)
      BY <1>1, <1>2 DEF History
    <3>3. \A i \in DOMAIN k : i > d => i > c
      BY <1>1, <1>5, <3>1, <3>2
    <3> QED BY <1>2, <2>3, <3>2, <3>3 DEF History
  <2> QED BY <1>3, <2>4, <2>6, <2>7 DEF Counts, d
<1> QED BY <1>4, <1>5

\* A node that transmits its packet
LEMMA SendsCounts ==
  ASSUME Params, NEW s, NEW t, NEW g, NEW f, NEW k, NodeInv(s), NodeTypes(t),
         QueueInv(s, g), Counts(s, Cur(s, g), f, k, 0),
         t.index = s.index, SameCounts(s, t), t.pktTx = s.pktTx, s.pktTx # None,
         s.pktRTS = None, t.pktRTS = None, t.out = s.pktTx
  PROVE  Counts(t, Cur(s, g), f, Tried(k, t), 1)
<1> DEFINE c == Cur(s, g)
           q == s.pktTx
           j == [k EXCEPT ![c] = @ + 1]
<1>0. NodeTypes(s)
  BY DEF NodeInv
<1>1. /\ q.type = "DATA" /\ q.id = c /\ q.size = TrafficOf(s)[c].size
      /\ q.ra = TrafficOf(s)[c].ra /\ c \in Nat \ {0}
  <2>1. GoodData(q, s.index)
    BY <1>0 DEF NodeTypes, IsTx
  <2> QED BY <2>1 DEF GoodData, QueueInv, IsPacket
<1>2. Tried(k, t) = j
  BY <1>1 DEF Tried
<1>3. /\ ShortCount(s, c, k, 0) /\ LongCount(s, c, f, k, 0)
      /\ History(s, c, f, k) /\ Full(s, f, k)
  BY DEF Counts
<1>4. c \in DOMAIN TrafficOf(s)
  <2>1. g \in 0 .. Len(TrafficOf(s)) /\ Len(s.ifq) \in Nat
    BY <1>0 DEF QueueInv, NodeTypes, IsQueue
  <2>2. c <= g
    BY <2>1 DEF Cur
  <2>3. TrafficOf(s) \in Seq([ra : Nodes \cup {MAC_BROADCAST}, size : Nat])
    BY <1>0 DEF Params, Traffic, TrafficOf, NodeTypes
  <2> HIDE DEF c
  <2> QED BY <1>1, <2>1, <2>2, <2>3
<1>5. TrafficOf(t) = TrafficOf(s) /\ t.ssrc = s.ssrc /\ t.slrc = s.slrc
  BY DEF TrafficOf, SameCounts
<1>6. k \in [DOMAIN TrafficOf(s) -> Nat]
  BY <1>3 DEF History
<1> SUFFICES Counts(t, c, f, j, 1)
  BY <1>2
<1>7. /\ j \in [DOMAIN TrafficOf(s) -> Nat] /\ j[c] = k[c] + 1 /\ k[c] \in Nat
      /\ \A i \in DOMAIN k : i # c => j[i] = k[i]
  BY <1>4, <1>6
<1> HIDE DEF c, j
<1>8. /\ s.ssrc \in Nat /\ s.slrc \in Nat /\ q.size \in Nat
      /\ setup.RTSThreshold \in Nat /\ setup.ShortRetryLimit \in Nat \ {0}
      /\ setup.LongRetryLimit \in Nat \ {0}
  BY <1>0, <1>1, <1>4, SizesNat DEF NodeTypes, Params, Numbers
<1>9. ShortCount(t, c, j, 1)
  BY <1>3, <1>5, <1>7, <1>8 DEF ShortCount
<1>10. LongCount(t, c, f, j, 1)
  BY <1>3, <1>5, <1>7, <1>8 DEF LongCount
<1>11. History(t, c, f, j)
  BY <1>1, <1>3, <1>5, <1>6, <1>7 DEF History
<1>12. Full(t, f, j)
  <2>1. SUFFICES ASSUME NEW i \in DOMAIN k, TrafficOf(s)[i].size # setup.RTSThreshold
                 PROVE  LET p == TrafficOf(s)[i] IN
                        /\ j[i] <= Limit(p)
                        /\ f[i] = "NO_ACK" /\ j[i] < Limit(p) => GaveUp(f, i - 1)
    BY <1>5, <1>6, <1>7 DEF Full
  <2>2. /\ k[i] <= Limit(TrafficOf(s)[i])
        /\ f[i] = "NO_ACK" /\ k[i] < Limit(TrafficOf(s)[i]) => GaveUp(f, i - 1)
    BY <1>3, <2>1 DEF Full
  <2>3. CASE i = c
    <3>1. f[c] = "NONE"
      BY <1>3 DEF History
    <3>2. CASE q.ra = MAC_BROADCAST
      <4>1. j[c] = 1
        BY <1>3, <1>7, <3>2 DEF ShortCount
      <4>2. Limit(TrafficOf(s)[c]) \in Nat \ {0}
        BY <1>0, <1>4, SizesNat
      <4> QED BY <2>3, <3>1, <4>1, <4>2
    <3>3. CASE q.ra # MAC_BROADCAST /\ q.size < setup.RTSThreshold
      <4>1. j[c] <= setup.ShortRetryLimit
        BY <1>3, <1>7, <1>8, <3>3 DEF ShortCount, Short
      <4> QED BY <1>1, <1>8, <2>3, <3>1, <3>3, <4>1 DEF Limit
    <3>4. CASE q.ra # MAC_BROADCAST /\ q.size > setup.RTSThreshold
      <4>1. j[c] <= setup.LongRetryLimit
        BY <1>3, <1>7, <1>8, <3>4 DEF LongCount, Long
      <4> QED BY <1>1, <1>8, <2>3, <3>1, <3>4, <4>1 DEF Limit
    <3> QED BY <1>1, <1>8, <2>1, <2>3, <3>2, <3>3, <3>4
  <2>4. CASE i # c
    BY <1>7, <2>2, <2>4
  <2> QED BY <2>3, <2>4
<1> QED BY <1>9, <1>10, <1>11, <1>12 DEF Counts

-------------------------------------------------------------------------------
(* What a step of a node does to its packets *)

\* p carries a packet.
IsData(p) == p # None /\ p.type = "DATA"

\* s, handed g packets, becomes t, handed h.
Advances(s, t, g, h) ==
  /\ Cur(s, g) <= Cur(t, h)
  /\ Cur(t, h) = Cur(s, g) /\ t.pktTx # None =>
       /\ t.pktTx = s.pktTx
       /\ s.pktTx.ra = MAC_BROADCAST /\ s.tx_state = "SEND" => t.tx_state = "SEND"
  /\ IsData(t.out) =>
       /\ t.out = s.pktTx /\ t.pktTx = s.pktTx /\ t.out # None /\ Cur(t, h) = Cur(s, g)
       /\ s.tx_state # "SEND" /\ t.tx_state = "SEND"

\* The invariant of a node as a sender
SenderInv(s, g, f, k) == QueueInv(s, g) /\ Counts(s, Cur(s, g), f, k, InSend(s))

\* A handler that leaves the packets alone
LEMMA UnsentSender ==
  ASSUME Params, NEW s, NEW t, NEW g, NEW f, NEW k, NodeInv(s), NodeInv(t), AtRest(s),
         SenderInv(s, g, f, k), t.index = s.index, Unsent(s, t)
  PROVE  SenderInv(t, g, Fated(f, t), Tried(k, t)) /\ Advances(s, t, g, g)
<1>1. Cur(t, g) = Cur(s, g) /\ TrafficOf(t) = TrafficOf(s) /\ InSend(t) = InSend(s)
  BY DEF Unsent, Cur, TrafficOf, InSend
<1>2. t.out = None /\ t.over = None
  BY DEF Unsent, AtRest
<1>3. Fated(f, t) = f /\ Tried(k, t) = k
  BY <1>2 DEF Fated, Tried
<1>4. QueueInv(t, g)
  BY <1>1 DEF SenderInv, QueueInv, Unsent, IsPacket
<1>5. Counts(t, Cur(s, g), f, k, InSend(s))
  BY <1>1 DEF SenderInv, Counts, ShortCount, LongCount, History, Full, Unsent, SameCounts
<1>6. Cur(s, g) \in Nat
  BY DEF SenderInv, QueueInv
<1>7. Advances(s, t, g, g)
  BY <1>1, <1>2, <1>6 DEF Advances, Unsent, IsData
<1> QED BY <1>1, <1>3, <1>4, <1>5, <1>7 DEF SenderInv

\* A handler that settles a transmission
LEMMA SettlesSender ==
  ASSUME Params, NEW s, NEW t, NEW g, NEW f, NEW k, NodeInv(s), NodeInv(t), AtRest(s),
         SenderInv(s, g, f, k), t.index = s.index, Settles(s, t), t.out = s.out
  PROVE  SenderInv(t, g, Fated(f, t), Tried(k, t)) /\ Advances(s, t, g, g)
<1>1. PICK u : /\ Ends(s, u) /\ Continues(u, t) /\ NodeTypes(u)
               /\ u.index = s.index /\ u.ifq = s.ifq /\ u.out = s.out
               /\ u.sta_seqno = s.sta_seqno /\ u.callback = s.callback
               /\ t.ssrc = u.ssrc /\ t.slrc = u.slrc /\ t.over = u.over
               /\ t.tx_state = "IDLE"
  BY DEF Settles
<1>2. t.out = None /\ InSend(t) = 0 /\ Fated(f, t) = Fated(f, u)
  BY <1>1 DEF AtRest, InSend, Fated
<1>3. Tried(k, t) = k
  BY <1>2 DEF Tried
<1>4. Cur(u, g) = Cur(s, g) /\ TrafficOf(u) = TrafficOf(s)
  BY <1>1 DEF Cur, TrafficOf
<1>5. u.pktTx = s.pktTx \/ u.pktTx = None
  BY <1>1 DEF Ends, Keeps, Done
<1>6. QueueInv(u, g)
  BY <1>1, <1>4, <1>5 DEF SenderInv, QueueInv, IsPacket
<1>7. Counts(u, Cur(u, g), Fated(f, u), k, 0)
  BY <1>1, <1>4, EndsCounts DEF SenderInv, AtRest
<1>8. NodeTypes(t) /\ t.index = u.index
  BY <1>1 DEF NodeInv
<1>9. /\ QueueInv(t, g)
      /\ \/ Cur(t, g) = Cur(u, g) /\ t.pktTx = u.pktTx /\ t.pktRTS = u.pktRTS
         \/ /\ Cur(t, g) = Cur(u, g) + 1 /\ u.pktTx = None /\ u.pktRTS = None
            /\ t.pktTx # None /\ (t.pktRTS # None <=> UsesRTS(t.pktTx))
  BY <1>1, <1>6, <1>8, ContinuesQueue
<1>10. Counts(t, Cur(t, g), Fated(f, u), k, 0)
  BY <1>1, <1>6, <1>7, <1>8, <1>9, ContinuesCounts
<1>11. s.tx_state = "SEND" /\ s.pktTx.ra = MAC_BROADCAST => u.pktTx = None
  BY <1>1 DEF Ends, Done
<1>12. Cur(s, g) \in Nat
  BY DEF SenderInv, QueueInv
<1>13. Advances(s, t, g, g)
  BY <1>2, <1>4, <1>5, <1>9, <1>11, <1>12 DEF Advances, IsData
<1> QED BY <1>2, <1>3, <1>9, <1>10, <1>13 DEF SenderInv

\* A handler that transmits
LEMMA SendsSender ==
  ASSUME Params, NEW s, NEW t, NEW g, NEW f, NEW k, NodeInv(s), NodeInv(t), AtRest(s),
         SenderInv(s, g, f, k), t.index = s.index, Sends(s, t)
  PROVE  SenderInv(t, g, Fated(f, t), Tried(k, t)) /\ Advances(s, t, g, g)
<1>1. /\ Cur(t, g) = Cur(s, g) /\ TrafficOf(t) = TrafficOf(s) /\ InSend(s) = 0
      /\ t.over = None /\ Cur(s, g) \in Nat
  BY DEF Sends, AtRest, Cur, TrafficOf, InSend, SenderInv, QueueInv
<1>2. Fated(f, t) = f /\ NodeTypes(s) /\ NodeTypes(t)
  BY <1>1 DEF Fated, NodeInv
<1>3. QueueInv(t, g)
  BY <1>1 DEF SenderInv, QueueInv, Sends, IsPacket
<1>4. QueueInv(s, g) /\ Counts(s, Cur(s, g), f, k, 0)
  BY <1>1 DEF SenderInv
<1>5. CASE /\ t.tx_state = "SEND" /\ s.pktRTS = None /\ t.pktRTS = None
           /\ s.pktTx # None /\ t.out = s.pktTx
  <2>1. SameCounts(s, t) /\ t.pktTx = s.pktTx /\ InSend(t) = 1 /\ s.tx_state = "IDLE"
    BY <1>5 DEF Sends, InSend
  <2>2. Counts(t, Cur(s, g), f, Tried(k, t), 1)
    BY <1>2, <1>4, <1>5, <2>1, SendsCounts
  <2>3. Advances(s, t, g, g)
    BY <1>1, <1>5, <2>1 DEF Advances
  <2> QED BY <1>1, <1>2, <1>3, <2>1, <2>2, <2>3 DEF SenderInv
<1>6. CASE /\ t.tx_state # "SEND" /\ ~IsData(t.out)
           /\ \/ t.pktRTS = s.pktRTS
              \/ s.pktRTS = None /\ s.pktTx # None /\ UsesRTS(s.pktTx) /\ t.pktRTS # None
  <2>1. SameCounts(s, t) /\ t.pktTx = s.pktTx /\ InSend(t) = 0 /\ s.tx_state = "IDLE"
    BY <1>6 DEF Sends, InSend
  <2>2. Tried(k, t) = k
    BY <1>6 DEF Tried, IsData
  <2>3. Counts(t, Cur(s, g), f, k, 0)
    BY <1>1, <1>4, <1>6, <2>1
       DEF Counts, ShortCount, LongCount, History, Full, SameCounts
  <2>4. Advances(s, t, g, g)
    BY <1>1, <1>6, <2>1 DEF Advances
  <2> QED BY <1>1, <1>2, <1>3, <2>1, <2>2, <2>3, <2>4 DEF SenderInv
<1>7. s.out = None /\ (s.pktRTS # None => s.pktRTS.type = "RTS")
  BY <1>2 DEF AtRest, NodeTypes, IsRTS
<1> QED BY <1>5, <1>6, <1>7 DEF Sends, SendsPending, IsData

\* Every handler of a timer keeps the invariant.
LEMMA HandlerSender ==
  ASSUME Params, NEW s, NEW t, NEW g, NEW f, NEW k, NodeInv(s), AtRest(s),
         SenderInv(s, g, f, k), HandlerStep(s, t)
  PROVE  SenderInv(t, g, Fated(f, t), Tried(k, t)) /\ Advances(s, t, g, g)
<1>1. NodeInv(t) /\ t.index = s.index
  BY DEF HandlerStep
<1>2. CASE Unsent(s, t)
  BY <1>1, <1>2, UnsentSender
<1>3. CASE Settles(s, t) /\ t.out = s.out
  BY <1>1, <1>3, SettlesSender
<1>4. CASE Sends(s, t)
  BY <1>1, <1>4, SendsSender
<1> QED BY <1>2, <1>3, <1>4 DEF HandlerStep

\* A node that is handed its next packet
LEMMA ArriveSender ==
  ASSUME MacInv, NEW n \in Nodes, Arrive(n), NEW f, NEW k,
         SenderInv(mac[n], given[n], f, k)
  PROVE  \E t : /\ Becomes(n, t) /\ NodeInv(t) /\ Receiving(t) /\ t.index = n
                /\ t.out = None /\ t.up = None /\ t.over = None
                /\ t.pktRx = mac[n].pktRx /\ t.cache = mac[n].cache
                /\ SenderInv(t, given[n] + 1, f, k)
                /\ Advances(mac[n], t, given[n], given[n] + 1)
<1> DEFINE s == mac[n]
           g == given[n]
           p == [ra |-> setup.traffic[n][g + 1].ra, size |-> setup.traffic[n][g + 1].size,
                 id |-> g + 1]
<1>1. PICK t : /\ Becomes(n, t) /\ NodeInv(t) /\ Receiving(t) /\ t.index = n
               /\ t.out = None /\ t.up = None /\ t.over = None
               /\ t.pktRx = s.pktRx /\ t.cache = s.cache
               /\ SameCounts(s, t) /\ t.tx_state = s.tx_state
               /\ \/ /\ s.callback /\ t.ifq = Append(s.ifq, p)
                     /\ t.pktTx = s.pktTx /\ t.pktRTS = s.pktRTS
                     /\ t.sta_seqno = s.sta_seqno /\ t.callback = s.callback
                  \/ /\ ~s.callback /\ s.pktTx = None
                     /\ s.pktRTS = None
                     /\ t.ifq = s.ifq /\ Takes(s, t, p)
  BY ArriveStep
<1>2. /\ Params /\ NodeTypes(s) /\ NodeTypes(t) /\ s.index = n /\ IsBool(s.callback)
      /\ NodeInv(s) /\ AtRest(s)
  BY <1>1, SetupParams DEF MacInv, NodesInv, NodeInv, NodeTypes
<1>3. QueueInv(s, g) /\ Counts(s, Cur(s, g), f, k, InSend(s))
  BY DEF SenderInv
<1>4. /\ g \in Nat /\ Len(s.ifq) \in Nat /\ s.ifq \in Seq(Packets) /\ Cur(s, g) \in Nat
      /\ g + 1 \in 0 .. Len(TrafficOf(s)) /\ TrafficOf(s) = setup.traffic[n]
      /\ TrafficOf(t) = TrafficOf(s)
  <2>1. s.ifq \in Seq(Packets)
    BY <1>2 DEF NodeTypes, IsQueue
  <2>2. TrafficOf(s) = setup.traffic[n] /\ TrafficOf(t) = TrafficOf(s)
    BY <1>1, <1>2 DEF TrafficOf
  <2>3. g < Len(setup.traffic[n])
    BY DEF Arrive
  <2>4. g \in 0 .. Len(TrafficOf(s)) /\ Cur(s, g) \in Nat
    BY <1>3 DEF QueueInv
  <2>5. Len(TrafficOf(s)) \in Nat
    <3>1. TrafficOf(s) \in Seq([ra : Nodes \cup {MAC_BROADCAST}, size : Nat])
      BY <1>2 DEF Params, Traffic, TrafficOf, NodeTypes
    <3> QED BY <3>1
  <2> HIDE DEF g, s
  <2> QED BY <2>1, <2>2, <2>3, <2>4, <2>5
<1>5. IsPacket(p, s, g + 1)
  BY <1>4 DEF IsPacket
<1> HIDE DEF p
<1>6. CASE /\ s.callback /\ t.ifq = Append(s.ifq, p)
           /\ t.pktTx = s.pktTx /\ t.pktRTS = s.pktRTS
           /\ t.sta_seqno = s.sta_seqno /\ t.callback = s.callback
  <2> HIDE DEF s, g
  <2>1. Len(t.ifq) = Len(s.ifq) + 1
    BY <1>4, <1>6
  <2>2. Cur(t, g + 1) = Cur(s, g)
    BY <1>4, <2>1 DEF Cur
  <2>3. ASSUME NEW j \in DOMAIN t.ifq PROVE IsPacket(t.ifq[j], t, Cur(s, g) + j)
    <3>1. CASE j = Len(s.ifq) + 1
      <4>1. t.ifq[j] = p
        BY <1>4, <1>6, <3>1
      <4>2. Cur(s, g) + j = g + 1
        <5> DEFINE l == Len(s.ifq)
        <5>1. Cur(s, g) = g - l /\ j = l + 1 /\ l \in Nat /\ g \in Nat
          BY <1>4, <3>1 DEF Cur
        <5> HIDE DEF l
        <5> QED BY <5>1
      <4> QED BY <1>4, <1>5, <4>1, <4>2 DEF IsPacket
    <3>2. CASE j # Len(s.ifq) + 1
      <4>1. j \in DOMAIN s.ifq /\ t.ifq[j] = s.ifq[j]
        BY <1>4, <1>6, <3>2
      <4>2. IsPacket(s.ifq[j], s, Cur(s, g) + j)
        BY <1>3, <4>1 DEF QueueInv
      <4> QED BY <1>4, <4>1, <4>2 DEF IsPacket
    <3> QED BY <3>1, <3>2
  <2>4. /\ t.pktTx # None => /\ IsPacket(t.pktTx, t, Cur(s, g)) /\ Cur(s, g) # 0
                             /\ t.pktTx.seq = Cur(s, g) % setup.wrap
        /\ t.sta_seqno = (Cur(s, g) + 1) % setup.wrap
    BY <1>3, <1>4, <1>6 DEF QueueInv, IsPacket
  <2>5. t.callback # FALSE
    BY <1>6
  <2>6. QueueInv(t, g + 1)
    BY <1>4, <2>2, <2>3, <2>4, <2>5 DEF QueueInv
  <2>7. Counts(t, Cur(t, g + 1), f, k, InSend(t))
    BY <1>1, <1>3, <1>4, <1>6, <2>2
       DEF Counts, ShortCount, LongCount, History, Full, SameCounts, InSend
  <2>8. Advances(s, t, g, g + 1)
    BY <1>1, <1>4, <1>6, <2>2 DEF Advances, IsData
  <2>9. SenderInv(t, g + 1, f, k)
    BY <2>6, <2>7 DEF SenderInv
  <2> QED BY <1>1, <2>8, <2>9 DEF s, g
<1>7. CASE ~s.callback /\ s.pktTx = None /\ s.pktRTS = None /\ t.ifq = s.ifq /\ Takes(s, t, p)
  <2> HIDE DEF s, g
  <2>1. s.ifq = <<>>
    BY <1>2, <1>3, <1>7 DEF QueueInv, IsBool
  <2>2. Cur(s, g) = g /\ Cur(t, g + 1) = g + 1 /\ DOMAIN t.ifq = {}
    BY <1>4, <1>7, <2>1 DEF Cur
  <2>3. QueueInv(t, g + 1)
    <3>1. \A j \in DOMAIN t.ifq : IsPacket(t.ifq[j], s, Cur(s, g) + 1 + j)
      BY <2>2
    <3>2. IsPacket(p, s, Cur(s, g) + 1) /\ Cur(t, g + 1) = Cur(s, g) + 1 /\ t.index = s.index
      BY <1>1, <1>2, <1>5, <2>2
    <3> QED BY <1>2, <1>3, <1>4, <1>7, <3>1, <3>2, TakesQueue
  <2>4. s.tx_state \notin {"RTS", "SEND"}
    BY <1>2, <1>7 DEF NodeInv, OnAir
  <2>5. InSend(s) = 0 /\ InSend(t) = 0
    BY <1>1, <2>4 DEF InSend, s
  <2>6. /\ t.index = s.index /\ t.ssrc = s.ssrc /\ t.slrc = s.slrc
        /\ Cur(t, g + 1) = Cur(s, g) + 1 /\ t.pktTx # None
        /\ t.pktRTS # None <=> UsesRTS(t.pktTx)
    BY <1>1, <1>2, <1>7, <2>2 DEF SameCounts, s, Takes
  <2>7. Counts(t, Cur(t, g + 1), f, k, 0)
    BY <1>2, <1>3, <1>7, <2>3, <2>5, <2>6, ContinuesCounts
  <2>8. Advances(s, t, g, g + 1)
    BY <1>1, <1>4, <2>2 DEF Advances, IsData
  <2>9. SenderInv(t, g + 1, f, k)
    BY <2>3, <2>5, <2>7 DEF SenderInv
  <2> QED BY <1>1, <2>8, <2>9 DEF s, g
<1> QED BY <1>1, <1>6, <1>7

-------------------------------------------------------------------------------
(* Every step of a node *)

\* The inductive invariant of the senders
SendersInv ==
  /\ DOMAIN fate = Nodes /\ DOMAIN tries = Nodes
  /\ \A n \in Nodes : SenderInv(mac[n], given[n], fate[n], tries[n])

\* Node n hears nothing new, and may transmit; or it is done with the frame it
\* received; or the first frame on its way reaches it.
Overhears(n, t) ==
  \/ RxKept(mac[n], t) /\ t.up = None /\ t.cache = mac[n].cache /\ air' = Transmitted(n, t)
  \/ /\ t.pktRx = None /\ mac[n].pktRx # None /\ t.out = None /\ air' = air
     /\ Passes(mac[n], t, mac[n].pktRx)
     /\ \/ t.up = None
        \/ /\ mac[n].pktRx.type = "DATA" /\ mac[n].pktRx.ra \in {n, MAC_BROADCAST}
  \/ /\ air[n] # <<>> /\ air' = [air EXCEPT ![n] = Tail(@)]
     /\ t.out = None /\ t.up = None /\ t.cache = mac[n].cache
     /\ Hears(mac[n], t, Head(air[n]).frame)

\* Node n handles an event, which makes it t.
Event(n, t) ==
  /\ Becomes(n, t) /\ NodeInv(t) /\ Receiving(t) /\ t.index = n
  /\ SenderInv(t, given'[n], Fated(fate[n], t), Tried(tries[n], t))
  /\ Advances(mac[n], t, given[n], given'[n])
  /\ \A m \in Nodes : m # n => given'[m] = given[m]
  /\ Overhears(n, t)

\* Nothing is on the air that no handler put there.
LEMMA NothingTransmitted ==
  ASSUME MacInv, NEW n, NEW t, t.out = None
  PROVE  Transmitted(n, t) = air
<1>1. air = [m \in Nodes |-> air[m]]
  BY DEF MacInv
<1> QED BY <1>1 DEF Transmitted

\* LL hands a packet down.
LEMMA ArriveEvent ==
  ASSUME MacInv, SendersInv, NEW n \in Nodes, Arrive(n)
  PROVE  \E t : Event(n, t)
<1>1. SenderInv(mac[n], given[n], fate[n], tries[n])
  BY DEF SendersInv
<1>2. PICK t : /\ Becomes(n, t) /\ NodeInv(t) /\ Receiving(t) /\ t.index = n
               /\ t.out = None /\ t.up = None /\ t.over = None
               /\ t.pktRx = mac[n].pktRx /\ t.cache = mac[n].cache
               /\ SenderInv(t, given[n] + 1, fate[n], tries[n])
               /\ Advances(mac[n], t, given[n], given[n] + 1)
  BY <1>1, ArriveSender
<1>3. given'[n] = given[n] + 1 /\ air' = air /\ \A m \in Nodes : m # n => given'[m] = given[m]
  BY DEF MacInv, Arrive
<1>4. Fated(fate[n], t) = fate[n] /\ Tried(tries[n], t) = tries[n]
  BY <1>2 DEF Fated, Tried
<1>5. RxKept(mac[n], t)
  BY <1>2, RxSame DEF MacInv, NodesInv, NodeInv
<1>6. Overhears(n, t)
  BY <1>2, <1>3, <1>5, NothingTransmitted DEF Overhears
<1> QED BY <1>2, <1>3, <1>4, <1>6 DEF Event

\* A timer expires.
LEMMA ExpireEvent ==
  ASSUME MacInv, SendersInv, NEW n \in Nodes, NEW timer \in Timers, Expire(n, timer)
  PROVE  \E t : Event(n, t)
<1>1. PICK t : Becomes(n, t) /\ air' = Transmitted(n, t) /\ HandlerStep(mac[n], t)
  BY ExpireStep
<1>2. given' = given /\ SenderInv(mac[n], given[n], fate[n], tries[n]) /\ Params
  BY SetupParams DEF Expire, SendersInv, MacInv
<1>3. NodeInv(mac[n]) /\ AtRest(mac[n]) /\ mac[n].index = n
  BY DEF MacInv, NodesInv
<1>4. /\ SenderInv(t, given[n], Fated(fate[n], t), Tried(tries[n], t))
      /\ Advances(mac[n], t, given[n], given[n])
  BY <1>1, <1>2, <1>3, HandlerSender
<1>5. Overhears(n, t)
  <2>1. mac[n].up = None /\ mac[n].out = None
    BY <1>3 DEF AtRest
  <2>2. CASE RxKept(mac[n], t) /\ t.up = mac[n].up /\ t.cache = mac[n].cache
    BY <1>1, <2>1, <2>2 DEF Overhears
  <2>3. CASE /\ t.pktRx = None /\ mac[n].pktRx # None /\ t.out = mac[n].out
             /\ Accepted(mac[n], t, mac[n].pktRx)
    <3>1. air' = air
      BY <1>1, <2>1, <2>3, NothingTransmitted
    <3> QED BY <1>3, <2>1, <2>3, <3>1 DEF Overhears, Accepted
  <2> QED BY <1>1, <2>2, <2>3 DEF HandlerStep
<1> QED BY <1>1, <1>2, <1>3, <1>4, <1>5 DEF Event, HandlerStep

\* A frame reaches a node.
LEMMA ReachEvent ==
  ASSUME MacInv, SendersInv, NEW n \in Nodes, Reach(n)
  PROVE  \E t : Event(n, t)
<1> DEFINE p == Head(air[n]).frame
<1>1. air[n] # <<>> /\ air' = [air EXCEPT ![n] = Tail(@)] /\ given' = given
  BY ReachStep
<1>2. PICK t : /\ Becomes(n, t) /\ NodeInv(t) /\ Receiving(t)
               /\ Only(mac[n], t, Hearing) /\ Hears(mac[n], t, p)
  BY ReachStep
<1>3. SenderInv(mac[n], given[n], fate[n], tries[n]) /\ Params
  BY SetupParams DEF SendersInv, MacInv
<1>4. NodeInv(mac[n]) /\ AtRest(mac[n]) /\ mac[n].index = n
  BY DEF MacInv, NodesInv
<1>5. Unsent(mac[n], t) /\ t.index = n /\ t.cache = mac[n].cache /\ t.up = None /\ t.out = None
  BY <1>2, <1>4 DEF Only, Hearing, Unsent, SameCounts, AtRest
<1>6. /\ SenderInv(t, given[n], Fated(fate[n], t), Tried(tries[n], t))
      /\ Advances(mac[n], t, given[n], given[n])
  BY <1>2, <1>3, <1>4, <1>5, UnsentSender
<1>7. Overhears(n, t)
  BY <1>1, <1>2, <1>5 DEF Overhears
<1> QED BY <1>1, <1>2, <1>5, <1>6, <1>7 DEF Event

\* The invariant depends on no variable but setup.
LEMMA SenderSame ==
  ASSUME UNCHANGED setup, NEW s, NEW g, NEW f, NEW k, SenderInv(s, g, f, k)
  PROVE  SenderInv(s, g, f, k)'
<1>1. QueueInv(s, g)'
  BY DEF SenderInv, QueueInv, IsPacket, TrafficOf, Cur
<1>2. Counts(s, Cur(s, g), f, k, InSend(s))'
  BY DEF SenderInv, Counts, ShortCount, LongCount, History, Full, TrafficOf, Cur, InSend,
         Short, Long, UsesRTS, GaveUp, Limit
<1> QED BY <1>1, <1>2 DEF SenderInv

\* It does not depend on timers and reception.
LEMMA SenderAlike ==
  ASSUME NEW s, NEW t, NEW g, NEW f, NEW k, SenderInv(s, g, f, k),
         t.pktTx = s.pktTx, t.pktRTS = s.pktRTS, t.ifq = s.ifq,
         t.sta_seqno = s.sta_seqno, t.callback = s.callback, t.index = s.index,
         t.ssrc = s.ssrc, t.slrc = s.slrc, t.tx_state = s.tx_state
  PROVE  SenderInv(t, g, f, k)
<1>1. Cur(t, g) = Cur(s, g) /\ TrafficOf(t) = TrafficOf(s) /\ InSend(t) = InSend(s)
  BY DEF Cur, TrafficOf, InSend
<1>2. QueueInv(t, g)
  BY <1>1 DEF SenderInv, QueueInv, IsPacket
<1>3. Counts(t, Cur(s, g), f, k, InSend(s))
  BY <1>1 DEF SenderInv, Counts, ShortCount, LongCount, History, Full
<1> QED BY <1>1, <1>2, <1>3 DEF SenderInv

\* An event keeps the invariant of the senders.
LEMMA EventSenders ==
  ASSUME MacInv, SendersInv, NEW n \in Nodes, NEW t, Event(n, t)
  PROVE  SendersInv'
<1>1. Becomes(n, t) /\ NodeInv(t) /\ Receiving(t) /\ t.index = n
  BY DEF Event
<1>2. mac'[n] = Clean(t) /\ (\A m \in Nodes : m # n => mac'[m] = mac[m])
  BY <1>1, BecomesInv DEF MacInv
<1>3. setup' = setup /\ DOMAIN fate = Nodes /\ DOMAIN tries = Nodes
  BY <1>1 DEF Becomes, SendersInv
<1>4. DOMAIN fate' = Nodes /\ fate'[n] = Fated(fate[n], t)
      /\ \A m \in Nodes : m # n => fate'[m] = fate[m]
  BY <1>1, <1>3 DEF Becomes, Fated
<1>5. DOMAIN tries' = Nodes /\ tries'[n] = Tried(tries[n], t)
      /\ \A m \in Nodes : m # n => tries'[m] = tries[m]
  BY <1>1, <1>3 DEF Becomes, Tried
<1>6. SenderInv(Clean(t), given'[n], fate'[n], tries'[n])
  <2>1. Only(t, Clean(t), {"out", "up", "over"})
    BY <1>1, CleanInv
  <2>2. SenderInv(t, given'[n], fate'[n], tries'[n])
    BY <1>4, <1>5 DEF Event
  <2>3. /\ Clean(t).pktTx = t.pktTx /\ Clean(t).pktRTS = t.pktRTS /\ Clean(t).ifq = t.ifq
        /\ Clean(t).sta_seqno = t.sta_seqno /\ Clean(t).callback = t.callback
        /\ Clean(t).index = t.index /\ Clean(t).ssrc = t.ssrc /\ Clean(t).slrc = t.slrc
        /\ Clean(t).tx_state = t.tx_state
    BY <2>1 DEF Only
  <2> QED BY <2>2, <2>3, SenderAlike
<1>7. ASSUME NEW m \in Nodes PROVE SenderInv(mac'[m], given'[m], fate'[m], tries'[m])
  BY <1>2, <1>4, <1>5, <1>6 DEF Event, SendersInv
<1>8. ASSUME NEW m \in Nodes PROVE SenderInv(mac[m], given[m], fate[m], tries[m])'
  <2>1. ASSUME NEW s, NEW g, NEW f, NEW k, SenderInv(s, g, f, k)
        PROVE  SenderInv(s, g, f, k)'
    BY <1>3, <2>1, SenderSame
  <2> QED BY <1>7, <2>1
<1> QED BY <1>4, <1>5, <1>8 DEF SendersInv

\* So does time.
LEMMA TickSenders ==
  ASSUME MacInv, SendersInv, Tick
  PROVE  SendersInv'
<1>1. PICK d \in Nat :
         /\ mac' = [n \in Nodes |-> Later(mac[n], d)]
         /\ air' = [n \in Nodes |-> [i \in DOMAIN air[n] |->
                      [air[n][i] EXCEPT !.left = @ - d]]]
         /\ \A n \in Nodes : \A t \in Timers : mac[n][t] = Off \/ d <= mac[n][t]
         /\ \A n \in Nodes : \A i \in DOMAIN air[n] : d <= air[n][i].left
  BY TickStep
<1>2. UNCHANGED <<setup, given, fate, tries>>
  BY DEF Tick
<1>3. ASSUME NEW n \in Nodes PROVE SenderInv(mac'[n], given'[n], fate'[n], tries'[n])
  <2>1. Only(mac[n], Later(mac[n], d), Timers)
    BY <1>1, LaterInv, SetupParams DEF MacInv, NodesInv
  <2>2. SenderInv(mac[n], given[n], fate[n], tries[n])
    BY DEF SendersInv
  <2> DEFINE t == Later(mac[n], d)
  <2> HIDE DEF t
  <2>3. /\ t.pktTx = mac[n].pktTx /\ t.pktRTS = mac[n].pktRTS /\ t.ifq = mac[n].ifq
        /\ t.sta_seqno = mac[n].sta_seqno /\ t.callback = mac[n].callback
        /\ t.index = mac[n].index /\ t.ssrc = mac[n].ssrc /\ t.slrc = mac[n].slrc
        /\ t.tx_state = mac[n].tx_state
    BY <2>1 DEF Only, Timers, t
  <2>4. SenderInv(t, given[n], fate[n], tries[n])
    BY <2>2, <2>3, SenderAlike
  <2> QED BY <1>1, <1>2, <2>4 DEF t
<1>4. ASSUME NEW m \in Nodes PROVE SenderInv(mac[m], given[m], fate[m], tries[m])'
  <2>1. ASSUME NEW s, NEW g, NEW f, NEW k, SenderInv(s, g, f, k)
        PROVE  SenderInv(s, g, f, k)'
    BY <1>2, <2>1, SenderSame
  <2> QED BY <1>3, <2>1
<1> QED BY <1>2, <1>4 DEF SendersInv

\* It holds initially.
LEMMA InitSenders == ASSUME Init PROVE SendersInv
<1>1. setup \in Setups /\ Params
  BY SetupParams DEF Init
<1>2. ASSUME NEW n \in Nodes PROVE SenderInv(mac[n], given[n], fate[n], tries[n])
  <2>1. /\ mac[n] = MacInit(n) /\ given[n] = 0
        /\ fate[n] = [i \in DOMAIN setup.traffic[n] |-> "NONE"]
        /\ tries[n] = [i \in DOMAIN setup.traffic[n] |-> 0]
    BY DEF Init
  <2>2. /\ mac[n].pktTx = None /\ mac[n].pktRTS = None /\ mac[n].ifq = <<>>
        /\ mac[n].sta_seqno = 1 /\ mac[n].callback = FALSE /\ mac[n].index = n
        /\ mac[n].ssrc = 0 /\ mac[n].slrc = 0 /\ mac[n].tx_state = "IDLE"
    BY <2>1 DEF MacInit
  <2>3. /\ setup.wrap \in Nat \ {0, 1} /\ setup.LongRetryLimit \in Nat \ {0}
        /\ setup.traffic[n] \in Seq([ra : Nodes \cup {MAC_BROADCAST}, size : Nat])
    BY <1>1 DEF Params, Numbers, Traffic
  <2>4. Len(setup.traffic[n]) \in Nat
    BY <2>3
  <2>5. Cur(mac[n], given[n]) = 0 /\ TrafficOf(mac[n]) = setup.traffic[n]
    <3>1. Len(mac[n].ifq) = 0
      BY <2>2
    <3>2. given[n] = 0
      BY <2>1
    <3>3. Cur(mac[n], given[n]) = 0
      BY <3>1, <3>2 DEF Cur
    <3>4. TrafficOf(mac[n]) = setup.traffic[n]
      BY <2>2 DEF TrafficOf
    <3> QED BY <3>3, <3>4
  <2>6. 1 = (0 + 1) % setup.wrap
    BY <2>3
  <2>7. QueueInv(mac[n], given[n])
    BY <2>1, <2>2, <2>4, <2>5, <2>6 DEF QueueInv
  <2>8. ShortCount(mac[n], 0, tries[n], 0) /\ LongCount(mac[n], 0, fate[n], tries[n], 0)
    BY <2>2, <2>3 DEF ShortCount, LongCount
  <2>9. History(mac[n], 0, fate[n], tries[n])
    BY <2>1, <2>2, <2>5 DEF History
  <2>10. Full(mac[n], fate[n], tries[n])
    <3>1. SUFFICES ASSUME NEW i \in DOMAIN setup.traffic[n]
                   PROVE  0 <= Limit(setup.traffic[n][i])
      BY <2>1, <2>5 DEF Full
    <3>2. setup.ShortRetryLimit \in Nat /\ setup.LongRetryLimit \in Nat
      BY <1>1 DEF Params, Numbers
    <3> QED BY <3>2 DEF Limit
  <2>11. InSend(mac[n]) = 0
    BY <2>2 DEF InSend
  <2> QED BY <2>5, <2>7, <2>8, <2>9, <2>10, <2>11 DEF SenderInv, Counts
<1>3. DOMAIN fate = Nodes /\ DOMAIN tries = Nodes
  BY DEF Init
<1> QED BY <1>2, <1>3 DEF SendersInv

\* Every step keeps it.
LEMMA NextSenders ==
  ASSUME MacInv, SendersInv, [Next]_vars
  PROVE  SendersInv'
<1>1. CASE Tick
  BY <1>1, TickSenders
<1>2. ASSUME NEW n \in Nodes, Arrive(n) \/ Reach(n) \/ \E t \in Timers : Expire(n, t)
      PROVE  SendersInv'
  <2>1. \E t : Event(n, t)
    BY <1>2, ArriveEvent, ReachEvent, ExpireEvent
  <2> QED BY <2>1, EventSenders
<1>3. CASE UNCHANGED vars
  <2>1. UNCHANGED <<setup, mac, given, fate, tries>>
    BY <1>3 DEF vars
  <2>2. ASSUME NEW m \in Nodes PROVE SenderInv(mac[m], given[m], fate[m], tries[m])'
    <3>1. ASSUME NEW s, NEW g, NEW f, NEW k, SenderInv(s, g, f, k)
          PROVE  SenderInv(s, g, f, k)'
      BY <2>1, <3>1, SenderSame
    <3>2. SenderInv(mac'[m], given'[m], fate'[m], tries'[m])
      BY <2>1 DEF SendersInv
    <3> QED BY <3>1, <3>2
  <2> QED BY <2>1, <2>2 DEF SendersInv
<1> QED BY <1>1, <1>2, <1>3 DEF Next

\* It implies FullRetries.
LEMMA SendersFull == MacInv /\ SendersInv => FullRetries
<1> SUFFICES ASSUME MacInv, SendersInv, NEW n \in Nodes, NEW i \in DOMAIN tries[n],
                    setup.traffic[n][i].size # setup.RTSThreshold
             PROVE  LET p == setup.traffic[n][i] IN
                    /\ tries[n][i] <= Limit(p)
                    /\ fate[n][i] = "NO_ACK" /\ tries[n][i] < Limit(p) =>
                         \E j \in 1 .. i - 1 : fate[n][j] = "NO_CTS"
  BY DEF FullRetries
<1>1. Full(mac[n], fate[n], tries[n]) /\ TrafficOf(mac[n]) = setup.traffic[n]
  BY DEF SendersInv, SenderInv, Counts, MacInv, NodesInv, TrafficOf
<1> QED BY <1>1 DEF Full, GaveUp

(***************************************************************************)
(* No packet is transmitted more often than its retry limit allows, and    *)
(* one that is given up for want of an ACK has been transmitted that       *)
(* often, unless an earlier packet was given up for want of a CTS:         *)
(* RetransmitRTS() leaves slrc_ as it is, and RetransmitDATA() counts on   *)
(* from there. For every limit, size and traffic, and every order of       *)
(* timeouts and late answers; packets of exactly RTSThreshold bytes have   *)
(* no limit.                                                               *)
(***************************************************************************)
THEOREM RetriesAreFull == Spec => []FullRetries
<1>1. Init => MacInv /\ SendersInv
  BY InitInv, InitSenders
<1>2. MacInv /\ SendersInv /\ [Next]_vars => (MacInv /\ SendersInv)'
  BY NextInv, NextSenders
<1> QED BY <1>1, <1>2, SendersFull, PTL DEF Spec

-------------------------------------------------------------------------------
(* The frames on their way to a node, and the packets it has passed up *)

\* Place 0 is the frame that is being received, rx; q holds those behind it.
At(rx, q, i) == IF i = 0 THEN rx ELSE q[i].frame
Coming(rx, q) == {i \in 0 .. Len(q) : IsData(At(rx, q, i))}

\* S holds the senders, G how many packets each was handed.
CurOf(S, G, m) == Cur(S[m], G[m])

\* p is a frame its sender has transmitted; a broadcast is transmitted once.
Sent(S, G, p) ==
  /\ p.ta \in Nodes /\ p.id \in 1 .. CurOf(S, G, p.ta)
  /\ p.seq = p.id % setup.wrap /\ p.ra = setup.traffic[p.ta][p.id].ra
  /\ p.ra = MAC_BROADCAST /\ p.id = CurOf(S, G, p.ta) /\ S[p.ta].pktTx # None =>
       S[p.ta].tx_state = "SEND"

\* Packet x, <<sender, number>>, was passed up; if it can be transmitted again
\* the duplicate filter, c, knows it.
Past(S, G, c, x) ==
  /\ x \in Nodes \X Nat /\ x[2] \in 1 .. CurOf(S, G, x[1])
  /\ x[2] = CurOf(S, G, x[1]) /\ S[x[1]].pktTx # None =>
       \/ S[x[1]].pktTx.ra # MAC_BROADCAST /\ c[x[1]] = x[2] % setup.wrap
       \/ S[x[1]].pktTx.ra = MAC_BROADCAST /\ S[x[1]].tx_state = "SEND"

\* The frame p comes behind packet x, which was passed up.
Behind(c, x, p) ==
  p.ta = x[1] =>
    /\ x[2] <= p.id
    /\ x[2] = p.id => p.ra # MAC_BROADCAST /\ c[x[1]] = x[2] % setup.wrap

\* The frame q comes behind p.
Follows(p, q) ==
  p.ta = q.ta => p.id <= q.id /\ (p.id = q.id => p.ra # MAC_BROADCAST)

\* InOrderOnce for the packets ps that one node passed up
InOrder(ps) ==
  \A i, j \in DOMAIN ps :
    i < j /\ ps[i][1] = ps[j][1] =>
      \/ ps[i][2] < ps[j][2]
      \/ ps[i][2] = ps[j][2] /\ ps[j][2] % setup.wrap = 0

\* The invariant of a node as a receiver
ReceiverInv(S, G, rx, q, c, ps) ==
  /\ \A i \in Coming(rx, q) : Sent(S, G, At(rx, q, i))
  /\ \A i, j \in Coming(rx, q) : i < j => Follows(At(rx, q, i), At(rx, q, j))
  /\ ps \in Seq(Nodes \X Nat)
  /\ \A k \in DOMAIN ps : Past(S, G, c, ps[k])
  /\ \A k \in DOMAIN ps : \A j \in Coming(rx, q) : Behind(c, ps[k], At(rx, q, j))
  /\ InOrder(ps)

\* The senders S become T.
Move(S, T, G, H) ==
  \A m \in Nodes :
    /\ CurOf(S, G, m) \in Nat /\ CurOf(T, H, m) \in Nat /\ CurOf(S, G, m) <= CurOf(T, H, m)
    /\ S[m].pktTx # None => S[m].pktTx.ra = setup.traffic[m][CurOf(S, G, m)].ra
    /\ CurOf(T, H, m) = CurOf(S, G, m) /\ T[m].pktTx # None =>
         /\ T[m].pktTx = S[m].pktTx
         /\ S[m].pktTx.ra = MAC_BROADCAST /\ S[m].tx_state = "SEND" => T[m].tx_state = "SEND"

\* A frame that was transmitted stays so,
LEMMA SentMoves ==
  ASSUME NEW S, NEW T, NEW G, NEW H, Move(S, T, G, H), NEW p, Sent(S, G, p)
  PROVE  Sent(T, H, p)
<1> DEFINE m == p.ta
           c == CurOf(S, G, m)
           d == CurOf(T, H, m)
<1>1. /\ m \in Nodes /\ c \in Nat /\ d \in Nat /\ c <= d /\ p.id \in 1 .. c
      /\ p.ra = setup.traffic[m][p.id].ra /\ p.seq = p.id % setup.wrap
  BY DEF Sent, Move
<1>2. ASSUME p.ra = MAC_BROADCAST, p.id = d, T[m].pktTx # None
      PROVE  T[m].tx_state = "SEND"
  <2>1. c = d
    BY <1>1, <1>2
  <2>2. T[m].pktTx = S[m].pktTx
    BY <1>1, <1>2, <2>1 DEF Move
  <2>3. S[m].tx_state = "SEND"
    BY <1>2, <2>1, <2>2 DEF Sent
  <2>4. S[m].pktTx.ra = MAC_BROADCAST
    BY <1>1, <1>2, <2>1, <2>2 DEF Move
  <2> QED BY <1>1, <1>2, <2>1, <2>3, <2>4 DEF Move
<1>3. p.id \in 1 .. d
  BY <1>1
<1> QED BY <1>1, <1>2, <1>3 DEF Sent

\* and a packet that was passed up stays so,
LEMMA PastMoves ==
  ASSUME NEW S, NEW T, NEW G, NEW H, Move(S, T, G, H), NEW c, NEW x, Past(S, G, c, x)
  PROVE  Past(T, H, c, x)
<1> DEFINE m == x[1]
           i == CurOf(S, G, m)
           j == CurOf(T, H, m)
<1>1. x \in Nodes \X Nat /\ m \in Nodes /\ x[2] \in 1 .. i
  BY DEF Past
<1>2. i \in Nat /\ j \in Nat /\ i <= j
  BY <1>1 DEF Move
<1>3. ASSUME x[2] = j, T[m].pktTx # None
      PROVE  \/ T[m].pktTx.ra # MAC_BROADCAST /\ c[m] = x[2] % setup.wrap
             \/ T[m].pktTx.ra = MAC_BROADCAST /\ T[m].tx_state = "SEND"
  <2>1. i = j
    BY <1>1, <1>2, <1>3
  <2>2. T[m].pktTx = S[m].pktTx
    BY <1>1, <1>3, <2>1 DEF Move
  <2>3. \/ S[m].pktTx.ra # MAC_BROADCAST /\ c[m] = x[2] % setup.wrap
        \/ S[m].pktTx.ra = MAC_BROADCAST /\ S[m].tx_state = "SEND"
    BY <1>3, <2>1, <2>2 DEF Past
  <2> QED BY <1>1, <1>3, <2>1, <2>2, <2>3 DEF Move
<1>4. x[2] \in 1 .. j
  BY <1>1, <1>2
<1> QED BY <1>1, <1>3, <1>4 DEF Past

\* whatever the senders do next.
LEMMA ReceiverMoves ==
  ASSUME NEW S, NEW T, NEW G, NEW H, Move(S, T, G, H), NEW rx, NEW q, NEW c, NEW ps,
         ReceiverInv(S, G, rx, q, c, ps)
  PROVE  ReceiverInv(T, H, rx, q, c, ps)
<1>1. \A i \in Coming(rx, q) : Sent(T, H, At(rx, q, i))
  BY SentMoves DEF ReceiverInv
<1>2. \A k \in DOMAIN ps : Past(T, H, c, ps[k])
  BY PastMoves DEF ReceiverInv
<1> QED BY <1>1, <1>2 DEF ReceiverInv

-------------------------------------------------------------------------------
(* Frames that are lost *)

\* The frames are the same but for their errors.
Alike(p, q) ==
  /\ p.type = q.type /\ p.ta = q.ta /\ p.ra = q.ra /\ p.id = q.id /\ p.seq = q.seq

\* What is coming in rx and q came, in that order, in ry and r.
Within(rx, q, ry, r, e) ==
  /\ \A i \in Coming(rx, q) : e[i] \in Coming(ry, r) /\ Alike(At(rx, q, i), At(ry, r, e[i]))
  /\ \A i, j \in Coming(rx, q) : i < j => e[i] < e[j]

\* Frames that are lost spoil nothing.
LEMMA ReceiverLoses ==
  ASSUME NEW S, NEW G, NEW rx, NEW q, NEW ry, NEW r, NEW c, NEW ps, NEW e,
         ReceiverInv(S, G, ry, r, c, ps), Within(rx, q, ry, r, e)
  PROVE  ReceiverInv(S, G, rx, q, c, ps)
<1>1. ASSUME NEW i \in Coming(rx, q) PROVE Sent(S, G, At(rx, q, i))
  <2>1. e[i] \in Coming(ry, r) /\ Alike(At(rx, q, i), At(ry, r, e[i]))
    BY DEF Within
  <2>2. Sent(S, G, At(ry, r, e[i]))
    BY <2>1 DEF ReceiverInv
  <2> QED BY <2>1, <2>2 DEF Sent, Alike
<1>2. ASSUME NEW i \in Coming(rx, q), NEW j \in Coming(rx, q), i < j
      PROVE  Follows(At(rx, q, i), At(rx, q, j))
  <2>1. /\ e[i] \in Coming(ry, r) /\ Alike(At(rx, q, i), At(ry, r, e[i]))
        /\ e[j] \in Coming(ry, r) /\ Alike(At(rx, q, j), At(ry, r, e[j]))
        /\ e[i] < e[j]
    BY <1>2 DEF Within
  <2>2. Follows(At(ry, r, e[i]), At(ry, r, e[j]))
    BY <2>1 DEF ReceiverInv
  <2> QED BY <2>1, <2>2 DEF Follows, Alike
<1>3. ASSUME NEW k \in DOMAIN ps, NEW j \in Coming(rx, q)
      PROVE  Behind(c, ps[k], At(rx, q, j))
  <2>1. e[j] \in Coming(ry, r) /\ Alike(At(rx, q, j), At(ry, r, e[j]))
    BY DEF Within
  <2>2. Behind(c, ps[k], At(ry, r, e[j]))
    BY <2>1 DEF ReceiverInv
  <2> QED BY <2>1, <2>2 DEF Behind, Alike
<1> QED BY <1>1, <1>2, <1>3 DEF ReceiverInv

\* Nor does an error.
LEMMA ErrorAlike ==
  ASSUME NEW p, GoodFrame(p), NEW e \in BOOLEAN
  PROVE  LET q == [p EXCEPT !.error = e] IN Alike(q, p) /\ q # None
<1>1. p \in Frames
  BY DEF GoodFrame
<1>2. [p EXCEPT !.error = e] \in Frames
  BY <1>1 DEF Frames
<1>3. [p EXCEPT !.error = e] # None
  BY <1>2, MacAssumption
<1>4. Alike([p EXCEPT !.error = e], p)
  BY <1>1 DEF Alike, Frames
<1> QED BY <1>3, <1>4

\* The frame that is being received stays or is lost.
LEMMA ReceiverKeeps ==
  ASSUME NEW S, NEW G, NEW rx, NEW q, NEW ry, NEW r, NEW c, NEW ps,
         ReceiverInv(S, G, ry, r, c, ps), q \in Seq(InAir), Len(r) = Len(q),
         \A i \in 1 .. Len(q) : q[i].frame = r[i].frame,
         rx = None \/ (ry # None /\ Alike(rx, ry))
  PROVE  ReceiverInv(S, G, rx, q, c, ps)
<1> DEFINE e == [i \in 0 .. Len(q) |-> i]
<1>0. Len(q) \in Nat
  OBVIOUS
<1>1. ASSUME NEW i \in Coming(rx, q)
      PROVE  e[i] = i /\ i \in Coming(ry, r) /\ Alike(At(rx, q, i), At(ry, r, i))
  <2>1. i \in 0 .. Len(q) /\ IsData(At(rx, q, i)) /\ e[i] = i
    BY DEF Coming
  <2>2. CASE i = 0
    <3>1. rx # None /\ rx.type = "DATA"
      BY <2>1, <2>2 DEF At, IsData
    <3> QED BY <1>0, <2>1, <2>2, <3>1 DEF Coming, At, IsData, Alike
  <2>3. CASE i # 0
    <3>1. At(rx, q, i) = At(ry, r, i)
      BY <1>0, <2>1, <2>3 DEF At
    <3> QED BY <2>1, <3>1 DEF Coming, Alike
  <2> QED BY <2>2, <2>3
<1>2. Within(rx, q, ry, r, e)
  <2> HIDE DEF e
  <2> QED BY <1>1 DEF Within
<1> HIDE DEF e
<1> QED BY <1>2, ReceiverLoses

\* The first frame on its way is heard.
LEMMA ReceiverHears ==
  ASSUME NEW S, NEW G, NEW rx, NEW ry, NEW r, NEW c, NEW ps,
         ReceiverInv(S, G, ry, r, c, ps), r \in Seq(InAir), r # <<>>,
         rx = ry \/ Alike(rx, Head(r).frame)
  PROVE  ReceiverInv(S, G, rx, Tail(r), c, ps)
<1> DEFINE q == Tail(r)
           first == IF rx = ry THEN 0 ELSE 1
           e == [i \in 0 .. Len(q) |-> IF i = 0 THEN first ELSE i + 1]
<1>0. /\ Len(q) \in Nat /\ Len(r) = Len(q) + 1 /\ Head(r) = r[1]
      /\ \A i \in 1 .. Len(q) : q[i] = r[i + 1]
  OBVIOUS
<1>1. r[1] \in InAir /\ r[1].frame # None
  <2>1. r[1] \in InAir
    OBVIOUS
  <2>2. r[1].frame \in Frames
    BY <2>1 DEF InAir
  <2> QED BY <2>1, <2>2, MacAssumption
<1>2. first \in {0, 1} /\ (first = 0 => rx = ry) /\ (first = 1 => Alike(rx, r[1].frame))
  BY <1>0
<1>3. \A i \in 0 .. Len(q) : e[i] = IF i = 0 THEN first ELSE i + 1
  OBVIOUS
<1> HIDE DEF q, first, e
<1>4. ASSUME NEW i \in Coming(rx, q)
      PROVE  e[i] \in Coming(ry, r) /\ Alike(At(rx, q, i), At(ry, r, e[i]))
  <2>1. i \in 0 .. Len(q) /\ IsData(At(rx, q, i))
    BY DEF Coming
  <2>2. CASE i = 0 /\ first = 0
    <3>1. e[i] = 0 /\ rx = ry
      BY <1>2, <1>3, <2>1, <2>2
    <3> QED BY <1>0, <2>1, <2>2, <3>1 DEF Coming, At, Alike
  <2>3. CASE i = 0 /\ first = 1
    <3>1. e[i] = 1 /\ Alike(rx, r[1].frame) /\ rx.type = "DATA"
      BY <1>2, <1>3, <2>1, <2>3 DEF IsData, At
    <3>2. At(ry, r, 1) = r[1].frame /\ At(rx, q, i) = rx /\ 1 \in 0 .. Len(r)
      BY <1>0, <2>3 DEF At
    <3>3. IsData(r[1].frame)
      BY <1>1, <3>1 DEF IsData, Alike
    <3> QED BY <3>1, <3>2, <3>3 DEF Coming
  <2>4. CASE i # 0
    <3>1. e[i] = i + 1 /\ q[i] = r[i + 1] /\ i + 1 \in 0 .. Len(r) /\ i + 1 # 0
      BY <1>0, <1>3, <2>1, <2>4
    <3> QED BY <2>1, <2>4, <3>1 DEF Coming, At, Alike
  <2> QED BY <1>2, <2>2, <2>3, <2>4
<1>5. ASSUME NEW i \in Coming(rx, q), NEW j \in Coming(rx, q), i < j PROVE e[i] < e[j]
  <2>1. i \in 0 .. Len(q) /\ j \in 0 .. Len(q)
    BY DEF Coming
  <2> QED BY <1>0, <1>2, <1>3, <1>5, <2>1
<1>6. Within(rx, q, ry, r, e)
  BY <1>4, <1>5 DEF Within
<1>7. ReceiverInv(S, G, rx, q, c, ps)
  BY <1>6, ReceiverLoses
<1> QED BY <1>7 DEF q

-------------------------------------------------------------------------------
(* Frames that are transmitted *)

\* Sender m transmits its current packet, p.
LEMMA ReceiverSends ==
  ASSUME NEW S, NEW T, NEW G, NEW H, Move(S, T, G, H), NEW rx, NEW q, NEW c, NEW ps,
         ReceiverInv(S, G, rx, q, c, ps), q \in Seq(InAir),
         NEW m \in Nodes, NEW x, x \in InAir, NEW p, x.frame = p,
         p.ta = m, p.type = "DATA", S[m].pktTx = p, p # None, S[m].tx_state # "SEND",
         T[m].tx_state = "SEND", T[m].pktTx = p, CurOf(T, H, m) = CurOf(S, G, m),
         p.id = CurOf(S, G, m), CurOf(S, G, m) # 0, p.seq = p.id % setup.wrap
  PROVE  ReceiverInv(T, H, rx, Append(q, x), c, ps)
<1> DEFINE r == Append(q, x)
           l == Len(q) + 1
           d == CurOf(S, G, m)
<1>0. /\ Len(q) \in Nat /\ Len(r) = l /\ r[l] = x /\ l \in Nat
      /\ \A i \in 1 .. Len(q) : r[i] = q[i]
  OBVIOUS
<1>1. /\ d \in Nat \ {0} /\ p.ra = setup.traffic[m][d].ra
      /\ \A k \in Nodes : CurOf(S, G, k) \in Nat
  BY DEF Move
<1> HIDE DEF r, l, d
<1>2. ASSUME NEW i \in Coming(rx, r)
      PROVE  \/ i = l /\ At(rx, r, i) = p
             \/ i \in Coming(rx, q) /\ i < l /\ i \in Nat /\ At(rx, r, i) = At(rx, q, i)
  <2>1. i \in 0 .. Len(r) /\ IsData(At(rx, r, i))
    BY DEF Coming
  <2>2. CASE i = l
    <3>1. i # 0
      BY <1>0, <2>2 DEF l
    <3> QED BY <1>0, <2>2, <3>1 DEF At
  <2>3. CASE i # l
    <3>1. i \in 0 .. Len(q) /\ i < l /\ i \in Nat
      BY <1>0, <2>1, <2>3 DEF l
    <3>2. At(rx, r, i) = At(rx, q, i)
      BY <1>0, <3>1 DEF At
    <3> QED BY <2>1, <3>1, <3>2 DEF Coming
  <2> QED BY <2>2, <2>3
<1>3. ReceiverInv(T, H, rx, q, c, ps)
  BY ReceiverMoves
<1>4. Sent(T, H, p)
  <2>1. p.id \in 1 .. CurOf(T, H, m)
    BY <1>1 DEF d
  <2> QED BY <1>1, <2>1 DEF Sent, d
<1>5. ASSUME NEW i \in Coming(rx, r) PROVE Sent(T, H, At(rx, r, i))
  BY <1>2, <1>3, <1>4 DEF ReceiverInv
<1>6. ASSUME NEW i \in Coming(rx, q) PROVE Follows(At(rx, q, i), p)
  <2> DEFINE o == At(rx, q, i)
  <2>1. Sent(S, G, o)
    BY DEF ReceiverInv
  <2> HIDE DEF o
  <2>2. SUFFICES ASSUME o.ta = m
                 PROVE  o.id <= p.id /\ (o.id = p.id => o.ra # MAC_BROADCAST)
    BY DEF Follows, o
  <2>3. o.id \in 1 .. d
    BY <2>1, <2>2 DEF Sent, d
  <2>4. o.id = d => o.ra # MAC_BROADCAST
    BY <2>1, <2>2 DEF Sent, d
  <2> QED BY <1>1, <2>3, <2>4 DEF d
<1>7. ASSUME NEW i \in Coming(rx, r), NEW j \in Coming(rx, r), i < j
      PROVE  Follows(At(rx, r, i), At(rx, r, j))
  <2>1. CASE j \in Coming(rx, q) /\ j < l /\ j \in Nat /\ At(rx, r, j) = At(rx, q, j)
    <3>1. i # l
      BY <1>0, <1>7, <2>1
    <3>2. i \in Coming(rx, q) /\ At(rx, r, i) = At(rx, q, i)
      BY <1>2, <3>1
    <3> QED BY <1>7, <2>1, <3>2 DEF ReceiverInv
  <2>2. CASE j = l /\ At(rx, r, j) = p
    <3>1. i # l
      BY <1>0, <1>7, <2>2
    <3>2. i \in Coming(rx, q) /\ At(rx, r, i) = At(rx, q, i)
      BY <1>2, <3>1
    <3> QED BY <1>6, <2>2, <3>2
  <2> QED BY <1>2, <2>1, <2>2
<1>8. ASSUME NEW k \in DOMAIN ps PROVE Behind(c, ps[k], p)
  <2>1. Past(S, G, c, ps[k])
    BY DEF ReceiverInv
  <2>2. SUFFICES ASSUME m = ps[k][1]
                 PROVE  /\ ps[k][2] <= p.id
                        /\ ps[k][2] = p.id =>
                             p.ra # MAC_BROADCAST /\ c[m] = ps[k][2] % setup.wrap
    BY DEF Behind
  <2>3. ps[k][2] \in 1 .. d
    BY <2>1, <2>2 DEF Past, d
  <2>4. ps[k][2] = d => p.ra # MAC_BROADCAST /\ c[m] = ps[k][2] % setup.wrap
    BY <2>1, <2>2 DEF Past, d
  <2> QED BY <1>1, <2>3, <2>4 DEF d
<1>9. ASSUME NEW k \in DOMAIN ps, NEW j \in Coming(rx, r)
      PROVE  Behind(c, ps[k], At(rx, r, j))
  BY <1>2, <1>8 DEF ReceiverInv
<1>10. ReceiverInv(T, H, rx, r, c, ps)
  BY <1>3, <1>5, <1>7, <1>9 DEF ReceiverInv
<1> QED BY <1>10 DEF r

-------------------------------------------------------------------------------
(* Frames that are received *)

\* The frame p that was received is passed up.
LEMMA ReceiverPasses ==
  ASSUME NEW S, NEW G, NEW p, NEW q, NEW c, NEW d, NEW ps,
         ReceiverInv(S, G, p, q, c, ps), q \in Seq(InAir), IsData(p), p.id \in Nat,
         c \in [Nodes -> Nat], \A m \in Nodes : CurOf(S, G, m) \in Nat,
         \A m \in Nodes : S[m].pktTx # None =>
           S[m].pktTx.ra = setup.traffic[m][CurOf(S, G, m)].ra,
         \/ p.ra = MAC_BROADCAST /\ d = c
         \/ /\ p.ra # MAC_BROADCAST /\ ~(c[p.ta] # 0 /\ c[p.ta] = p.seq)
            /\ d = [c EXCEPT ![p.ta] = p.seq]
  PROVE  ReceiverInv(S, G, None, q, d, Append(ps, <<p.ta, p.id>>))
<1> DEFINE x == <<p.ta, p.id>>
           qs == Append(ps, x)
           l == Len(ps) + 1
           m == p.ta
<1>1. Len(q) \in Nat /\ 0 \in Coming(p, q) /\ At(p, q, 0) = p
  <2>1. Len(q) \in Nat
    OBVIOUS
  <2>2. At(p, q, 0) = p
    BY DEF At
  <2> QED BY <2>1, <2>2 DEF Coming
<1>2. Sent(S, G, p)
  BY <1>1 DEF ReceiverInv
<1>3. /\ m \in Nodes /\ p.seq = p.id % setup.wrap /\ p.ra = setup.traffic[m][p.id].ra
      /\ p.id \in 1 .. CurOf(S, G, m) /\ x \in Nodes \X Nat /\ x[1] = m /\ x[2] = p.id
  BY <1>2 DEF Sent
<1>4. ps \in Seq(Nodes \X Nat)
  BY DEF ReceiverInv
<1>5. /\ qs \in Seq(Nodes \X Nat) /\ DOMAIN qs = 1 .. l /\ l \in Nat /\ qs[l] = x
      /\ \A k \in DOMAIN ps : qs[k] = ps[k] /\ k \in Nat /\ k < l
      /\ \A k \in 1 .. l : k # l => k \in DOMAIN ps
  <2>1. qs \in Seq(Nodes \X Nat) /\ Len(qs) = l /\ DOMAIN qs = 1 .. l /\ qs[l] = x
    BY <1>3, <1>4
  <2>2. l = Len(ps) + 1 /\ Len(ps) \in Nat /\ DOMAIN ps = 1 .. Len(ps)
    BY <1>4
  <2>3. \A k \in 1 .. Len(ps) : qs[k] = ps[k]
    BY <1>3, <1>4
  <2> HIDE DEF qs, l, x
  <2>4. \A k \in 1 .. Len(ps) : k \in Nat /\ k < l
    BY <2>2
  <2>5. \A k \in 1 .. l : k # l => k \in 1 .. Len(ps)
    BY <2>2
  <2> QED BY <2>1, <2>2, <2>3, <2>4, <2>5
<1>6. ASSUME NEW i \in Coming(None, q)
      PROVE  /\ i \in Coming(p, q) /\ At(None, q, i) = At(p, q, i) /\ 0 < i
             /\ Sent(S, G, At(p, q, i)) /\ Follows(p, At(p, q, i))
             /\ i \in Nat
  <2>1. i \in 0 .. Len(q) /\ IsData(At(None, q, i))
    BY DEF Coming
  <2>2. i # 0
    BY <2>1 DEF At, IsData
  <2>3. At(None, q, i) = At(p, q, i)
    BY <2>2 DEF At
  <2>4. i \in Coming(p, q) /\ 0 < i /\ i \in Nat
    BY <1>1, <2>1, <2>2, <2>3 DEF Coming
  <2> QED BY <1>1, <2>3, <2>4 DEF ReceiverInv
<1> HIDE DEF qs, l, x
<1>7. ASSUME NEW k \in DOMAIN ps
      PROVE  /\ Past(S, G, c, ps[k]) /\ ps[k][1] \in Nodes /\ ps[k][2] \in Nat
             /\ Behind(c, ps[k], p)
  <2>1. Past(S, G, c, ps[k]) /\ Behind(c, ps[k], p)
    BY <1>1 DEF ReceiverInv
  <2> QED BY <2>1 DEF Past
<1>8. ASSUME NEW k \in DOMAIN ps, ps[k][1] = m
      PROVE  /\ ps[k][2] <= p.id
             /\ ps[k][2] = p.id => p.ra # MAC_BROADCAST /\ c[m] = p.id % setup.wrap
  BY <1>7, <1>8 DEF Behind
<1>9. /\ \A k \in Nodes : k # m => d[k] = c[k]
      /\ p.ra # MAC_BROADCAST => d[m] = p.id % setup.wrap
      /\ d[m] = p.id % setup.wrap \/ d[m] = c[m]
  BY <1>3
<1>10. ASSUME NEW k \in DOMAIN ps PROVE Past(S, G, d, ps[k])
  <2>1. CASE ps[k][1] # m
    <3>1. d[ps[k][1]] = c[ps[k][1]]
      BY <1>7, <1>9, <2>1
    <3> QED BY <1>7, <3>1 DEF Past
  <2>2. CASE ps[k][1] = m
    <3>1. CASE ps[k][2] = CurOf(S, G, m)
      <4>1. ps[k][2] = p.id
        <5>1. ps[k][2] <= p.id
          BY <1>8, <2>2
        <5>2. p.id \in 1 .. CurOf(S, G, m)
          BY <1>3
        <5> QED BY <5>1, <5>2, <3>1, <1>7
      <4>2. d[m] = c[m] \/ d[m] = ps[k][2] % setup.wrap
        BY <1>9, <4>1
      <4> QED BY <1>7, <2>2, <4>2 DEF Past
    <3>2. CASE ps[k][2] # CurOf(S, G, m)
      BY <1>7, <2>2, <3>2 DEF Past
    <3> QED BY <3>1, <3>2
  <2> QED BY <2>1, <2>2
<1>11. Past(S, G, d, x)
  <2>1. ASSUME p.id = CurOf(S, G, m), S[m].pktTx # None
        PROVE  \/ S[m].pktTx.ra # MAC_BROADCAST /\ d[m] = p.id % setup.wrap
               \/ S[m].pktTx.ra = MAC_BROADCAST /\ S[m].tx_state = "SEND"
    <3>1. S[m].pktTx.ra = p.ra
      BY <1>3, <2>1
    <3>2. p.ra = MAC_BROADCAST => S[m].tx_state = "SEND"
      BY <1>2, <2>1 DEF Sent
    <3> QED BY <1>9, <3>1, <3>2
  <2> QED BY <1>3, <2>1 DEF Past
<1>12. ASSUME NEW k \in DOMAIN ps, NEW j \in Coming(None, q)
       PROVE  Behind(d, ps[k], At(None, q, j))
  <2> DEFINE o == At(p, q, j)
  <2>1. /\ Behind(c, ps[k], o) /\ Follows(p, o) /\ At(None, q, j) = o /\ Sent(S, G, o)
    BY <1>6 DEF ReceiverInv
  <2> HIDE DEF o
  <2>2. CASE ps[k][1] # m
    <3>1. d[ps[k][1]] = c[ps[k][1]]
      BY <1>7, <1>9, <2>2
    <3> QED BY <2>1, <3>1 DEF Behind
  <2>3. CASE ps[k][1] = m
    <3>1. SUFFICES ASSUME o.ta = m, ps[k][2] = o.id
                   PROVE  d[m] = ps[k][2] % setup.wrap
      BY <2>1, <2>3 DEF Behind
    <3>2. p.id <= o.id /\ ps[k][2] <= p.id
      BY <1>8, <2>1, <2>3, <3>1 DEF Follows
    <3>3. p.id = o.id
      BY <1>7, <3>1, <3>2
    <3>4. c[m] = ps[k][2] % setup.wrap
      BY <2>1, <2>3, <3>1 DEF Behind
    <3> QED BY <1>9, <3>1, <3>3, <3>4
  <2> QED BY <2>2, <2>3
<1>13. ASSUME NEW j \in Coming(None, q) PROVE Behind(d, x, At(None, q, j))
  <2> DEFINE o == At(p, q, j)
  <2>1. Follows(p, o) /\ At(None, q, j) = o /\ Sent(S, G, o)
    BY <1>6
  <2> HIDE DEF o
  <2>2. SUFFICES ASSUME o.ta = m
                 PROVE  /\ p.id <= o.id
                        /\ p.id = o.id => o.ra # MAC_BROADCAST /\ d[m] = p.id % setup.wrap
    BY <1>3, <2>1 DEF Behind
  <2>3. p.id <= o.id /\ (p.id = o.id => p.ra # MAC_BROADCAST)
    BY <2>1, <2>2 DEF Follows
  <2>4. o.ra = setup.traffic[m][o.id].ra
    BY <2>1, <2>2 DEF Sent
  <2> QED BY <1>3, <1>9, <2>3, <2>4
<1>14. InOrder(qs)
  <2>1. SUFFICES ASSUME NEW i \in DOMAIN qs, NEW j \in DOMAIN qs, i < j, qs[i][1] = qs[j][1]
                 PROVE  \/ qs[i][2] < qs[j][2]
                        \/ qs[i][2] = qs[j][2] /\ qs[j][2] % setup.wrap = 0
    BY DEF InOrder
  <2>2. i \in DOMAIN ps /\ qs[i] = ps[i]
    BY <1>5, <2>1
  <2>3. CASE j \in DOMAIN ps
    <3>1. qs[j] = ps[j] /\ InOrder(ps)
      BY <1>5, <2>3 DEF ReceiverInv
    <3> QED BY <2>1, <2>2, <2>3, <3>1 DEF InOrder
  <2>4. CASE j = l
    <3>1. ps[i][1] = m /\ qs[j] = x /\ qs[j][2] = p.id
      BY <1>3, <1>5, <2>1, <2>2, <2>4
    <3>2. /\ ps[i][2] <= p.id /\ ps[i][2] \in Nat
          /\ ps[i][2] = p.id => p.ra # MAC_BROADCAST /\ c[m] = p.id % setup.wrap
      BY <1>7, <1>8, <2>2, <3>1
    <3>3. ps[i][2] = p.id => p.id % setup.wrap = 0
      BY <1>3, <3>2
    <3> QED BY <2>2, <3>1, <3>2, <3>3
  <2> QED BY <1>5, <2>1, <2>3, <2>4
<1>15. ASSUME NEW k \in DOMAIN qs
       PROVE  Past(S, G, d, qs[k]) /\ \A j \in Coming(None, q) : Behind(d, qs[k], At(None, q, j))
  <2>1. CASE k = l
    BY <1>5, <1>11, <1>13, <2>1
  <2>2. CASE k # l
    BY <1>5, <1>10, <1>12, <2>2
  <2> QED BY <2>1, <2>2
<1>16. \A i \in Coming(None, q) : Sent(S, G, At(None, q, i))
  BY <1>6
<1>17. \A i, j \in Coming(None, q) : i < j => Follows(At(None, q, i), At(None, q, j))
  BY <1>6 DEF ReceiverInv
<1>18. ReceiverInv(S, G, None, q, d, qs)
  BY <1>5, <1>14, <1>15, <1>16, <1>17 DEF ReceiverInv
<1> QED BY <1>18 DEF qs, x

\* A frame that carries no packet is transmitted.
LEMMA ReceiverIgnores ==
  ASSUME NEW S, NEW G, NEW rx, NEW q, NEW c, NEW ps,
         ReceiverInv(S, G, rx, q, c, ps), q \in Seq(InAir),
         NEW x \in InAir, ~IsData(x.frame)
  PROVE  ReceiverInv(S, G, rx, Append(q, x), c, ps)
<1> DEFINE r == Append(q, x)
           l == Len(q) + 1
           e == [i \in 0 .. Len(q) |-> i]
<1>1. /\ Len(q) \in Nat /\ Len(r) = l /\ r[l] = x /\ l \in Nat /\ l # 0
      /\ \A i \in 1 .. Len(q) : r[i] = q[i]
      /\ \A i \in 0 .. Len(q) : e[i] = i
  OBVIOUS
<1> HIDE DEF r, l, e
<1>2. ASSUME NEW i \in Coming(rx, r)
      PROVE  e[i] = i /\ i \in Coming(rx, q) /\ At(rx, r, i) = At(rx, q, i)
  <2>1. i \in 0 .. Len(r) /\ IsData(At(rx, r, i))
    BY DEF Coming
  <2>2. i # l
    BY <1>1, <2>1 DEF At
  <2>3. i \in 0 .. Len(q)
    BY <1>1, <2>1, <2>2 DEF l
  <2>4. At(rx, r, i) = At(rx, q, i)
    BY <1>1, <2>3 DEF At
  <2> QED BY <1>1, <2>1, <2>3, <2>4 DEF Coming
<1>3. Within(rx, r, rx, q, e)
  BY <1>2 DEF Within, Alike
<1>4. ReceiverInv(S, G, rx, r, c, ps)
  BY <1>3, ReceiverLoses
<1> QED BY <1>4 DEF r

-------------------------------------------------------------------------------
(* Every receiver *)

\* The inductive invariant of the receivers
ReceiversInv ==
  /\ DOMAIN passed = Nodes
  /\ \A n \in Nodes :
       ReceiverInv(mac, given, mac[n].pktRx, air[n], mac[n].cache, passed[n])

\* It depends on no variable but setup.
LEMMA ReceiverSame ==
  ASSUME UNCHANGED setup, NEW S, NEW G, NEW rx, NEW q, NEW c, NEW ps,
         ReceiverInv(S, G, rx, q, c, ps)
  PROVE  ReceiverInv(S, G, rx, q, c, ps)'
<1>1. ASSUME NEW p, Sent(S, G, p) PROVE Sent(S, G, p)'
  BY <1>1 DEF Sent, CurOf, Cur
<1>2. ASSUME NEW x, Past(S, G, c, x) PROVE Past(S, G, c, x)'
  BY <1>2 DEF Past, CurOf, Cur
<1>3. ASSUME NEW x, NEW p, Behind(c, x, p) PROVE Behind(c, x, p)'
  BY <1>3 DEF Behind
<1>4. InOrder(ps)'
  BY DEF ReceiverInv, InOrder
<1>5. /\ Coming(rx, q)' = Coming(rx, q) /\ (\A i : At(rx, q, i)' = At(rx, q, i))
      /\ \A p, o : Follows(p, o)' <=> Follows(p, o)
  BY DEF Coming, IsData, At, Follows
<1> QED BY <1>1, <1>2, <1>3, <1>4, <1>5 DEF ReceiverInv

\* An event moves the senders on.
LEMMA EventMoves ==
  ASSUME MacInv, SendersInv, NEW n \in Nodes, NEW t, Event(n, t)
  PROVE  Move(mac, mac', given, given')
<1>1. Becomes(n, t) /\ NodeInv(t) /\ Receiving(t) /\ t.index = n
  BY DEF Event
<1>2. mac'[n] = Clean(t) /\ (\A m \in Nodes : m # n => mac'[m] = mac[m])
  BY <1>1, BecomesInv DEF MacInv
<1>3. Only(t, Clean(t), {"out", "up", "over"})
  BY <1>1, CleanInv
<1>4. Clean(t).pktTx = t.pktTx /\ Clean(t).ifq = t.ifq /\ Clean(t).tx_state = t.tx_state
  BY <1>3 DEF Only
<1>5. ASSUME NEW m \in Nodes
      PROVE  /\ CurOf(mac, given, m) \in Nat
             /\ mac[m].pktTx # None =>
                  mac[m].pktTx.ra = setup.traffic[m][CurOf(mac, given, m)].ra
  BY DEF SendersInv, SenderInv, QueueInv, CurOf, IsPacket, TrafficOf, MacInv, NodesInv
<1>6. Cur(t, given'[n]) \in Nat /\ Advances(mac[n], t, given[n], given'[n])
  BY DEF Event, SenderInv, QueueInv
<1>7. CurOf(mac', given', n) = Cur(t, given'[n]) /\ CurOf(mac, given, n) = Cur(mac[n], given[n])
  BY <1>2, <1>4 DEF CurOf, Cur
<1>8. ASSUME NEW m \in Nodes, m # n
      PROVE  mac'[m] = mac[m] /\ CurOf(mac', given', m) = CurOf(mac, given, m)
  BY <1>2, <1>8 DEF CurOf, Event
<1> SUFFICES ASSUME NEW m \in Nodes
             PROVE
    /\ CurOf(mac, given, m) \in Nat /\ CurOf(mac', given', m) \in Nat
    /\ CurOf(mac, given, m) <= CurOf(mac', given', m)
    /\ mac[m].pktTx # None => mac[m].pktTx.ra = setup.traffic[m][CurOf(mac, given, m)].ra
    /\ CurOf(mac', given', m) = CurOf(mac, given, m) /\ mac'[m].pktTx # None =>
         /\ mac'[m].pktTx = mac[m].pktTx
         /\ mac[m].pktTx.ra = MAC_BROADCAST /\ mac[m].tx_state = "SEND" =>
              mac'[m].tx_state = "SEND"
  BY DEF Move
<1>9. CASE m = n
  BY <1>2, <1>4, <1>5, <1>6, <1>7, <1>9 DEF Advances
<1>10. CASE m # n
  BY <1>5, <1>8, <1>10
<1> QED BY <1>9, <1>10

\* An event keeps the invariant of every receiver.
LEMMA EventReceiver ==
  ASSUME MacInv, SendersInv, ReceiversInv, NEW n \in Nodes, NEW t, Event(n, t),
         NEW r \in Nodes
  PROVE  ReceiverInv(mac', given', mac'[r].pktRx, air'[r], mac'[r].cache, passed'[r])
<1>1. Becomes(n, t) /\ NodeInv(t) /\ Receiving(t) /\ t.index = n /\ Overhears(n, t)
  BY DEF Event
<1>2. mac'[n] = Clean(t) /\ (\A m \in Nodes : m # n => mac'[m] = mac[m])
  BY <1>1, BecomesInv DEF MacInv
<1>3. Only(t, Clean(t), {"out", "up", "over"})
  BY <1>1, CleanInv
<1>4. mac'[n].pktRx = t.pktRx /\ mac'[n].cache = t.cache
  BY <1>2, <1>3 DEF Only
<1>5. /\ t.up = None => passed' = passed
      /\ t.up # None => /\ passed'[n] = Append(passed[n], <<t.up.ta, t.up.id>>)
                        /\ \A m \in Nodes : m # n => passed'[m] = passed[m]
  BY <1>1 DEF Becomes, ReceiversInv
<1>6. Move(mac, mac', given, given')
  BY EventMoves
<1>7. /\ ReceiverInv(mac, given, mac[r].pktRx, air[r], mac[r].cache, passed[r])
      /\ air \in [Nodes -> Seq(InAir)] /\ air[r] \in Seq(InAir)
  BY DEF ReceiversInv, MacInv
<1>8. NodeTypes(mac[n]) /\ mac[n].index = n /\ AtRest(mac[n]) /\ Params
  BY SetupParams DEF MacInv, NodesInv, NodeInv
<1>9. mac[n].pktRx # None => GoodFrame(mac[n].pktRx)
  BY <1>8 DEF NodeTypes, IsFrame
<1>10. CASE RxKept(mac[n], t) /\ t.up = None /\ t.cache = mac[n].cache /\ air' = Transmitted(n, t)
  <2>1. mac'[r].cache = mac[r].cache /\ passed'[r] = passed[r]
    BY <1>2, <1>4, <1>5, <1>10
  <2>2. mac'[r].pktRx = None \/ (mac[r].pktRx # None /\ Alike(mac'[r].pktRx, mac[r].pktRx))
    <3>1. CASE r = n
      BY <1>4, <1>9, <1>10, <3>1, ErrorAlike DEF RxKept
    <3>2. CASE r # n
      BY <1>2, <3>2 DEF Alike
    <3> QED BY <3>1, <3>2
  <2>3. ReceiverInv(mac, given, mac'[r].pktRx, air[r], mac[r].cache, passed[r])
    BY <1>7, <2>2, ReceiverKeeps
  <2>4. ReceiverInv(mac', given', mac'[r].pktRx, air[r], mac[r].cache, passed[r])
    BY <1>6, <2>3, ReceiverMoves
  <2> DEFINE x == [frame |-> t.out, left |-> setup.propagation]
  <2>5. air'[r] = air[r] \/ (t.out # None /\ air'[r] = Append(air[r], x))
    BY <1>10 DEF Transmitted
  <2>6. CASE air'[r] = air[r]
    BY <2>1, <2>4, <2>6
  <2>7. CASE t.out # None /\ air'[r] = Append(air[r], x)
    <3>1. GoodFrame(t.out)
      BY <1>1, <2>7 DEF NodeInv, NodeTypes, IsFrame
    <3>2. setup.propagation \in Nat
      BY <1>8 DEF Params, Numbers
    <3>3. x \in InAir /\ x.frame = t.out
      BY <3>1, <3>2 DEF InAir, GoodFrame
    <3> HIDE DEF x
    <3>4. CASE ~IsData(t.out)
      BY <1>7, <2>1, <2>4, <2>7, <3>3, <3>4, ReceiverIgnores
    <3>5. CASE IsData(t.out)
      <4> DEFINE p == t.out
                 d == CurOf(mac, given, n)
      <4>1. /\ p = mac[n].pktTx /\ t.pktTx = mac[n].pktTx /\ p # None
            /\ Cur(t, given'[n]) = Cur(mac[n], given[n])
            /\ mac[n].tx_state # "SEND" /\ t.tx_state = "SEND"
        BY <3>5 DEF Event, Advances
      <4>2. mac'[n].tx_state = "SEND" /\ mac'[n].pktTx = p /\ mac'[n].ifq = t.ifq
        BY <1>2, <1>3, <4>1 DEF Only
      <4>3. CurOf(mac', given', n) = CurOf(mac, given, n)
        BY <4>1, <4>2 DEF CurOf, Cur
      <4>4. GoodData(p, n)
        BY <1>8, <4>1 DEF NodeTypes, IsTx
      <4>5. p.ta = n /\ p.type = "DATA"
        BY <4>4 DEF GoodData
      <4>6. p.id = d /\ d # 0 /\ p.seq = p.id % setup.wrap
        BY <4>1 DEF SendersInv, SenderInv, QueueInv, IsPacket, CurOf
      <4> HIDE DEF p
      <4>7. ReceiverInv(mac', given', mac'[r].pktRx, Append(air[r], x), mac[r].cache, passed[r])
        BY <1>6, <1>7, <2>3, <3>3, <4>1, <4>2, <4>3, <4>5, <4>6, ReceiverSends DEF p
      <4> QED BY <2>1, <2>7, <4>7
    <3> QED BY <3>4, <3>5
  <2> QED BY <2>5, <2>6, <2>7
<1>11. CASE /\ t.pktRx = None /\ mac[n].pktRx # None /\ t.out = None /\ air' = air
            /\ Passes(mac[n], t, mac[n].pktRx)
            /\ \/ t.up = None
               \/ /\ mac[n].pktRx.type = "DATA" /\ mac[n].pktRx.ra \in {n, MAC_BROADCAST}
  <2>1. CASE r # n
    <3>1. passed'[r] = passed[r] /\ mac'[r] = mac[r] /\ air'[r] = air[r]
      BY <1>2, <1>5, <1>11, <2>1
    <3> QED BY <1>6, <1>7, <3>1, ReceiverMoves
  <2>2. CASE r = n /\ t.up = None
    <3>1. t.cache = mac[n].cache /\ passed'[r] = passed[r]
      BY <1>5, <1>8, <1>11, <2>2 DEF Passes, AtRest
    <3>2. ReceiverInv(mac, given, None, air[r], mac[r].cache, passed[r])
      BY <1>7, ReceiverKeeps
    <3>3. ReceiverInv(mac', given', None, air[r], mac[r].cache, passed[r])
      BY <1>6, <3>2, ReceiverMoves
    <3> QED BY <1>4, <1>11, <2>2, <3>1, <3>3
  <2>3. CASE r = n /\ t.up # None
    <3> DEFINE p == mac[n].pktRx
    <3>1. IsData(p) /\ GoodFrame(p)
      BY <1>9, <1>11, <2>3 DEF IsData
    <3>2. p.id \in Nat
      BY <3>1 DEF GoodFrame, Frames
    <3>3. /\ t.up = p
          /\ \/ p.ra = MAC_BROADCAST /\ t.cache = mac[n].cache
             \/ /\ p.ra # MAC_BROADCAST
                /\ ~(mac[n].cache[p.ta] # 0 /\ mac[n].cache[p.ta] = p.seq)
                /\ t.cache = [mac[n].cache EXCEPT ![p.ta] = p.seq]
      BY <1>8, <1>11, <2>3 DEF Passes, AtRest
    <3>4. mac[n].cache \in [Nodes -> Nat]
      <4>1. setup.wrap \in Nat /\ mac[n].cache \in [Nodes -> 0 .. setup.wrap - 1]
        BY <1>8 DEF Params, Numbers, NodeTypes, IsCache
      <4> QED BY <4>1
    <3>5. /\ \A m \in Nodes : CurOf(mac, given, m) \in Nat
          /\ \A m \in Nodes : mac[m].pktTx # None =>
               mac[m].pktTx.ra = setup.traffic[m][CurOf(mac, given, m)].ra
      BY <1>6 DEF Move
    <3> HIDE DEF p
    <3>6. ReceiverInv(mac, given, p, air[n], mac[n].cache, passed[n]) /\ air[n] \in Seq(InAir)
      BY <1>7, <2>3 DEF p
    <3>7. ReceiverInv(mac, given, None, air[n], t.cache, Append(passed[n], <<p.ta, p.id>>))
      BY <3>1, <3>2, <3>3, <3>4, <3>5, <3>6, ReceiverPasses
    <3>8. ReceiverInv(mac', given', None, air[n], t.cache, Append(passed[n], <<p.ta, p.id>>))
      BY <1>6, <3>7, ReceiverMoves
    <3> QED BY <1>4, <1>5, <1>11, <2>3, <3>3, <3>8
  <2> QED BY <2>1, <2>2, <2>3
<1>12. CASE /\ air[n] # <<>> /\ air' = [air EXCEPT ![n] = Tail(@)]
            /\ t.out = None /\ t.up = None /\ t.cache = mac[n].cache
            /\ Hears(mac[n], t, Head(air[n]).frame)
  <2>1. mac'[r].cache = mac[r].cache /\ passed'[r] = passed[r]
    BY <1>2, <1>4, <1>5, <1>12
  <2>2. CASE r # n
    <3>1. mac'[r] = mac[r] /\ air'[r] = air[r]
      BY <1>2, <1>7, <1>12, <2>2
    <3> QED BY <1>6, <1>7, <2>1, <3>1, ReceiverMoves
  <2>3. CASE r = n
    <3>1. Head(air[n]) \in InAir /\ air'[n] = Tail(air[n])
      BY <1>7, <1>12, <2>3
    <3>2. GoodFrame(Head(air[n]).frame)
      BY <3>1 DEF InAir
    <3>3. t.pktRx = mac[n].pktRx \/ Alike(t.pktRx, Head(air[n]).frame)
      BY <1>12, <3>2, ErrorAlike DEF Hears
    <3>4. ReceiverInv(mac, given, t.pktRx, Tail(air[n]), mac[n].cache, passed[n])
      BY <1>7, <1>12, <2>3, <3>3, ReceiverHears
    <3>5. ReceiverInv(mac', given', t.pktRx, Tail(air[n]), mac[n].cache, passed[n])
      BY <1>6, <3>4, ReceiverMoves
    <3> QED BY <1>4, <2>1, <2>3, <3>1, <3>5
  <2> QED BY <2>2, <2>3
<1> QED BY <1>1, <1>10, <1>11, <1>12 DEF Overhears

\* Only nodes pass packets up.
LEMMA PassedDomain ==
  ASSUME ReceiversInv, [Next]_vars
  PROVE  DOMAIN passed' = Nodes
<1>1. ASSUME NEW n, NEW t, Becomes(n, t) PROVE DOMAIN passed' = Nodes
  BY <1>1 DEF Becomes, ReceiversInv
<1>2. CASE Tick \/ UNCHANGED vars
  BY <1>2 DEF Tick, vars, ReceiversInv
<1>3. ASSUME NEW n \in Nodes, Arrive(n) \/ Reach(n) \/ \E t \in Timers : Expire(n, t)
      PROVE  DOMAIN passed' = Nodes
  <2>1. \E t : Becomes(n, t)
    BY <1>3 DEF Arrive, Reach, Expire
  <2> QED BY <1>1, <2>1
<1> QED BY <1>2, <1>3 DEF Next

\* Time keeps the invariant of every receiver.
LEMMA TickReceiver ==
  ASSUME MacInv, MacInv', SendersInv, ReceiversInv, Tick, NEW r \in Nodes
  PROVE  ReceiverInv(mac', given', mac'[r].pktRx, air'[r], mac'[r].cache, passed'[r])
<1>1. PICK d \in Nat :
         /\ mac' = [n \in Nodes |-> Later(mac[n], d)]
         /\ air' = [n \in Nodes |-> [i \in DOMAIN air[n] |->
                      [air[n][i] EXCEPT !.left = @ - d]]]
         /\ \A n \in Nodes : \A t \in Timers : mac[n][t] = Off \/ d <= mac[n][t]
         /\ \A n \in Nodes : \A i \in DOMAIN air[n] : d <= air[n][i].left
  BY TickStep
<1>2. UNCHANGED <<setup, given, passed>>
  BY DEF Tick
<1>3. ASSUME NEW n \in Nodes
      PROVE  /\ mac'[n].pktTx = mac[n].pktTx /\ mac'[n].tx_state = mac[n].tx_state
             /\ mac'[n].ifq = mac[n].ifq /\ mac'[n].pktRx = mac[n].pktRx
             /\ mac'[n].cache = mac[n].cache
  <2>1. Only(mac[n], Later(mac[n], d), Timers)
    BY <1>1, LaterInv, SetupParams DEF MacInv, NodesInv
  <2> DEFINE t == Later(mac[n], d)
  <2> HIDE DEF t
  <2>2. /\ t.pktTx = mac[n].pktTx /\ t.tx_state = mac[n].tx_state
        /\ t.ifq = mac[n].ifq /\ t.pktRx = mac[n].pktRx /\ t.cache = mac[n].cache
    BY <2>1 DEF Only, Timers, t
  <2> QED BY <1>1, <2>2 DEF t
<1>4. ASSUME NEW m \in Nodes
      PROVE  /\ CurOf(mac, given, m) \in Nat
             /\ mac[m].pktTx # None =>
                  mac[m].pktTx.ra = setup.traffic[m][CurOf(mac, given, m)].ra
  BY DEF SendersInv, SenderInv, QueueInv, CurOf, IsPacket, TrafficOf, MacInv, NodesInv
<1>5. ASSUME NEW m \in Nodes PROVE CurOf(mac', given', m) = CurOf(mac, given, m)
  BY <1>2, <1>3 DEF CurOf, Cur
<1>6. Move(mac, mac', given, given')
  BY <1>3, <1>4, <1>5 DEF Move
<1>7. /\ ReceiverInv(mac, given, mac[r].pktRx, air[r], mac[r].cache, passed[r])
      /\ air[r] \in Seq(InAir)
  BY DEF ReceiversInv, MacInv
<1>8. air'[r] \in Seq(InAir)
  <2>1. air'[r] \in Seq(InAir)'
    BY DEF MacInv
  <2> QED BY <1>2, <2>1, SetupSame
<1>9. Len(air'[r]) = Len(air[r]) /\ \A i \in 1 .. Len(air'[r]) : air'[r][i].frame = air[r][i].frame
  <2>1. air'[r] = [i \in DOMAIN air[r] |-> [air[r][i] EXCEPT !.left = @ - d]]
    BY <1>1
  <2>2. DOMAIN air'[r] = DOMAIN air[r]
    BY <2>1
  <2>3. Len(air'[r]) = Len(air[r]) /\ DOMAIN air[r] = 1 .. Len(air[r])
    BY <1>7, <1>8, <2>2
  <2>4. ASSUME NEW i \in DOMAIN air[r] PROVE air'[r][i].frame = air[r][i].frame
    <3>1. air[r][i] \in InAir
      BY <1>7, SeqElement
    <3>2. [air[r][i] EXCEPT !.left = @ - d].frame = air[r][i].frame
      BY <3>1 DEF InAir
    <3> QED BY <2>1, <3>2
  <2> QED BY <2>3, <2>4
<1>10. ReceiverInv(mac, given, mac[r].pktRx, air'[r], mac[r].cache, passed[r])
  <2>1. mac[r].pktRx = None \/ (mac[r].pktRx # None /\ Alike(mac[r].pktRx, mac[r].pktRx))
    BY DEF Alike
  <2>2. Len(air[r]) = Len(air'[r])
    BY <1>9
  <2> QED BY <1>7, <1>8, <1>9, <2>1, <2>2, ReceiverKeeps
<1>11. ReceiverInv(mac', given', mac[r].pktRx, air'[r], mac[r].cache, passed[r])
  BY <1>6, <1>10, ReceiverMoves
<1> QED BY <1>2, <1>3, <1>11

\* It holds initially.
LEMMA InitReceivers == ASSUME Init PROVE ReceiversInv
<1>1. ASSUME NEW n \in Nodes
      PROVE  ReceiverInv(mac, given, mac[n].pktRx, air[n], mac[n].cache, passed[n])
  <2>1. mac[n].pktRx = None /\ air[n] = <<>> /\ passed[n] = <<>>
    BY DEF Init, MacInit
  <2>2. Coming(None, <<>>) = {}
    <3>1. Len(<<>>) = 0
      OBVIOUS
    <3>2. \A i \in 0 .. 0 : i = 0
      OBVIOUS
    <3> QED BY <3>1, <3>2 DEF Coming, At, IsData
  <2>3. <<>> \in Seq(Nodes \X Nat) /\ DOMAIN (<<>>) = {}
    OBVIOUS
  <2>4. ReceiverInv(mac, given, None, <<>>, mac[n].cache, <<>>)
    BY <2>2, <2>3 DEF ReceiverInv, InOrder
  <2> QED BY <2>1, <2>4
<1>2. DOMAIN passed = Nodes
  BY DEF Init
<1> QED BY <1>1, <1>2 DEF ReceiversInv

\* Every step keeps it.
LEMMA NextReceivers ==
  ASSUME MacInv, MacInv', SendersInv, ReceiversInv, [Next]_vars
  PROVE  ReceiversInv'
<1>1. ASSUME NEW r \in Nodes
      PROVE  ReceiverInv(mac', given', mac'[r].pktRx, air'[r], mac'[r].cache, passed'[r])
  <2>1. CASE Tick
    BY <2>1, TickReceiver
  <2>2. ASSUME NEW n \in Nodes, Arrive(n) \/ Reach(n) \/ \E t \in Timers : Expire(n, t)
        PROVE  ReceiverInv(mac', given', mac'[r].pktRx, air'[r], mac'[r].cache, passed'[r])
    <3>1. \E t : Event(n, t)
      BY <2>2, ArriveEvent, ReachEvent, ExpireEvent
    <3> QED BY <3>1, EventReceiver
  <2>3. CASE UNCHANGED vars
    BY <2>3 DEF vars, ReceiversInv
  <2> QED BY <2>1, <2>2, <2>3 DEF Next
<1>2. setup' = setup
  <2>1. ASSUME NEW n, NEW t, Becomes(n, t) PROVE setup' = setup
    BY <2>1 DEF Becomes
  <2>2. CASE Tick \/ UNCHANGED vars
    BY <2>2 DEF Tick, vars
  <2>3. ASSUME NEW n \in Nodes, Arrive(n) \/ Reach(n) \/ \E t \in Timers : Expire(n, t)
        PROVE  setup' = setup
    <3>1. \E t : Becomes(n, t)
      BY <2>3 DEF Arrive, Reach, Expire
    <3> QED BY <2>1, <3>1
  <2> QED BY <2>2, <2>3 DEF Next
<1>3. ASSUME NEW r \in Nodes
      PROVE  ReceiverInv(mac, given, mac[r].pktRx, air[r], mac[r].cache, passed[r])'
  <2>1. ASSUME NEW S, NEW G, NEW rx, NEW q, NEW c, NEW ps, ReceiverInv(S, G, rx, q, c, ps)
        PROVE  ReceiverInv(S, G, rx, q, c, ps)'
    BY <1>2, <2>1, ReceiverSame
  <2> QED BY <1>1, <2>1
<1>4. DOMAIN passed' = Nodes
  BY PassedDomain
<1> QED BY <1>3, <1>4 DEF ReceiversInv

(***************************************************************************)
(* A node passes the packets of a sender up in the order they were sent,   *)
(* and none twice but the one whose sequence number is 0 when dh_scontrol  *)
(* wraps, which the duplicate filter of recvDATA() takes for a cache_      *)
(* entry that is not there yet: for every number of nodes, lost frames and *)
(* acknowledgements, and for every number of sequence numbers.             *)
(***************************************************************************)
THEOREM DeliveredInOrderOnce == Spec => []InOrderOnce
<1>1. Init => MacInv /\ SendersInv /\ ReceiversInv
  BY InitInv, InitSenders, InitReceivers
<1>2. MacInv /\ SendersInv /\ ReceiversInv /\ [Next]_vars =>
        (MacInv /\ SendersInv /\ ReceiversInv)'
  BY NextInv, NextSenders, NextReceivers
<1>3. ReceiversInv => InOrderOnce
  BY DEF ReceiversInv, ReceiverInv, InOrder, InOrderOnce
<1> QED BY <1>1, <1>2, <1>3, PTL DEF Spec
================================================================================
