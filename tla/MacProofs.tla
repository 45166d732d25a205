------------------------------- MODULE MacProofs -------------------------------
(***************************************************************************)
(* Mac/802_11 for any number of nodes, any channel and traffic, any retry  *)
(* limits, durations and sequence numbers that MacAssumption allows, and   *)
(* whatever events coincide: a node's state, its timers and the packets it *)
(* holds always fit one another. Each handler is shown to keep the         *)
(* invariant of the node that runs it, with what it changes; the actions   *)
(* then follow, since a handler touches no other node. The last part shows *)
(* that no timer is started while it is busy, which depends on durations.  *)
(***************************************************************************)
EXTENDS Mac802_11, TLAPS

-------------------------------------------------------------------------------
(* Nodes, parameters and frames *)

\* The fields of a node
Fields ==
  {"index", "tx_state", "rx_state", "tx_active", "pktTx", "pktRTS", "pktCTRL",
   "pktRx", "mhIF", "mhNav", "mhRecv", "mhSend", "mhDefer", "mhBackoff", "left",
   "paused", "cw", "ssrc", "slrc", "sta_seqno", "cache", "callback", "ifq",
   "failed", "out", "up", "over"}

\* From s to t a node changes no field but those of F.
Only(s, t, F) ==
  /\ DOMAIN t = Fields
  /\ "index" \in F \/ t.index = s.index
  /\ "tx_state" \in F \/ t.tx_state = s.tx_state
  /\ "rx_state" \in F \/ t.rx_state = s.rx_state
  /\ "tx_active" \in F \/ t.tx_active = s.tx_active
  /\ "pktTx" \in F \/ t.pktTx = s.pktTx
  /\ "pktRTS" \in F \/ t.pktRTS = s.pktRTS
  /\ "pktCTRL" \in F \/ t.pktCTRL = s.pktCTRL
  /\ "pktRx" \in F \/ t.pktRx = s.pktRx
  /\ "mhIF" \in F \/ t.mhIF = s.mhIF
  /\ "mhNav" \in F \/ t.mhNav = s.mhNav
  /\ "mhRecv" \in F \/ t.mhRecv = s.mhRecv
  /\ "mhSend" \in F \/ t.mhSend = s.mhSend
  /\ "mhDefer" \in F \/ t.mhDefer = s.mhDefer
  /\ "mhBackoff" \in F \/ t.mhBackoff = s.mhBackoff
  /\ "left" \in F \/ t.left = s.left
  /\ "paused" \in F \/ t.paused = s.paused
  /\ "cw" \in F \/ t.cw = s.cw
  /\ "ssrc" \in F \/ t.ssrc = s.ssrc
  /\ "slrc" \in F \/ t.slrc = s.slrc
  /\ "sta_seqno" \in F \/ t.sta_seqno = s.sta_seqno
  /\ "cache" \in F \/ t.cache = s.cache
  /\ "callback" \in F \/ t.callback = s.callback
  /\ "ifq" \in F \/ t.ifq = s.ifq
  /\ "failed" \in F \/ t.failed = s.failed
  /\ "out" \in F \/ t.out = s.out
  /\ "up" \in F \/ t.up = s.up
  /\ "over" \in F \/ t.over = s.over

\* What MacAssumption says of the numbers of setup
Numbers ==
  /\ setup.wrap \in Nat \ {0, 1} /\ setup.bugFix_timer \in BOOLEAN
  /\ setup.RTSThreshold \in Nat
  /\ setup.ShortRetryLimit \in Nat \ {0} /\ setup.LongRetryLimit \in Nat \ {0}
  /\ setup.CWMin \in Nat \ {0} /\ setup.CWMax \in Nat \ {0} /\ setup.CWMin <= setup.CWMax
  /\ setup.SlotTime \in Nat \ {0} /\ setup.SIFS \in Nat \ {0}
  /\ setup.ack_plcp \in Nat /\ setup.propagation \in Nat /\ setup.MaxPropagation \in Nat
  /\ setup.rts \in Nat /\ setup.cts \in Nat /\ setup.ack \in Nat
  /\ setup.errors \in Nat

\* and of its packets and their durations
Traffic ==
  /\ setup.data \in Seq(Nat)
  /\ setup.traffic \in [Nodes -> Seq([ra : Nodes \cup {MAC_BROADCAST}, size : Nat])]
  /\ \A n \in Nodes : \A i \in DOMAIN setup.traffic[n] :
       setup.traffic[n][i].size \in DOMAIN setup.data
  /\ \A i \in DOMAIN setup.data :
       i >= setup.RTSThreshold =>
         3 * setup.SIFS + setup.cts + setup.data[i] + setup.ack < 2^16

Params ==
  /\ Numbers
  /\ Traffic

\* The setup that Init picks is one MacAssumption speaks of.
LEMMA SetupParams == setup \in Setups => Params
  BY MacAssumption DEF SetupRecords, Params, Numbers, Traffic

\* The duration field of a frame covers the rest of its exchange, so that
\* sendCTS() subtracts what is there.
GoodDur(type, dur) ==
  /\ type = "RTS" => dur < 2^16 /\ dur >= 3 * setup.SIFS + setup.cts + setup.ack
  /\ type = "CTS" => dur >= 2 * setup.SIFS + setup.ack

GoodFrame(p) == p \in Frames /\ p.seq < setup.wrap /\ GoodDur(p.type, p.dur)

\* A data frame of node n
GoodData(p, n) ==
  /\ GoodFrame(p) /\ p.type = "DATA" /\ p.ta = n
  /\ p.size \in DOMAIN setup.data /\ p.time = setup.data[p.size]

\* An error in a frame leaves it a frame.
LEMMA FrameExcept ==
  ASSUME NEW p, GoodFrame(p), NEW e \in BOOLEAN
  PROVE  GoodFrame([p EXCEPT !.error = e])
  BY DEF GoodFrame, Frames

IsBool(v) == v \in BOOLEAN
IsTimer(k) == k \in Nat \cup {Off}
IsTx(p, n) == p = None \/ GoodData(p, n)
IsRTS(p) == p = None \/ (GoodFrame(p) /\ p.type = "RTS")
IsCTRL(p) == p = None \/ (GoodFrame(p) /\ p.type \in {"CTS", "ACK"})
IsFrame(p) == p = None \/ GoodFrame(p)
IsLeft(k) == k \in 0 .. setup.CWMax - 1
IsCw(k) == k \in setup.CWMin .. setup.CWMax
IsSeqno(k) == k \in 0 .. setup.wrap - 1
IsCache(c) == c \in [Nodes -> 0 .. setup.wrap - 1]
Packets == [ra : Nodes \cup {MAC_BROADCAST}, size : DOMAIN setup.data, id : Nat]
IsQueue(q) == q \in Seq(Packets)
IsTxState(v) == v \in {"IDLE", "RTS", "CTS", "SEND", "ACK"}
IsRxState(v) == v \in {"IDLE", "RECV", "COLL"}
IsOver(v) == v = None \/ v \in Overs

\* The types of all fields of a node
NodeTypes(s) ==
  /\ DOMAIN s = Fields
  /\ s.index \in Nodes /\ IsTxState(s.tx_state) /\ IsRxState(s.rx_state)
  /\ IsBool(s.tx_active) /\ IsBool(s.paused) /\ IsBool(s.callback)
  /\ IsTx(s.pktTx, s.index) /\ IsRTS(s.pktRTS) /\ IsCTRL(s.pktCTRL) /\ IsFrame(s.pktRx)
  /\ IsTimer(s.mhIF) /\ IsTimer(s.mhNav) /\ IsTimer(s.mhRecv) /\ IsTimer(s.mhSend)
  /\ IsTimer(s.mhDefer) /\ IsTimer(s.mhBackoff)
  /\ IsLeft(s.left) /\ IsCw(s.cw) /\ s.ssrc \in Nat /\ s.slrc \in Nat
  /\ IsSeqno(s.sta_seqno) /\ IsCache(s.cache) /\ IsQueue(s.ifq)
  /\ IsFrame(s.out) /\ IsFrame(s.up) /\ IsOver(s.over)

\* A null pointer is in every type of packet.
LEMMA NoneTypes ==
  ASSUME NEW p, p = None, NEW n
  PROVE  IsCTRL(p) /\ IsRTS(p) /\ IsFrame(p) /\ IsOver(p) /\ IsTx(p, n)
  BY DEF IsCTRL, IsRTS, IsFrame, IsOver, IsTx

\* A time is a busy timer.
LEMMA IsTimerNat == ASSUME NEW k \in Nat PROVE IsTimer(k) /\ k # Off
  BY DEF IsTimer, Off

-------------------------------------------------------------------------------
(* The timers and the functions that set one field *)

\* Start sets one timer.
LEMMA StartEffect ==
  ASSUME NEW s, DOMAIN s = Fields, NEW timer \in Timers, NEW k
  PROVE  Only(s, Start(s, timer, k), {timer, "failed"}) /\ Start(s, timer, k)[timer] = k
  BY DEF Only, Start, Fields, Timers

\* A timer that is started keeps the types.
LEMMA StartTypes ==
  ASSUME NEW s, NodeTypes(s), NEW timer \in Timers, NEW k \in Nat
  PROVE  NodeTypes(Start(s, timer, k))
<1> DEFINE t == Start(s, timer, k)
<1>1. Only(s, t, {timer, "failed"}) /\ t[timer] = k /\ IsTimer(k)
  BY StartEffect, IsTimerNat DEF NodeTypes
<1> HIDE DEF t
<1>2. NodeTypes(t)
  BY <1>1 DEF Only, NodeTypes, Timers
<1> QED BY <1>2 DEF t
  
\* BackoffTimer::start() draws its slots and counts if the medium is idle.
LEMMA StartBackoffEffect ==
  ASSUME Params, NEW s, NodeTypes(s), NEW r \in Nat, NEW difs \in Nat
  PROVE  LET t == StartBackoff(s, r, difs) IN
         /\ NodeTypes(t)
         /\ Only(s, t, {"mhBackoff", "left", "paused", "failed"})
         /\ is_idle(s) => t.paused = FALSE /\ t.mhBackoff # Off
         /\ ~is_idle(s) => t.paused = TRUE /\ t.mhBackoff = s.mhBackoff
<1> DEFINE k == r % s.cw
<1>1. IsLeft(k) /\ k \in Nat
  <2>1. s.cw \in setup.CWMin .. setup.CWMax
    BY DEF NodeTypes, IsCw
  <2>2. setup.CWMin \in Nat \ {0} /\ setup.CWMax \in Nat \ {0}
    BY DEF Params, Numbers
  <2>3. s.cw \in Nat /\ s.cw > 0 /\ s.cw <= setup.CWMax
    BY <2>1, <2>2
  <2> HIDE DEF k
  <2>4. k \in 0 .. s.cw - 1
    BY <2>3 DEF k
  <2> QED BY <2>2, <2>3, <2>4 DEF IsLeft
<1>2. k * setup.SlotTime + difs \in Nat
  <2>1. setup.SlotTime \in Nat
    BY DEF Params, Numbers
  <2>2. k * setup.SlotTime \in Nat
    BY <2>1, <1>1
  <2> HIDE DEF k
  <2> QED BY <2>2
<1> HIDE DEF k
<1>3. CASE is_idle(s)
  <2> DEFINE t == [Start(s, "mhBackoff", k * setup.SlotTime + difs)
               EXCEPT !.left = k, !.paused = FALSE]
  <2>1. StartBackoff(s, r, difs) = t
    BY <1>3 DEF StartBackoff, k
  <2>2. t.mhBackoff # Off /\ IsTimer(t.mhBackoff)
    BY <1>2, IsTimerNat DEF Start, NodeTypes, Fields
  <2>3. Only(s, t, {"mhBackoff", "left", "paused", "failed"}) /\ t.paused = FALSE /\ t.left = k
    BY DEF Start, NodeTypes, Fields, Only
  <2> HIDE DEF t
  <2>4. NodeTypes(t)
    BY <2>2, <2>3, <1>1 DEF NodeTypes, Only, IsBool
  <2> QED BY <2>1, <2>2, <2>3, <2>4, <1>3
<1>4. CASE ~is_idle(s)
  <2> DEFINE t == [s EXCEPT !.left = k, !.paused = TRUE, !.failed = @ \/ s.mhBackoff # Off]
  <2>1. StartBackoff(s, r, difs) = t
    BY <1>4 DEF StartBackoff, k
  <2>3. Only(s, t, {"mhBackoff", "left", "paused", "failed"}) /\ t.paused = TRUE /\ t.left = k /\ t.mhBackoff = s.mhBackoff
    BY DEF Start, NodeTypes, Fields, Only
  <2> HIDE DEF t
  <2>4. NodeTypes(t)
    BY <2>3, <1>1 DEF NodeTypes, Only, IsBool
  <2> QED BY <2>1, <2>3, <2>4, <1>4
<1> QED BY <1>3, <1>4

\* The slots that pause() takes off do not exceed those left.
LEMMA SlotsGone ==
  ASSUME NEW left \in Nat, NEW slot \in Nat \ {0}, NEW b \in Nat,
         left * slot - b >= 0
  PROVE  (left * slot - b) \div slot \in 0 .. left
<1> DEFINE q == (left * slot - b) \div slot
<1>0. left * slot \in Nat
  OBVIOUS
<1>1. q \in Nat /\ slot * q <= left * slot - b
  BY <1>0
<1> HIDE DEF q
<1>2. ASSUME q >= left + 1 PROVE FALSE
  <2>1. slot * q >= slot * (left + 1)
    BY <1>1, <1>2
  <2>2. slot * (left + 1) = left * slot + slot
    OBVIOUS
  <2> QED BY <2>1, <2>2, <1>1, <1>0
<1> QED BY <1>1, <1>2 DEF q

\* The interframe spaces are times.
LEMMA DIFSNat == Params => DIFS \in Nat /\ EIFS \in Nat
  BY DEF Params, Numbers, DIFS, EIFS

\* BackoffTimer::resume() counts the slots left.
LEMMA ResumeEffect ==
  ASSUME Params, NEW s, NodeTypes(s)
  PROVE  LET t == ResumeBackoff(s) IN
         /\ NodeTypes(t)
         /\ Only(s, t, {"mhBackoff", "paused"})
         /\ t.paused = FALSE /\ t.mhBackoff # Off
<1> DEFINE k == s.left * setup.SlotTime + DIFS
           t == [s EXCEPT !.paused = FALSE, !.mhBackoff = k]
<1>1. k \in Nat
  <2>1. s.left \in Nat /\ setup.SlotTime \in Nat /\ DIFS \in Nat
    BY DIFSNat DEF NodeTypes, IsLeft, Params, Numbers
  <2>2. s.left * setup.SlotTime \in Nat
    BY <2>1
  <2> QED BY <2>1, <2>2
<1> HIDE DEF k
<1>2. Only(s, t, {"mhBackoff", "paused"}) /\ t.paused = FALSE /\ t.mhBackoff = k
  BY DEF NodeTypes, Only, Fields
<1>3. ResumeBackoff(s) = t
  BY DEF ResumeBackoff, k
<1> HIDE DEF t
<1>4. k # Off /\ IsTimer(k)
  BY <1>1, IsTimerNat
<1>5. NodeTypes(t)
  BY <1>2, <1>4 DEF NodeTypes, Only, IsBool
<1> QED BY <1>2, <1>3, <1>4, <1>5

\* BackoffTimer::pause() keeps between 0 and CWMax - 1 slots.
LEMMA PauseEffect ==
  ASSUME Params, NEW s, NodeTypes(s), s.mhBackoff # Off
  PROVE  LET t == PauseBackoff(s) IN
         /\ NodeTypes(t)
         /\ Only(s, t, {"mhBackoff", "paused", "left"})
         /\ t.paused = TRUE /\ t.mhBackoff = Off
<1> DEFINE gone == s.left * setup.SlotTime - s.mhBackoff
           slots == IF gone < 0 THEN 0 ELSE gone \div setup.SlotTime
           k == s.left - slots
           t == [s EXCEPT !.paused = TRUE, !.mhBackoff = Off, !.left = k]
<1>0. s.left \in Nat /\ setup.SlotTime \in Nat \ {0} /\ s.mhBackoff \in Nat
  BY DEF NodeTypes, IsLeft, IsTimer, Params, Numbers, Off
<1>1. slots \in 0 .. s.left
  BY <1>0, SlotsGone
<1> HIDE DEF slots
<1>2. IsLeft(k) /\ IsTimer(Off)
  <2>1. s.left \in 0 .. setup.CWMax - 1
    BY DEF NodeTypes, IsLeft
  <2>2. setup.CWMax \in Nat
    BY DEF Params, Numbers
  <2> QED BY <1>1, <2>1, <2>2 DEF IsLeft, IsTimer
<1>3. PauseBackoff(s) = t
  BY DEF PauseBackoff, slots
<1> HIDE DEF k
<1>4. Only(s, t, {"mhBackoff", "paused", "left"}) /\ t.paused = TRUE /\ t.mhBackoff = Off
      /\ t.left = k
  BY DEF NodeTypes, Only, Fields
<1> HIDE DEF t
<1>5. NodeTypes(t)
  BY <1>2, <1>4 DEF NodeTypes, Only, IsBool
<1> QED BY <1>3, <1>4, <1>5

\* checkBackoffTimer(): afterwards a backoff that counts finds the medium idle,
\* and none is paused there.
LEMMA CheckEffect ==
  ASSUME Params, NEW s, NodeTypes(s), ~(s.paused /\ s.mhBackoff # Off)
  PROVE  LET t == checkBackoffTimer(s) IN
         /\ NodeTypes(t)
         /\ Only(s, t, {"mhBackoff", "paused", "left"})
         /\ is_idle(t) <=> is_idle(s)
         /\ is_idle(t) => t.paused = FALSE
         /\ t.mhBackoff # Off => is_idle(t) /\ t.paused = FALSE
         /\ BackoffBusy(t) <=> BackoffBusy(s)
<1>0. Only(s, s, {"mhBackoff", "paused", "left"})
  BY DEF Only, NodeTypes
<1>1. CASE is_idle(s) /\ s.paused
  <2> DEFINE t == ResumeBackoff(s)
  <2>1. checkBackoffTimer(s) = t
    BY <1>1 DEF checkBackoffTimer
  <2>2. /\ NodeTypes(t) /\ Only(s, t, {"mhBackoff", "paused"})
        /\ t.paused = FALSE /\ t.mhBackoff # Off
    BY ResumeEffect
  <2> HIDE DEF t
  <2>3. Only(s, t, {"mhBackoff", "paused", "left"})
    BY <2>2 DEF Only
  <2>4. is_idle(t) /\ BackoffBusy(t) /\ BackoffBusy(s)
    BY <1>1, <2>2 DEF Only, is_idle, BackoffBusy
  <2> QED BY <1>1, <2>1, <2>2, <2>3, <2>4
<1>2. CASE ~is_idle(s) /\ BackoffBusy(s) /\ ~s.paused
  <2> DEFINE t == PauseBackoff(s)
  <2>1. checkBackoffTimer(s) = t
    BY <1>2 DEF checkBackoffTimer
  <2>2. /\ NodeTypes(t) /\ Only(s, t, {"mhBackoff", "paused", "left"})
        /\ t.paused = TRUE /\ t.mhBackoff = Off
    BY <1>2, PauseEffect DEF BackoffBusy
  <2> HIDE DEF t
  <2>4. ~is_idle(t) /\ BackoffBusy(t) /\ BackoffBusy(s)
    BY <1>2, <2>2 DEF Only, is_idle, BackoffBusy
  <2> QED BY <1>2, <2>1, <2>2, <2>4
<1>3. CASE ~(is_idle(s) /\ s.paused) /\ ~(~is_idle(s) /\ BackoffBusy(s) /\ ~s.paused)
  <2>1. checkBackoffTimer(s) = s
    BY <1>3 DEF checkBackoffTimer
  <2>2. IsBool(s.paused)
    BY DEF NodeTypes
  <2>3. is_idle(s) => s.paused = FALSE
    BY <1>3, <2>2 DEF IsBool
  <2>4. s.mhBackoff # Off => is_idle(s) /\ s.paused = FALSE
    BY <1>3, <2>2 DEF IsBool, BackoffBusy
  <2> QED BY <1>0, <2>1, <2>3, <2>4
<1> QED BY <1>1, <1>2, <1>3

\* setTxState() leaves the backoff as checkBackoffTimer() does.
LEMMA SetTxEffect ==
  ASSUME Params, NEW s, NodeTypes(s), ~(s.paused /\ s.mhBackoff # Off),
         NEW v \in {"IDLE", "RTS", "CTS", "SEND", "ACK"}
  PROVE  LET t == setTxState(s, v) IN
         /\ NodeTypes(t)
         /\ Only(s, t, {"tx_state", "mhBackoff", "paused", "left"})
         /\ t.tx_state = v
         /\ is_idle(t) => t.paused = FALSE
         /\ t.mhBackoff # Off => is_idle(t) /\ t.paused = FALSE
         /\ BackoffBusy(t) <=> BackoffBusy(s)
<1> DEFINE u == [s EXCEPT !.tx_state = v]
<1>1. Only(s, u, {"tx_state"}) /\ u.tx_state = v
  BY DEF Only, Fields, NodeTypes
<1>2. setTxState(s, v) = checkBackoffTimer(u)
  BY DEF setTxState
<1> HIDE DEF u
<1>3. NodeTypes(u) /\ ~(u.paused /\ u.mhBackoff # Off)
  BY <1>1 DEF Only, NodeTypes, IsTxState, IsRxState
<1>4. BackoffBusy(u) <=> BackoffBusy(s)
  BY <1>1 DEF Only, BackoffBusy
<1> DEFINE t == checkBackoffTimer(u)
<1> HIDE DEF t
<1>5. /\ NodeTypes(t)
      /\ Only(u, t, {"mhBackoff", "paused", "left"})
      /\ is_idle(t) => t.paused = FALSE
      /\ t.mhBackoff # Off => is_idle(t) /\ t.paused = FALSE
      /\ BackoffBusy(t) <=> BackoffBusy(u)
  BY <1>3, CheckEffect DEF t
<1>6. Only(s, t, {"tx_state", "mhBackoff", "paused", "left"}) /\ t.tx_state = v
  BY <1>1, <1>5 DEF Only
<1> QED BY <1>2, <1>4, <1>5, <1>6 DEF t

\* So does setRxState().
LEMMA SetRxEffect ==
  ASSUME Params, NEW s, NodeTypes(s), ~(s.paused /\ s.mhBackoff # Off),
         NEW v \in {"IDLE", "RECV", "COLL"}
  PROVE  LET t == setRxState(s, v) IN
         /\ NodeTypes(t)
         /\ Only(s, t, {"rx_state", "mhBackoff", "paused", "left"})
         /\ t.rx_state = v
         /\ is_idle(t) => t.paused = FALSE
         /\ t.mhBackoff # Off => is_idle(t) /\ t.paused = FALSE
         /\ BackoffBusy(t) <=> BackoffBusy(s)
<1> DEFINE u == [s EXCEPT !.rx_state = v]
<1>1. Only(s, u, {"rx_state"}) /\ u.rx_state = v
  BY DEF Only, Fields, NodeTypes
<1>2. setRxState(s, v) = checkBackoffTimer(u)
  BY DEF setRxState
<1> HIDE DEF u
<1>3. NodeTypes(u) /\ ~(u.paused /\ u.mhBackoff # Off)
  BY <1>1 DEF Only, NodeTypes, IsTxState, IsRxState
<1>4. BackoffBusy(u) <=> BackoffBusy(s)
  BY <1>1 DEF Only, BackoffBusy
<1> DEFINE t == checkBackoffTimer(u)
<1> HIDE DEF t
<1>5. /\ NodeTypes(t)
      /\ Only(u, t, {"mhBackoff", "paused", "left"})
      /\ is_idle(t) => t.paused = FALSE
      /\ t.mhBackoff # Off => is_idle(t) /\ t.paused = FALSE
      /\ BackoffBusy(t) <=> BackoffBusy(u)
  BY <1>3, CheckEffect DEF t
<1>6. Only(s, t, {"rx_state", "mhBackoff", "paused", "left"}) /\ t.rx_state = v
  BY <1>1, <1>5 DEF Only
<1> QED BY <1>2, <1>4, <1>5, <1>6 DEF t

\* usec() loses nothing below 2^16 microseconds.
LEMMA UsecNat == ASSUME NEW t \in Nat PROVE usec(t) \in Nat /\ (t < 2^16 => usec(t) = t)
<1>1. 2^16 = 65536
  OBVIOUS
<1> QED BY <1>1 DEF usec

\* set_nav() only sets the NAV.
LEMMA NavEffect ==
  ASSUME Params, NEW s, NodeTypes(s), NEW us \in Nat
  PROVE  LET t == set_nav(s, us) IN
         /\ NodeTypes(t)
         /\ Only(s, t, {"mhNav"})
         /\ t.mhNav = s.mhNav \/ t.mhNav \in Nat
<1>1. CASE us > s.mhNav
  <2> DEFINE t == [s EXCEPT !.mhNav = us]
  <2>1. set_nav(s, us) = t
    BY <1>1 DEF set_nav
  <2>2. Only(s, t, {"mhNav"}) /\ t.mhNav = us /\ IsTimer(us)
    BY IsTimerNat DEF Only, NodeTypes, Fields
  <2> HIDE DEF t
  <2>3. NodeTypes(t)
    BY <2>2 DEF Only, NodeTypes
  <2> QED BY <2>1, <2>2, <2>3
<1>2. CASE ~(us > s.mhNav)
  <2>1. set_nav(s, us) = s
    BY <1>2 DEF set_nav
  <2> QED BY <2>1 DEF Only, NodeTypes
<1> QED BY <1>1, <1>2

\* The minimum of two numbers
LEMMA MinOfTwo ==
  ASSUME NEW a \in Int, NEW b \in Int
  PROVE  Min({a, b}) = IF a <= b THEN a ELSE b
<1>1. \E x \in {a, b} : \A y \in {a, b} : x <= y
  OBVIOUS
<1> QED BY <1>1 DEF Min

\* The contention window stays between CWMin and CWMax.
LEMMA CwEffect ==
  ASSUME Params, NEW s, NodeTypes(s)
  PROVE  /\ NodeTypes(inc_cw(s)) /\ Only(s, inc_cw(s), {"cw"})
         /\ NodeTypes(rst_cw(s)) /\ Only(s, rst_cw(s), {"cw"})
<1>0. /\ setup.CWMin \in Nat \ {0} /\ setup.CWMax \in Nat \ {0} /\ setup.CWMin <= setup.CWMax
      /\ s.cw \in setup.CWMin .. setup.CWMax
  BY DEF Params, Numbers, NodeTypes, IsCw
<1>1. 2 * s.cw + 1 \in Int /\ setup.CWMax \in Int /\ s.cw \in Nat
  BY <1>0
<1> DEFINE k == Min({2 * s.cw + 1, setup.CWMax})
<1>2. k = IF 2 * s.cw + 1 <= setup.CWMax THEN 2 * s.cw + 1 ELSE setup.CWMax
  BY <1>1, MinOfTwo
<1> HIDE DEF k
<1>3. IsCw(k) /\ IsCw(setup.CWMin)
  BY <1>0, <1>1, <1>2 DEF IsCw
<1>4. /\ Only(s, inc_cw(s), {"cw"}) /\ inc_cw(s).cw = k
      /\ Only(s, rst_cw(s), {"cw"}) /\ rst_cw(s).cw = setup.CWMin
  BY DEF inc_cw, rst_cw, Only, NodeTypes, Fields, k
<1> QED BY <1>3, <1>4 DEF NodeTypes, Only

-------------------------------------------------------------------------------
(* Frames that a node makes *)

\* RTS, CTS and ACK are frames.
LEMMA ControlFrame ==
  ASSUME Params, NEW type \in {"RTS", "CTS", "ACK"}, NEW ta \in Nodes,
         NEW ra \in Nodes \cup {MAC_BROADCAST}, NEW dur \in Nat, NEW time \in Nat,
         GoodDur(type, dur)
  PROVE  LET p == Frame(type, ta, ra, dur, time) IN
         GoodFrame(p) /\ p.type = type /\ p.dur = dur /\ p # None
<1> DEFINE p == Frame(type, ta, ra, dur, time)
<1>1. /\ p \in Frames /\ p.type = type /\ p.dur = dur /\ p.seq = 0
  BY DEF Frame, Frames
<1>2. p # None
  BY <1>1, MacAssumption
<1>3. 0 < setup.wrap
  BY DEF Params, Numbers
<1> HIDE DEF p
<1>4. GoodFrame(p)
  BY <1>1, <1>3 DEF GoodFrame
<1> QED BY <1>1, <1>2, <1>4 DEF p

\* sendRTS() makes an RTS exactly for the packets that need one.
LEMMA RTSEffect ==
  ASSUME Params, NEW s, NodeTypes(s), s.pktTx # None
  PROVE  LET t == sendRTS(s) IN
         /\ NodeTypes(t)
         /\ Only(s, t, {"pktRTS"})
         /\ UsesRTS(s.pktTx) => t.pktRTS # None
         /\ ~UsesRTS(s.pktTx) => t.pktRTS = s.pktRTS
<1>1. CASE UsesRTS(s.pktTx)
  <2> DEFINE d == 3 * setup.SIFS + setup.cts + s.pktTx.time + setup.ack
             p == Frame("RTS", s.index, s.pktTx.ra, usec(d), setup.rts)
             t == [s EXCEPT !.pktRTS = p]
  <2>1. sendRTS(s) = t
    BY <1>1 DEF sendRTS
  <2>2. /\ GoodFrame(s.pktTx) /\ s.pktTx.size \in DOMAIN setup.data
        /\ s.pktTx.time = setup.data[s.pktTx.size]
    BY DEF NodeTypes, IsTx, GoodData
  <2>3. /\ s.pktTx.ra \in Nodes \cup {MAC_BROADCAST} /\ s.pktTx.time \in Nat
        /\ s.pktTx.size \in Nat
    BY <2>2 DEF GoodFrame, Frames
  <2>4. s.pktTx.size >= setup.RTSThreshold
    BY <1>1 DEF UsesRTS
  <2>5. d < 2^16
    BY <2>2, <2>4 DEF Params, Traffic
  <2>6. setup.SIFS \in Nat /\ setup.cts \in Nat /\ setup.ack \in Nat /\ setup.rts \in Nat
    BY DEF Params, Numbers
  <2>7. d \in Nat /\ d >= 3 * setup.SIFS + setup.cts + setup.ack
    BY <2>3, <2>6
  <2>8. s.index \in Nodes
    BY DEF NodeTypes
  <2> HIDE DEF d
  <2>9. usec(d) = d
    BY <2>5, <2>7, UsecNat
  <2>10. GoodFrame(p) /\ p.type = "RTS" /\ p # None
    <3> DEFINE q == Frame("RTS", s.index, s.pktTx.ra, d, setup.rts)
    <3>0. GoodDur("RTS", d)
      BY <2>5, <2>7 DEF GoodDur
    <3>1. d \in Nat /\ setup.rts \in Nat
      BY <2>6, <2>7
    <3>2. s.pktTx.ra \in Nodes \cup {MAC_BROADCAST}
      BY <2>3
    <3>3. GoodFrame(q) /\ q.type = "RTS" /\ q # None
      BY <2>8, <3>0, <3>1, <3>2, ControlFrame
    <3> QED BY <2>9, <3>3
  <2> HIDE DEF p
  <2>11. Only(s, t, {"pktRTS"}) /\ t.pktRTS = p /\ IsRTS(p)
    BY <2>10 DEF Only, NodeTypes, Fields, IsRTS
  <2> HIDE DEF t
  <2>12. NodeTypes(t)
    BY <2>11 DEF Only, NodeTypes
  <2> QED BY <1>1, <2>1, <2>10, <2>11, <2>12
<1>2. CASE ~UsesRTS(s.pktTx)
  <2>1. sendRTS(s) = s
    BY <1>2 DEF sendRTS
  <2> QED BY <1>2, <2>1 DEF Only, NodeTypes
<1> QED BY <1>1, <1>2

\* sendCTS() answers with what the duration of the RTS leaves, which is not
\* negative.
LEMMA CTSEffect ==
  ASSUME Params, NEW s, NodeTypes(s), NEW dst \in Nodes, NEW dur \in Nat,
         dur < 2^16, dur >= 3 * setup.SIFS + setup.cts + setup.ack
  PROVE  LET t == sendCTS(s, dst, dur) IN
         /\ NodeTypes(t) /\ Only(s, t, {"pktCTRL"})
         /\ t.pktCTRL # None /\ t.pktCTRL.type = "CTS"
<1> DEFINE d == dur - setup.SIFS - setup.cts
           p == Frame("CTS", s.index, dst, usec(d), setup.cts)
           t == [s EXCEPT !.pktCTRL = p]
<1>1. setup.SIFS \in Nat /\ setup.cts \in Nat /\ setup.ack \in Nat
  BY DEF Params, Numbers
<1>2. 2^16 = 65536
  OBVIOUS
<1>3. d \in Nat /\ d < 2^16 /\ d >= 2 * setup.SIFS + setup.ack
  BY <1>1, <1>2
<1> HIDE DEF d
<1>4. usec(d) = d
  BY <1>3, UsecNat
<1>5. s.index \in Nodes
  BY DEF NodeTypes
<1>6. GoodFrame(p) /\ p.type = "CTS" /\ p # None
  <2> DEFINE q == Frame("CTS", s.index, dst, d, setup.cts)
  <2>0. GoodDur("CTS", d)
    BY <1>3 DEF GoodDur
  <2>1. GoodFrame(q) /\ q.type = "CTS" /\ q # None
    BY <1>1, <1>3, <1>5, <2>0, ControlFrame
  <2> QED BY <1>4, <2>1
<1>7. sendCTS(s, dst, dur) = t
  BY DEF sendCTS, d
<1> HIDE DEF p
<1>8. Only(s, t, {"pktCTRL"}) /\ t.pktCTRL = p /\ IsCTRL(p)
  BY <1>6 DEF Only, NodeTypes, Fields, IsCTRL
<1> HIDE DEF t
<1>9. NodeTypes(t)
  BY <1>8 DEF Only, NodeTypes
<1> QED BY <1>6, <1>7, <1>8, <1>9

\* sendACK() makes an ACK.
LEMMA ACKEffect ==
  ASSUME Params, NEW s, NodeTypes(s), NEW dst \in Nodes
  PROVE  LET t == sendACK(s, dst) IN
         /\ NodeTypes(t) /\ Only(s, t, {"pktCTRL"})
         /\ t.pktCTRL # None /\ t.pktCTRL.type = "ACK"
<1> DEFINE p == Frame("ACK", s.index, dst, 0, setup.ack)
           t == [s EXCEPT !.pktCTRL = p]
<1>1. setup.ack \in Nat /\ s.index \in Nodes
  BY DEF Params, Numbers, NodeTypes
<1>2. GoodFrame(p) /\ p.type = "ACK" /\ p # None
  <2>1. GoodDur("ACK", 0)
    BY DEF GoodDur
  <2> QED BY <1>1, <2>1, ControlFrame
<1>3. sendACK(s, dst) = t
  BY DEF sendACK
<1> HIDE DEF p
<1>4. Only(s, t, {"pktCTRL"}) /\ t.pktCTRL = p /\ IsCTRL(p)
  BY <1>2 DEF Only, NodeTypes, Fields, IsCTRL
<1> HIDE DEF t
<1>5. NodeTypes(t)
  BY <1>4 DEF Only, NodeTypes
<1> QED BY <1>2, <1>3, <1>4, <1>5

\* A node that is receiving has a packet to mark.
RxThere(s) == s.rx_state # "IDLE" => s.pktRx # None

\* The packet that is being received stays, though it may be marked in error.
RxKept(s, t) ==
  /\ t.pktRx # None <=> s.pktRx # None
  /\ t.pktRx # None => \E e \in BOOLEAN : t.pktRx = [s.pktRx EXCEPT !.error = e]

\* transmit() marks what is being received and starts mhIF and mhSend.
LEMMA TransmitEffect ==
  ASSUME Params, NEW s, NodeTypes(s), NEW p, GoodFrame(p), NEW timeout \in Nat,
         RxThere(s)
  PROVE  LET t == transmit(s, p, timeout) IN
         /\ NodeTypes(t)
         /\ Only(s, t, {"tx_active", "out", "pktRx", "mhSend", "mhIF", "failed"})
         /\ t.mhSend # Off /\ t.out = p /\ RxKept(s, t)
<1> DEFINE q == IF s.rx_state = "IDLE" THEN s.pktRx ELSE [s.pktRx EXCEPT !.error = TRUE]
           u == [s EXCEPT !.tx_active = TRUE, !.out = p, !.pktRx = q]
           v == Start(u, "mhSend", timeout)
           t == Start(v, "mhIF", p.time)
<1>1. transmit(s, p, timeout) = t
  BY DEF transmit
<1>2. IsFrame(q) /\ (q # None <=> s.pktRx # None)
      /\ (q # None => \E e \in BOOLEAN : q = [s.pktRx EXCEPT !.error = e])
  <2>0. IsFrame(s.pktRx)
    BY DEF NodeTypes
  <2>1. CASE s.rx_state = "IDLE"
    <3>1. q = s.pktRx
      BY <2>1
    <3>2. GoodFrame(s.pktRx) => s.pktRx = [s.pktRx EXCEPT !.error = s.pktRx.error]
                                /\ s.pktRx.error \in BOOLEAN
      BY DEF GoodFrame, Frames
    <3> HIDE DEF q
    <3> QED BY <2>0, <3>1, <3>2 DEF IsFrame
  <2>2. CASE s.rx_state # "IDLE"
    <3>1. GoodFrame(q) /\ q = [s.pktRx EXCEPT !.error = TRUE]
      BY <2>0, <2>2, FrameExcept DEF IsFrame, RxThere
    <3> HIDE DEF q
    <3>2. q # None
      BY <3>1, MacAssumption DEF GoodFrame
    <3> QED BY <2>2, <3>1, <3>2 DEF IsFrame, RxThere
  <2> QED BY <2>1, <2>2
<1> HIDE DEF q
<1>3. Only(s, u, {"tx_active", "out", "pktRx"}) /\ u.out = p /\ u.pktRx = q /\ u.tx_active = TRUE
  BY DEF Only, NodeTypes, Fields
<1> HIDE DEF u
<1>4. NodeTypes(u)
  BY <1>2, <1>3 DEF Only, NodeTypes, IsFrame, IsBool
<1>5. NodeTypes(v) /\ Only(u, v, {"mhSend", "failed"}) /\ v.mhSend = timeout
  BY <1>4, StartTypes, StartEffect DEF Timers, NodeTypes
<1> HIDE DEF v
<1>6. p.time \in Nat
  BY DEF GoodFrame, Frames
<1>7. NodeTypes(t) /\ Only(v, t, {"mhIF", "failed"})
  <2>1. DOMAIN v = Fields /\ "mhIF" \in Timers
    BY <1>5 DEF NodeTypes, Timers
  <2>2. Only(v, t, {"mhIF", "failed"})
    BY <2>1, StartEffect
  <2>3. NodeTypes(t)
    BY <1>5, <1>6, <2>1, StartTypes
  <2> QED BY <2>2, <2>3
<1> HIDE DEF t
<1>8. timeout # Off
  BY IsTimerNat
<1>9. Only(s, t, {"tx_active", "out", "pktRx", "mhSend", "mhIF", "failed"})
  BY <1>3, <1>5, <1>7 DEF Only
<1>10. t.mhSend = timeout /\ t.out = p /\ t.pktRx = q
  BY <1>3, <1>5, <1>7 DEF Only
<1>11. RxKept(s, t)
  BY <1>2, <1>10 DEF RxKept
<1> QED BY <1>1, <1>7, <1>8, <1>9, <1>10, <1>11

\* The fields of the backoff timer
Backoff == {"mhBackoff", "left", "paused", "failed"}

-------------------------------------------------------------------------------
(* Waiting for the medium *)

\* How t waits for the medium after Contend
Waits(s, t) ==
  \/ t.mhDefer = s.mhDefer /\ t.paused = FALSE /\ t.mhBackoff # Off /\ is_idle(s)
  \/ t.mhDefer = s.mhDefer /\ t.paused = TRUE /\ t.mhBackoff = Off /\ ~is_idle(s)
  \/ t.mhDefer # Off /\ t.paused = FALSE /\ t.mhBackoff = Off

\* A node that is not in backoff contends in one of those ways.
LEMMA ContendEffect ==
  ASSUME Params, NEW s, NodeTypes(s), NEW r \in Nat, ~BackoffBusy(s)
  PROVE  LET t == Contend(s, r) IN
         NodeTypes(t) /\ Only(s, t, Backoff \cup {"mhDefer"}) /\ Waits(s, t)
<1>0. DIFS \in Nat /\ s.paused = FALSE /\ s.mhBackoff = Off /\ IsBool(s.paused)
  BY DIFSNat DEF BackoffBusy, NodeTypes, IsBool
<1>1. CASE setup.bugFix_timer
  <2> DEFINE t == StartBackoff(s, r, DIFS)
  <2>1. Contend(s, r) = t
    BY <1>1 DEF Contend
  <2>2. /\ NodeTypes(t) /\ Only(s, t, Backoff)
        /\ is_idle(s) => t.paused = FALSE /\ t.mhBackoff # Off
        /\ ~is_idle(s) => t.paused = TRUE /\ t.mhBackoff = s.mhBackoff
    BY <1>0, StartBackoffEffect DEF Backoff
  <2> HIDE DEF t
  <2>3. Only(s, t, Backoff \cup {"mhDefer"}) /\ t.mhDefer = s.mhDefer
    BY <2>2 DEF Only, Backoff
  <2>4. Waits(s, t)
    BY <1>0, <2>2, <2>3 DEF Waits
  <2> QED BY <2>1, <2>2, <2>3, <2>4
<1>2. CASE ~setup.bugFix_timer
  <2> DEFINE k == DIFS + (r % s.cw) * setup.SlotTime
             t == Start(s, "mhDefer", k)
  <2>1. Contend(s, r) = t
    BY <1>2 DEF Contend
  <2>2. k \in Nat
    <3>1. s.cw \in setup.CWMin .. setup.CWMax
      BY DEF NodeTypes, IsCw
    <3>2. setup.CWMin \in Nat \ {0} /\ setup.CWMax \in Nat \ {0} /\ setup.SlotTime \in Nat
      BY DEF Params, Numbers
    <3>3. s.cw \in Nat /\ s.cw > 0
      BY <3>1, <3>2
    <3>4. r % s.cw \in Nat
      BY <3>3
    <3>5. (r % s.cw) * setup.SlotTime \in Nat
      BY <3>2, <3>4
    <3> QED BY <1>0, <3>5
  <2> HIDE DEF k
  <2>3. DOMAIN s = Fields /\ "mhDefer" \in Timers
    BY DEF NodeTypes, Timers
  <2>4. Only(s, t, {"mhDefer", "failed"}) /\ t.mhDefer = k /\ NodeTypes(t)
    BY <2>2, <2>3, StartEffect, StartTypes
  <2> HIDE DEF t
  <2>5. k # Off
    BY <2>2, IsTimerNat
  <2>6. Only(s, t, Backoff \cup {"mhDefer"})
    BY <2>4 DEF Only, Backoff
  <2>7. Waits(s, t)
    BY <1>0, <2>4, <2>5 DEF Only, Waits
  <2> QED BY <2>1, <2>4, <2>6, <2>7
<1> QED BY <1>1, <1>2

-------------------------------------------------------------------------------
(* Taking up a packet *)

\* The data frame that sendDATA() makes of packet p
DataOf(s, p) ==
  [Frame("DATA", s.index, p.ra,
         IF p.ra = MAC_BROADCAST THEN 0 ELSE usec(setup.ack + setup.SIFS),
         setup.data[p.size])
     EXCEPT !.size = p.size, !.seq = s.sta_seqno, !.id = p.id]

\* It carries the receiver, size and number of p and the next sequence number.
LEMMA DataFrame ==
  ASSUME Params, NEW s, NodeTypes(s), NEW p \in Packets
  PROVE  LET q == DataOf(s, p) IN
         /\ GoodData(q, s.index) /\ q # None
         /\ q.ra = p.ra /\ q.size = p.size /\ q.id = p.id /\ q.seq = s.sta_seqno
<1> DEFINE dur == IF p.ra = MAC_BROADCAST THEN 0 ELSE usec(setup.ack + setup.SIFS)
           time == setup.data[p.size]
           q == [Frame("DATA", s.index, p.ra, dur, time)
                   EXCEPT !.size = p.size, !.seq = s.sta_seqno, !.id = p.id]
<1>1. setup.ack \in Nat /\ setup.SIFS \in Nat /\ setup.data \in Seq(Nat)
  BY DEF Params, Numbers, Traffic
<1>2. setup.ack + setup.SIFS \in Nat
  BY <1>1
<1>3. dur \in Nat
  BY <1>2, UsecNat
<1>4. p.size \in DOMAIN setup.data /\ p.id \in Nat /\ p.ra \in Nodes \cup {MAC_BROADCAST}
  BY DEF Packets
<1>5. time \in Nat /\ p.size \in Nat
  BY <1>1, <1>4
<1>6. s.sta_seqno \in Nat /\ s.sta_seqno < setup.wrap /\ s.index \in Nodes
  <2>1. setup.wrap \in Nat
    BY DEF Params, Numbers
  <2>2. s.sta_seqno \in 0 .. setup.wrap - 1 /\ s.index \in Nodes
    BY DEF NodeTypes, IsSeqno
  <2> QED BY <2>1, <2>2
<1>7. DataOf(s, p) = q
  BY DEF DataOf
<1>8. time = setup.data[p.size]
  OBVIOUS
<1> HIDE DEF dur, time
<1>9. /\ q \in Frames /\ q.type = "DATA" /\ q.ta = s.index /\ q.time = time
      /\ q.ra = p.ra /\ q.size = p.size /\ q.id = p.id /\ q.seq = s.sta_seqno
  BY <1>3, <1>4, <1>5, <1>6 DEF Frame, Frames
<1> HIDE DEF q
<1>10. q # None
  BY <1>9, MacAssumption
<1>11. GoodData(q, s.index)
  BY <1>4, <1>6, <1>8, <1>9 DEF GoodData, GoodFrame, GoodDur
<1> QED BY <1>7, <1>9, <1>10, <1>11

\* s becomes t by taking up packet p.
Takes(s, t, p) ==
  /\ t.callback = TRUE /\ t.pktTx = DataOf(s, p) /\ t.pktTx # None
  /\ t.sta_seqno = (s.sta_seqno + 1) % setup.wrap
  /\ t.pktRTS # None <=> UsesRTS(t.pktTx)

Taking == {"callback", "pktTx", "sta_seqno", "pktRTS"}

\* send() takes the packet up, and leaves a timer that is busy alone.
LEMMA SendEffect ==
  ASSUME Params, NEW s, NodeTypes(s), s.pktRTS = None, NEW p \in Packets, NEW r \in Nat
  PROVE  LET t == send(s, p, r) IN
         /\ NodeTypes(t) /\ Only(s, t, Taking \cup Backoff \cup {"mhDefer"})
         /\ Takes(s, t, p)
         /\ \/ t.mhDefer = s.mhDefer /\ t.paused = s.paused /\ t.mhBackoff = s.mhBackoff
            \/ /\ ~BackoffBusy(s) /\ ~is_idle(s)
               /\ t.mhDefer = s.mhDefer /\ t.paused = TRUE /\ t.mhBackoff = Off
            \/ ~BackoffBusy(s) /\ is_idle(s) /\ s.mhDefer = Off /\ Waits(s, t)
<1> DEFINE q == DataOf(s, p)
           k == (s.sta_seqno + 1) % setup.wrap
           u == [s EXCEPT !.callback = TRUE, !.pktTx = q, !.sta_seqno = k]
           v == sendRTS(u)
           t == IF BackoffBusy(v) THEN v
                ELSE IF ~is_idle(v) THEN StartBackoff(v, r, 0)
                ELSE IF v.mhDefer = Off THEN Contend(v, r) ELSE v
<1>1. send(s, p, r) = t
  BY DEF send, DataOf
<1>2. GoodData(q, s.index) /\ q # None
  BY DataFrame
<1>3. IsSeqno(k)
  <2>1. setup.wrap \in Nat \ {0} /\ s.sta_seqno \in 0 .. setup.wrap - 1
    BY DEF NodeTypes, IsSeqno, Params, Numbers
  <2>2. s.sta_seqno + 1 \in Nat /\ setup.wrap \in Nat /\ setup.wrap > 0
    BY <2>1
  <2>3. k \in 0 .. setup.wrap - 1
    BY <2>2
  <2> QED BY <2>3 DEF IsSeqno
<1>k. k = (s.sta_seqno + 1) % setup.wrap
  OBVIOUS
<1>q. q = DataOf(s, p)
  OBVIOUS
<1> HIDE DEF q, k
<1>4. /\ Only(s, u, {"callback", "pktTx", "sta_seqno"})
      /\ u.callback = TRUE /\ u.pktTx = q /\ u.sta_seqno = k
  BY DEF Only, NodeTypes, Fields
<1> HIDE DEF u
<1>5. IsTx(q, s.index)
  BY <1>2 DEF IsTx
<1>6. NodeTypes(u) /\ u.pktTx # None
  BY <1>2, <1>3, <1>4, <1>5 DEF NodeTypes, Only, IsBool
<1>7. /\ NodeTypes(v) /\ Only(u, v, {"pktRTS"})
      /\ UsesRTS(u.pktTx) => v.pktRTS # None
      /\ ~UsesRTS(u.pktTx) => v.pktRTS = u.pktRTS
  BY <1>6, RTSEffect
<1> HIDE DEF v
<1>8. Only(s, v, Taking) /\ Takes(s, v, p)
  BY <1>2, <1>4, <1>7, <1>k, <1>q DEF Only, Taking, Takes
<1>9. (BackoffBusy(v) <=> BackoffBusy(s)) /\ (is_idle(v) <=> is_idle(s))
  BY <1>8 DEF Only, BackoffBusy, is_idle, Taking
<1>10. CASE BackoffBusy(v) \/ (is_idle(v) /\ v.mhDefer # Off)
  <2>1. t = v
    BY <1>10
  <2>2. Only(s, v, Taking \cup Backoff \cup {"mhDefer"})
    BY <1>8 DEF Only, Taking, Backoff
  <2>3. v.mhDefer = s.mhDefer /\ v.paused = s.paused /\ v.mhBackoff = s.mhBackoff
    BY <1>8 DEF Only, Taking
  <2> QED BY <1>1, <1>7, <1>8, <2>1, <2>2, <2>3
<1>11. CASE ~BackoffBusy(v) /\ ~is_idle(v)
  <2> DEFINE x == StartBackoff(v, r, 0)
  <2>1. t = x
    BY <1>11
  <2>2. /\ NodeTypes(x) /\ Only(v, x, Backoff)
        /\ x.paused = TRUE /\ x.mhBackoff = v.mhBackoff
    BY <1>7, <1>11, StartBackoffEffect DEF Backoff
  <2> HIDE DEF x
  <2>3. Only(s, x, Taking \cup Backoff \cup {"mhDefer"}) /\ Takes(s, x, p)
    BY <1>8, <2>2 DEF Only, Taking, Backoff, Takes
  <2>4. x.mhDefer = s.mhDefer /\ x.mhBackoff = Off
    BY <1>8, <1>11, <2>2 DEF Only, Taking, Backoff, BackoffBusy
  <2> QED BY <1>1, <1>9, <1>11, <2>1, <2>2, <2>3, <2>4
<1>12. CASE ~BackoffBusy(v) /\ is_idle(v) /\ v.mhDefer = Off
  <2> DEFINE x == Contend(v, r)
  <2>1. t = x
    BY <1>12
  <2>2. NodeTypes(x) /\ Only(v, x, Backoff \cup {"mhDefer"}) /\ Waits(v, x)
    BY <1>7, <1>12, ContendEffect
  <2> HIDE DEF x
  <2>3. Only(s, x, Taking \cup Backoff \cup {"mhDefer"}) /\ Takes(s, x, p)
    BY <1>8, <2>2 DEF Only, Taking, Backoff, Takes
  <2>4. Waits(s, x) /\ s.mhDefer = Off
    BY <1>8, <1>9, <1>12, <2>2 DEF Only, Taking, Waits
  <2> QED BY <1>1, <1>9, <1>12, <2>1, <2>2, <2>3, <2>4
<1> QED BY <1>10, <1>11, <1>12

-------------------------------------------------------------------------------
(* The invariant of a node *)

\* rx_state_, pktRx_ and mhRecv_ tell the same.
Receiving(s) ==
  /\ s.rx_state # "IDLE" <=> s.mhRecv # Off
  /\ s.rx_state # "IDLE" <=> s.pktRx # None

\* There is an RTS only for a packet, and a packet only while the queue awaits
\* the callback.
Holding(s) ==
  /\ s.pktRTS # None => s.pktTx # None
  /\ s.pktTx # None => s.callback

\* tx_state_ tells which packet is on the air, and mhSend_ runs with it.
OnAir(s) ==
  /\ s.tx_state = "RTS" => s.pktRTS # None
  /\ s.tx_state = "SEND" => s.pktTx # None /\ s.pktRTS = None
  /\ s.tx_state \in {"CTS", "ACK"} => s.pktCTRL # None /\ s.pktCTRL.type = s.tx_state
  /\ s.tx_state # "IDLE" <=> s.mhSend # Off

\* A backoff counts only while the node is silent; defer and backoff are not
\* both under way but for a CTS or an ACK; one that is paused finds the medium
\* busy, unless the NAV ends now.
Contending(s) ==
  /\ s.mhBackoff # Off =>
       s.tx_state = "IDLE" /\ s.rx_state = "IDLE" /\ s.paused = FALSE
  /\ s.mhDefer # Off => s.tx_state = "IDLE" /\ (s.pktCTRL # None \/ s.pktTx # None)
  /\ s.mhDefer # Off /\ s.pktCTRL = None => ~BackoffBusy(s)
  /\ s.tx_state \in {"RTS", "SEND"} => ~BackoffBusy(s)
  /\ s.paused /\ s.mhNav # 0 => ~is_idle(s)

NodeInv(s) ==
  NodeTypes(s) /\ Holding(s) /\ OnAir(s) /\ Contending(s)

\* A node whose transmission is over, as tx_resume() finds it
Ready(s) ==
  /\ NodeTypes(s) /\ Holding(s)
  /\ ~(s.paused /\ s.mhBackoff # Off)
  /\ s.mhSend = Off
  /\ s.mhDefer # Off => s.pktCTRL # None

\* s becomes t by going on with its packet or taking up the next one.
Continues(s, t) ==
  \/ /\ t.pktTx = s.pktTx /\ t.pktRTS = s.pktRTS /\ t.sta_seqno = s.sta_seqno
     /\ t.ifq = s.ifq /\ t.callback = s.callback
  \/ /\ s.pktTx = None /\ s.pktRTS = None /\ s.ifq = <<>>
     /\ t.pktTx = None /\ t.pktRTS = None /\ t.sta_seqno = s.sta_seqno
     /\ t.ifq = s.ifq /\ t.callback = FALSE
  \/ /\ s.pktTx = None /\ s.pktRTS = None /\ s.callback /\ s.ifq # <<>>
     /\ t.ifq = Tail(s.ifq) /\ Takes(s, t, Head(s.ifq))

\* How s, which is about to fall silent, waits in t to go on
Pauses(s, t) ==
  \/ t.mhDefer = s.mhDefer /\ t.paused = s.paused /\ t.mhBackoff = s.mhBackoff
  \/ /\ ~BackoffBusy(s) /\ ~is_idle(s)
     /\ t.mhDefer = s.mhDefer /\ t.paused = TRUE /\ t.mhBackoff = Off
  \/ ~BackoffBusy(s) /\ Waits(s, t)
  \/ /\ t.mhDefer # Off /\ t.pktCTRL # None
     /\ t.paused = s.paused /\ t.mhBackoff = s.mhBackoff
  \/ ~BackoffBusy(s) /\ t.mhDefer # Off /\ t.paused = FALSE /\ t.mhBackoff = Off

-------------------------------------------------------------------------------
(* After a transmission: tx_resume() *)

\* What is behind the head of a queue is a queue.
LEMMA QueueHead ==
  ASSUME NEW q, IsQueue(q), q # <<>>
  PROVE  Head(q) \in Packets /\ IsQueue(Tail(q))
  BY DEF IsQueue

\* The callback takes up the next packet of the queue, if there is one.
LEMMA ResumeQueue ==
  ASSUME Params, NEW s, NodeTypes(s), s.pktTx = None, s.pktRTS = None, s.callback,
         NEW r \in Nat
  PROVE  LET t == resume(s, r) IN
         /\ NodeTypes(t) /\ Only(s, t, Taking \cup Backoff \cup {"mhDefer", "ifq"})
         /\ Continues(s, t) /\ Holding(t) /\ Pauses(s, t)
         /\ t.mhDefer # s.mhDefer => t.pktTx # None
<1>1. CASE s.ifq = <<>>
  <2> DEFINE t == [s EXCEPT !.callback = FALSE]
  <2>1. resume(s, r) = t
    BY <1>1 DEF resume
  <2>2. Only(s, t, {"callback"}) /\ t.callback = FALSE
    BY DEF Only, NodeTypes, Fields
  <2> HIDE DEF t
  <2>3. NodeTypes(t) /\ Only(s, t, Taking \cup Backoff \cup {"mhDefer", "ifq"})
    BY <2>2 DEF Only, NodeTypes, IsBool, Taking, Backoff
  <2>4. Continues(s, t) /\ Holding(t) /\ Pauses(s, t) /\ t.mhDefer = s.mhDefer
    BY <1>1, <2>2 DEF Only, Continues, Holding, Pauses
  <2> QED BY <2>1, <2>3, <2>4
<1>2. CASE s.ifq # <<>>
  <2> DEFINE u == [s EXCEPT !.ifq = Tail(@)]
             p == Head(s.ifq)
             t == send(u, p, r)
  <2>1. resume(s, r) = t
    BY <1>2 DEF resume
  <2>2. p \in Packets /\ IsQueue(Tail(s.ifq))
    BY <1>2, QueueHead DEF NodeTypes
  <2>3. Only(s, u, {"ifq"}) /\ u.ifq = Tail(s.ifq)
    BY DEF Only, NodeTypes, Fields
  <2>p. p = Head(s.ifq)
    OBVIOUS
  <2> HIDE DEF u, p
  <2>4. NodeTypes(u) /\ u.pktRTS = None
    BY <2>2, <2>3 DEF Only, NodeTypes
  <2>5. /\ NodeTypes(t) /\ Only(u, t, Taking \cup Backoff \cup {"mhDefer"})
        /\ Takes(u, t, p)
        /\ \/ t.mhDefer = u.mhDefer /\ t.paused = u.paused /\ t.mhBackoff = u.mhBackoff
           \/ /\ ~BackoffBusy(u) /\ ~is_idle(u)
              /\ t.mhDefer = u.mhDefer /\ t.paused = TRUE /\ t.mhBackoff = Off
           \/ ~BackoffBusy(u) /\ is_idle(u) /\ u.mhDefer = Off /\ Waits(u, t)
    BY <2>2, <2>4, SendEffect
  <2> HIDE DEF t
  <2>6. Only(s, t, Taking \cup Backoff \cup {"mhDefer", "ifq"})
    BY <2>3, <2>5 DEF Only, Taking, Backoff
  <2>7. DataOf(u, p) = DataOf(s, p)
    BY <2>3 DEF Only, DataOf
  <2>8. Takes(s, t, p)
    BY <2>3, <2>5, <2>7 DEF Takes, Only
  <2>9. t.ifq = Tail(s.ifq)
    BY <2>3, <2>5 DEF Only, Taking, Backoff
  <2>10. Continues(s, t) /\ Holding(t) /\ t.pktTx # None
    BY <1>2, <2>8, <2>9, <2>p DEF Continues, Holding, Takes
  <2>11. (BackoffBusy(u) <=> BackoffBusy(s)) /\ (is_idle(u) <=> is_idle(s))
    BY <2>3 DEF Only, BackoffBusy, is_idle
  <2>12. Pauses(s, t)
    BY <2>3, <2>5, <2>11 DEF Only, Pauses, Waits
  <2> QED BY <2>1, <2>5, <2>6, <2>10, <2>12
<1> QED BY <1>1, <1>2

\* tx_resume() leaves a silent node that keeps the invariant and waits for its
\* turn.
LEMMA TxResume ==
  ASSUME Params, NEW s, Ready(s), NEW r \in Nat
  PROVE  LET t == tx_resume(s, r) IN
         /\ NodeInv(t) /\ t.tx_state = "IDLE" /\ t.mhSend = Off
         /\ Only(s, t, Taking \cup Backoff \cup {"mhDefer", "ifq", "tx_state"})
         /\ Continues(s, t)
<1> DEFINE F == Taking \cup Backoff \cup {"mhDefer", "ifq"}
           Step(t) == /\ NodeTypes(t) /\ Only(s, t, F) /\ Continues(s, t) /\ Holding(t)
                      /\ Pauses(s, t)
                      /\ t.mhDefer # Off => t.pktCTRL # None \/ t.pktTx # None
           ctrl == Start(s, "mhDefer", setup.SIFS)
           wait == IF BackoffBusy(s) THEN s ELSE Contend(s, r)
           u == CASE s.pktCTRL # None -> ctrl
                  [] s.pktCTRL = None /\ s.pktRTS # None -> wait
                  [] s.pktCTRL = None /\ s.pktRTS = None /\ s.pktTx # None ->
                       IF BackoffBusy(s) THEN s
                       ELSE IF UsesRTS(s.pktTx) THEN ctrl ELSE Contend(s, r)
                  [] OTHER -> IF s.callback THEN resume(s, r) ELSE s
<1>0. tx_resume(s, r) = setTxState(u, "IDLE")
  BY DEF tx_resume
<1>s. NodeTypes(s) /\ Holding(s) /\ DOMAIN s = Fields
  BY DEF Ready, NodeTypes
<1>1. Step(s)
  BY <1>s DEF Ready, Only, Continues, Pauses
<1>2. s.pktCTRL # None \/ (s.pktTx # None /\ ~BackoffBusy(s)) => Step(ctrl)
  <2>1. setup.SIFS \in Nat /\ "mhDefer" \in Timers
    BY DEF Params, Numbers, Timers
  <2>2. Only(s, ctrl, {"mhDefer", "failed"}) /\ ctrl.mhDefer = setup.SIFS /\ NodeTypes(ctrl)
    BY <1>s, <2>1, StartEffect, StartTypes
  <2> HIDE DEF ctrl
  <2>3. setup.SIFS # Off
    BY <2>1, IsTimerNat
  <2>4. Only(s, ctrl, F)
    BY <2>2 DEF Only, Taking, Backoff
  <2>5. Continues(s, ctrl) /\ Holding(ctrl)
    BY <1>s, <2>2 DEF Only, Continues, Holding
  <2>6. IsBool(s.paused)
    BY <1>s DEF NodeTypes
  <2>7. ASSUME s.pktCTRL # None \/ (s.pktTx # None /\ ~BackoffBusy(s))
        PROVE  Pauses(s, ctrl) /\ (ctrl.pktCTRL # None \/ ctrl.pktTx # None)
    BY <2>2, <2>3, <2>6, <2>7 DEF Only, Pauses, BackoffBusy, IsBool
  <2> QED BY <2>2, <2>4, <2>5, <2>7
<1>3. s.pktTx # None /\ ~BackoffBusy(s) => Step(Contend(s, r))
  <2> SUFFICES ASSUME s.pktTx # None, ~BackoffBusy(s) PROVE Step(Contend(s, r))
    OBVIOUS
  <2> DEFINE t == Contend(s, r)
  <2>1. NodeTypes(t) /\ Only(s, t, Backoff \cup {"mhDefer"}) /\ Waits(s, t)
    BY <1>s, ContendEffect
  <2> HIDE DEF t
  <2>2. Only(s, t, F)
    BY <2>1 DEF Only, Taking, Backoff
  <2>3. Continues(s, t) /\ Holding(t) /\ t.pktTx # None
    BY <1>s, <2>1 DEF Only, Continues, Holding, Backoff
  <2>4. Pauses(s, t)
    BY <2>1 DEF Pauses
  <2> QED BY <2>1, <2>2, <2>3, <2>4 DEF t
<1>4. s.pktTx = None /\ s.pktRTS = None /\ s.callback => Step(resume(s, r))
  <2> SUFFICES ASSUME s.pktTx = None, s.pktRTS = None, s.callback PROVE Step(resume(s, r))
    OBVIOUS
  <2> DEFINE t == resume(s, r)
  <2>1. /\ NodeTypes(t) /\ Only(s, t, Taking \cup Backoff \cup {"mhDefer", "ifq"})
        /\ Continues(s, t) /\ Holding(t) /\ Pauses(s, t)
        /\ t.mhDefer # s.mhDefer => t.pktTx # None
    BY <1>s, ResumeQueue
  <2> HIDE DEF t
  <2>2. t.mhDefer # Off => t.pktCTRL # None \/ t.pktTx # None
    BY <2>1 DEF Ready, Only, Taking, Backoff
  <2> QED BY <2>1, <2>2 DEF t
<1> HIDE DEF Step, ctrl
<1>5. Step(u)
  BY <1>1, <1>2, <1>3, <1>4 DEF Ready, Holding
<1> HIDE DEF u
<1>6. ~(u.paused /\ u.mhBackoff # Off)
  BY <1>5 DEF Step, Pauses, Waits, Ready, BackoffBusy
<1> DEFINE t == setTxState(u, "IDLE")
<1>7. /\ NodeTypes(t)
      /\ Only(u, t, {"tx_state", "mhBackoff", "paused", "left"})
      /\ t.tx_state = "IDLE"
      /\ is_idle(t) => t.paused = FALSE
      /\ t.mhBackoff # Off => is_idle(t) /\ t.paused = FALSE
      /\ BackoffBusy(t) <=> BackoffBusy(u)
  BY <1>5, <1>6, SetTxEffect DEF Step
<1>t. t = tx_resume(s, r)
  BY <1>0
<1> HIDE DEF t
<1>8. Only(s, t, Taking \cup Backoff \cup {"mhDefer", "ifq", "tx_state"})
  BY <1>5, <1>7 DEF Step, Only, Taking, Backoff
<1>9. Continues(s, t) /\ Holding(t)
  BY <1>5, <1>7 DEF Step, Only, Continues, Takes, Holding
<1>10. t.mhSend = Off
  BY <1>8 DEF Only, Ready, Taking, Backoff
<1>11. OnAir(t)
  BY <1>7, <1>10 DEF OnAir
<1>12. Contending(t)
  <2>1. t.mhDefer # Off => t.pktCTRL # None \/ t.pktTx # None
    BY <1>5, <1>7 DEF Step, Only
  <2>2. t.mhDefer # Off /\ t.pktCTRL = None => ~BackoffBusy(u)
    <3>1. t.mhDefer = u.mhDefer /\ t.pktCTRL = s.pktCTRL /\ u.pktCTRL = s.pktCTRL
      BY <1>5, <1>7 DEF Step, Only, Taking, Backoff
    <3>2. s.pktCTRL = None => s.mhDefer = Off
      BY DEF Ready
    <3>3. Pauses(s, u)
      BY <1>5 DEF Step
    <3> QED BY <3>1, <3>2, <3>3 DEF Pauses, Waits, BackoffBusy
  <2>3. t.mhBackoff # Off => t.tx_state = "IDLE" /\ t.rx_state = "IDLE" /\ t.paused = FALSE
    BY <1>7 DEF is_idle
  <2>4. t.paused => ~is_idle(t)
    BY <1>7
  <2> QED BY <1>7, <2>1, <2>2, <2>3, <2>4 DEF Contending
<1> QED BY <1>7, <1>8, <1>9, <1>10, <1>11, <1>12, <1>t DEF NodeInv

\* The fields that the transmission of a frame changes
-------------------------------------------------------------------------------
(* Transmitting *)

Transmission == {"tx_state", "tx_active", "out", "pktRx", "mhSend", "mhIF"}

\* What must be there before tx_state_ becomes v
MayTransmit(s, v) ==
  /\ v = "RTS" => s.pktRTS # None
  /\ v = "SEND" => s.pktTx # None /\ s.pktRTS = None
  /\ v \in {"CTS", "ACK"} => s.pktCTRL # None /\ s.pktCTRL.type = v
  /\ v \in {"RTS", "SEND"} => ~BackoffBusy(s)

\* A transmission keeps the invariant.
LEMMA TransmitInv ==
  ASSUME Params, NEW s, NodeInv(s), Receiving(s), s.tx_state = "IDLE", s.mhDefer = Off,
         NEW v \in {"RTS", "SEND", "CTS", "ACK"}, NEW p, GoodFrame(p), NEW k \in Nat,
         MayTransmit(s, v)
  PROVE  LET t == transmit(setTxState(s, v), p, k) IN
         /\ NodeInv(t) /\ Receiving(t) /\ RxKept(s, t)
         /\ Only(s, t, Backoff \cup Transmission)
         /\ t.tx_state = v /\ t.out = p
<1> DEFINE u == setTxState(s, v)
           t == transmit(u, p, k)
<1>1. NodeTypes(s) /\ Holding(s) /\ OnAir(s) /\ Contending(s)
  BY DEF NodeInv
<1>2. ~(s.paused /\ s.mhBackoff # Off)
  BY <1>1 DEF Contending
<1>v. v \in {"IDLE", "RTS", "CTS", "SEND", "ACK"}
  OBVIOUS
<1>3. /\ NodeTypes(u)
      /\ Only(s, u, {"tx_state", "mhBackoff", "paused", "left"})
      /\ u.tx_state = v
      /\ u.mhBackoff # Off => is_idle(u)
      /\ BackoffBusy(u) <=> BackoffBusy(s)
  BY <1>1, <1>2, <1>v, SetTxEffect
<1> HIDE DEF u
<1>4. u.pktRx = s.pktRx /\ RxThere(u)
  BY <1>3 DEF Receiving, Only, RxThere
<1>5. /\ NodeTypes(t)
      /\ Only(u, t, {"tx_active", "out", "pktRx", "mhSend", "mhIF", "failed"})
      /\ t.mhSend # Off /\ t.out = p /\ RxKept(u, t)
  BY <1>3, <1>4, TransmitEffect
<1> HIDE DEF t
<1>6. Only(s, t, Backoff \cup Transmission) /\ t.tx_state = v
  BY <1>3, <1>5 DEF Only, Backoff, Transmission
<1>7. RxKept(s, t)
  BY <1>4, <1>5 DEF RxKept
<1>8. Receiving(t)
  BY <1>6, <1>7 DEF Receiving, RxKept, Only, Backoff, Transmission
<1>9. Holding(t)
  BY <1>1, <1>6 DEF Holding, Only, Backoff, Transmission
<1>10. OnAir(t)
  BY <1>5, <1>6 DEF OnAir, Only, Backoff, Transmission, MayTransmit
<1>11. Contending(t)
  <2>1. t.mhBackoff = Off /\ t.mhDefer = Off
    <3>1. ~is_idle(u)
      BY <1>3 DEF is_idle
    <3> QED BY <1>3, <1>5, <3>1 DEF Only
  <2>2. BackoffBusy(t) <=> BackoffBusy(s)
    BY <1>3, <1>5 DEF Only, BackoffBusy
  <2> QED BY <1>6, <2>1, <2>2 DEF Contending, is_idle, MayTransmit
<1> QED BY <1>5, <1>6, <1>7, <1>8, <1>9, <1>10, <1>11 DEF t, u, NodeInv

\* check_pktCTRL() transmits a CTS or an ACK, or leaves it.
LEMMA CheckCTRL ==
  ASSUME Params, NEW s, NodeInv(s), Receiving(s), s.tx_state = "IDLE", s.mhDefer = Off,
         s.pktCTRL # None
  PROVE  LET t == check_pktCTRL(s) IN
         /\ NodeInv(t) /\ Receiving(t) /\ RxKept(s, t)
         /\ Only(s, t, Backoff \cup Transmission \cup {"pktCTRL"})
         /\ t.tx_state \notin {"RTS", "SEND"}
         /\ t.out = s.out \/ (t.out # None /\ t.out.type \in {"CTS", "ACK"})
<1>0. NodeTypes(s) /\ GoodFrame(s.pktCTRL) /\ s.pktCTRL.type \in {"CTS", "ACK"}
  BY DEF NodeInv, NodeTypes, IsCTRL
<1>1. CASE s.pktCTRL.type = "ACK"
  <2> DEFINE t == transmit(setTxState(s, "ACK"), s.pktCTRL, setup.ack)
  <2>1. check_pktCTRL(s) = t
    BY <1>1 DEF check_pktCTRL
  <2>2. setup.ack \in Nat
    BY DEF Params, Numbers
  <2>3. /\ NodeInv(t) /\ Receiving(t) /\ RxKept(s, t)
        /\ Only(s, t, Backoff \cup Transmission)
        /\ t.tx_state = "ACK" /\ t.out = s.pktCTRL
    <3>1. MayTransmit(s, "ACK")
      BY <1>1 DEF MayTransmit
    <3> QED BY <1>0, <2>2, <3>1, TransmitInv
  <2> HIDE DEF t
  <2>4. Only(s, t, Backoff \cup Transmission \cup {"pktCTRL"})
    BY <2>3 DEF Only, Backoff, Transmission
  <2> QED BY <1>1, <2>1, <2>3, <2>4
<1>2. CASE s.pktCTRL.type = "CTS" /\ is_idle(s)
  <2> DEFINE k == CtsTimeout(s.pktCTRL)
             t == transmit(setTxState(s, "CTS"), s.pktCTRL, k)
  <2>1. check_pktCTRL(s) = t
    BY <1>2 DEF check_pktCTRL
  <2>2. k \in Nat
    <3>1. /\ setup.ack \in Nat /\ setup.cts \in Nat /\ setup.SIFS \in Nat
          /\ setup.MaxPropagation \in Nat
      BY DEF Params, Numbers
    <3>2. s.pktCTRL.dur \in Nat
      BY <1>0 DEF GoodFrame, Frames
    <3>3. s.pktCTRL.dur >= 2 * setup.SIFS + setup.ack
      BY <1>0, <1>2 DEF GoodFrame, GoodDur
    <3> QED BY <3>1, <3>2, <3>3 DEF CtsTimeout
  <2>3. /\ NodeInv(t) /\ Receiving(t) /\ RxKept(s, t)
        /\ Only(s, t, Backoff \cup Transmission)
        /\ t.tx_state = "CTS" /\ t.out = s.pktCTRL
    <3>1. MayTransmit(s, "CTS") /\ "CTS" \in {"RTS", "SEND", "CTS", "ACK"}
      BY <1>2 DEF MayTransmit
    <3>2. GoodFrame(s.pktCTRL)
      BY <1>0
    <3> QED BY <2>2, <3>1, <3>2, TransmitInv
  <2> HIDE DEF t
  <2>4. Only(s, t, Backoff \cup Transmission \cup {"pktCTRL"})
    BY <2>3 DEF Only, Backoff, Transmission
  <2> QED BY <1>2, <2>1, <2>3, <2>4
<1>3. CASE s.pktCTRL.type = "CTS" /\ ~is_idle(s)
  <2> DEFINE t == [s EXCEPT !.pktCTRL = None]
  <2>1. check_pktCTRL(s) = t
    BY <1>3 DEF check_pktCTRL
  <2>2. Only(s, t, {"pktCTRL"}) /\ t.pktCTRL = None
    BY <1>0 DEF Only, NodeTypes, Fields
  <2> HIDE DEF t
  <2>3. NodeTypes(t)
    <3> QED BY <1>0, <2>2, NoneTypes DEF Only, NodeTypes
  <2>4. /\ Only(s, t, Backoff \cup Transmission \cup {"pktCTRL"})
        /\ t.out = s.out /\ t.tx_state = "IDLE"
    BY <2>2 DEF Only, Backoff, Transmission
  <2>5. GoodFrame(s.pktRx) => s.pktRx = [s.pktRx EXCEPT !.error = s.pktRx.error]
                                /\ s.pktRx.error \in BOOLEAN
    BY DEF GoodFrame, Frames
  <2>6. IsFrame(s.pktRx) /\ t.pktRx = s.pktRx
    BY <1>0, <2>2 DEF Only, NodeTypes
  <2>7. RxKept(s, t)
    BY <2>5, <2>6 DEF RxKept, IsFrame
  <2>8. Receiving(t) /\ Holding(t) /\ OnAir(t)
    BY <2>2 DEF Only, Receiving, NodeInv, Holding, OnAir
  <2>9. Contending(t)
    BY <2>2 DEF Only, NodeInv, Contending, is_idle, BackoffBusy
  <2> QED BY <2>1, <2>3, <2>4, <2>7, <2>8, <2>9 DEF NodeInv
<1> QED BY <1>0, <1>1, <1>2, <1>3

\* A packet that is untouched is kept.
LEMMA RxSame ==
  ASSUME NEW s, NodeTypes(s), NEW t, t.pktRx = s.pktRx
  PROVE  RxKept(s, t)
<1>1. GoodFrame(s.pktRx) => s.pktRx = [s.pktRx EXCEPT !.error = s.pktRx.error]
                            /\ s.pktRx.error \in BOOLEAN
  BY DEF GoodFrame, Frames
<1>2. IsFrame(s.pktRx)
  BY DEF NodeTypes
<1> QED BY <1>1, <1>2 DEF RxKept, IsFrame

\* What SendPending does: it transmits the RTS or the packet, or starts a backoff.
SendsPending(s, t) ==
  \/ /\ t.tx_state = "IDLE" /\ t.out = s.out
     /\ \/ t.pktRTS = s.pktRTS
        \/ s.pktRTS = None /\ s.pktTx # None /\ UsesRTS(s.pktTx) /\ t.pktRTS # None
  \/ /\ t.tx_state = "RTS" /\ s.pktRTS # None /\ t.pktRTS = s.pktRTS
     /\ t.out = s.pktRTS
  \/ /\ t.tx_state = "SEND" /\ s.pktRTS = None /\ t.pktRTS = None
     /\ s.pktTx # None /\ t.out = s.pktTx

Attempt == Backoff \cup Transmission \cup {"cw", "pktRTS"}

\* A node that finds the medium busy backs off with a larger window.
LEMMA BackOffAgain ==
  ASSUME Params, NEW s, NodeInv(s), Receiving(s), s.tx_state = "IDLE", s.mhDefer = Off,
         ~BackoffBusy(s), ~is_idle(s), NEW u, NodeTypes(u), Only(s, u, {"pktRTS"}),
         s.pktTx # None, NEW r \in Nat
  PROVE  LET t == StartBackoff(inc_cw(u), r, 0) IN
         /\ NodeInv(t) /\ Receiving(t) /\ RxKept(s, t)
         /\ Only(s, t, Backoff \cup {"cw", "pktRTS"}) /\ t.pktRTS = u.pktRTS
<1> DEFINE v == inc_cw(u)
           t == StartBackoff(v, r, 0)
<1>1. NodeTypes(v) /\ Only(u, v, {"cw"})
  BY CwEffect
<1> HIDE DEF v
<1>2. Only(s, v, {"cw", "pktRTS"}) /\ v.pktRTS = u.pktRTS
  BY <1>1 DEF Only
<1>3. ~is_idle(v)
  BY <1>2 DEF Only, is_idle
<1>4. NodeTypes(t) /\ Only(v, t, Backoff) /\ t.paused = TRUE /\ t.mhBackoff = v.mhBackoff
  BY <1>1, <1>3, StartBackoffEffect DEF Backoff
<1> HIDE DEF t
<1>5. Only(s, t, Backoff \cup {"cw", "pktRTS"}) /\ t.pktRTS = u.pktRTS
  BY <1>2, <1>4 DEF Only, Backoff
<1>6. RxKept(s, t)
  <2>1. NodeTypes(s) /\ t.pktRx = s.pktRx
    BY <1>5 DEF NodeInv, Only, Backoff
  <2> QED BY <2>1, RxSame
<1>7. Receiving(t)
  BY <1>5 DEF Receiving, Only, Backoff
<1>8. Holding(t) /\ OnAir(t)
  BY <1>5 DEF NodeInv, Holding, OnAir, Only, Backoff
<1>9. t.mhBackoff = Off /\ t.mhDefer = Off /\ t.tx_state = "IDLE" /\ ~is_idle(t)
  BY <1>2, <1>4, <1>5 DEF Only, Backoff, BackoffBusy, is_idle
<1>10. Contending(t)
  BY <1>9 DEF Contending
<1> QED BY <1>4, <1>5, <1>6, <1>7, <1>8, <1>10 DEF NodeInv, t, v

\* check_pktRTS() and check_pktTx() keep the invariant.
LEMMA SendPendingInv ==
  ASSUME Params, NEW s, NodeInv(s), Receiving(s), s.tx_state = "IDLE", s.mhDefer = Off,
         ~BackoffBusy(s), NEW r \in Nat
  PROVE  LET t == SendPending(s, r) IN
         /\ NodeInv(t) /\ Receiving(t) /\ RxKept(s, t)
         /\ Only(s, t, Attempt) /\ SendsPending(s, t)
<1>0. NodeTypes(s) /\ Holding(s) /\ DOMAIN s = Fields
  BY DEF NodeInv, NodeTypes
<1>p. /\ setup.rts \in Nat /\ setup.MaxPropagation \in Nat /\ setup.SIFS \in Nat
      /\ setup.cts \in Nat /\ setup.ack \in Nat
  BY DEF Params, Numbers
<1>1. CASE s.pktRTS # None /\ is_idle(s)
  <2> DEFINE t == transmit(setTxState(s, "RTS"), s.pktRTS, RtsTimeout)
  <2>1. SendPending(s, r) = t
    BY <1>1 DEF SendPending, check_pktRTS
  <2>2. RtsTimeout \in Nat
    BY <1>p DEF RtsTimeout
  <2>3. GoodFrame(s.pktRTS)
    BY <1>0, <1>1 DEF NodeTypes, IsRTS
  <2>4. MayTransmit(s, "RTS") /\ "RTS" \in {"RTS", "SEND", "CTS", "ACK"}
    BY <1>1 DEF MayTransmit
  <2>5. /\ NodeInv(t) /\ Receiving(t) /\ RxKept(s, t)
        /\ Only(s, t, Backoff \cup Transmission)
        /\ t.tx_state = "RTS" /\ t.out = s.pktRTS
    <3>1. ASSUME NEW k \in Nat
          PROVE  LET x == transmit(setTxState(s, "RTS"), s.pktRTS, k) IN
                 /\ NodeInv(x) /\ Receiving(x) /\ RxKept(s, x)
                 /\ Only(s, x, Backoff \cup Transmission)
                 /\ x.tx_state = "RTS" /\ x.out = s.pktRTS
      BY <2>3, <2>4, TransmitInv
    <3> QED BY <2>2, <3>1
  <2> HIDE DEF t
  <2>6. Only(s, t, Attempt)
    BY <2>5 DEF Only, Attempt, Backoff, Transmission
  <2>7. SendsPending(s, t)
    BY <1>1, <2>5 DEF Only, SendsPending, Backoff, Transmission
  <2> QED BY <2>1, <2>5, <2>6, <2>7
<1>2. CASE s.pktRTS # None /\ ~is_idle(s)
  <2> DEFINE t == StartBackoff(inc_cw(s), r, 0)
  <2>1. SendPending(s, r) = t
    BY <1>2 DEF SendPending, check_pktRTS
  <2>2. Only(s, s, {"pktRTS"}) /\ s.pktTx # None
    BY <1>0, <1>2 DEF Only, Holding
  <2>3. /\ NodeInv(t) /\ Receiving(t) /\ RxKept(s, t)
        /\ Only(s, t, Backoff \cup {"cw", "pktRTS"}) /\ t.pktRTS = s.pktRTS
    BY <1>0, <1>2, <2>2, BackOffAgain
  <2> HIDE DEF t
  <2>4. Only(s, t, Attempt)
    BY <2>3 DEF Only, Attempt, Backoff, Transmission
  <2>5. SendsPending(s, t)
    BY <2>3 DEF Only, SendsPending, Backoff
  <2> QED BY <2>1, <2>3, <2>4, <2>5
<1>3. CASE s.pktRTS = None /\ s.pktTx # None /\ is_idle(s)
  <2> DEFINE t == transmit(setTxState(s, "SEND"), s.pktTx, DataTimeout(s.pktTx))
  <2>1. SendPending(s, r) = t
    BY <1>3 DEF SendPending, check_pktTx
  <2>2. GoodFrame(s.pktTx)
    BY <1>0, <1>3 DEF NodeTypes, IsTx, GoodData
  <2>3. DataTimeout(s.pktTx) \in Nat
    <3>1. s.pktTx.time \in Nat
      BY <2>2 DEF GoodFrame, Frames
    <3> QED BY <1>p, <3>1 DEF DataTimeout
  <2>4. MayTransmit(s, "SEND") /\ "SEND" \in {"RTS", "SEND", "CTS", "ACK"}
    BY <1>3 DEF MayTransmit
  <2>5. /\ NodeInv(t) /\ Receiving(t) /\ RxKept(s, t)
        /\ Only(s, t, Backoff \cup Transmission)
        /\ t.tx_state = "SEND" /\ t.out = s.pktTx
    <3>1. ASSUME NEW k \in Nat
          PROVE  LET x == transmit(setTxState(s, "SEND"), s.pktTx, k) IN
                 /\ NodeInv(x) /\ Receiving(x) /\ RxKept(s, x)
                 /\ Only(s, x, Backoff \cup Transmission)
                 /\ x.tx_state = "SEND" /\ x.out = s.pktTx
      BY <2>2, <2>4, TransmitInv, SMTT(30)
    <3> QED BY <2>3, <3>1
  <2> HIDE DEF t
  <2>6. Only(s, t, Attempt)
    BY <2>5 DEF Only, Attempt, Backoff, Transmission
  <2>7. SendsPending(s, t)
    BY <1>3, <2>5 DEF Only, SendsPending, Backoff, Transmission
  <2> QED BY <2>1, <2>5, <2>6, <2>7
<1>4. CASE s.pktRTS = None /\ s.pktTx # None /\ ~is_idle(s)
  <2> DEFINE u == sendRTS(s)
             t == StartBackoff(inc_cw(u), r, 0)
  <2>1. SendPending(s, r) = t
    BY <1>4 DEF SendPending, check_pktTx
  <2>2. /\ NodeTypes(u) /\ Only(s, u, {"pktRTS"})
        /\ UsesRTS(s.pktTx) => u.pktRTS # None
        /\ ~UsesRTS(s.pktTx) => u.pktRTS = s.pktRTS
    BY <1>0, <1>4, RTSEffect
  <2> HIDE DEF u
  <2>3. /\ NodeInv(t) /\ Receiving(t) /\ RxKept(s, t)
        /\ Only(s, t, Backoff \cup {"cw", "pktRTS"}) /\ t.pktRTS = u.pktRTS
    BY <1>4, <2>2, BackOffAgain
  <2> HIDE DEF t
  <2>4. Only(s, t, Attempt)
    BY <2>3 DEF Only, Attempt, Backoff, Transmission
  <2>5. SendsPending(s, t)
    BY <1>4, <2>2, <2>3 DEF Only, SendsPending, Backoff
  <2> QED BY <2>1, <2>3, <2>4, <2>5
<1>5. CASE s.pktRTS = None /\ s.pktTx = None
  <2>1. SendPending(s, r) = s
    BY <1>5 DEF SendPending
  <2>2. Only(s, s, Attempt) /\ SendsPending(s, s)
    BY <1>0 DEF Only, SendsPending
  <2>3. RxKept(s, s)
    BY <1>0, RxSame
  <2> QED BY <2>1, <2>2, <2>3
<1> QED BY <1>1, <1>2, <1>3, <1>4, <1>5

\* A timer other than mhSend and mhRecv expires.
LEMMA OffInv ==
  ASSUME NEW s, NodeInv(s), Receiving(s),
         NEW timer \in {"mhIF", "mhDefer", "mhBackoff"}
  PROVE  LET t == [s EXCEPT ![timer] = Off] IN
         NodeInv(t) /\ Receiving(t) /\ Only(s, t, {timer}) /\ t[timer] = Off
<1> DEFINE t == [s EXCEPT ![timer] = Off]
<1>1. Only(s, t, {timer}) /\ t[timer] = Off
  BY DEF Only, NodeInv, NodeTypes, Fields
<1>2. IsTimer(Off)
  BY DEF IsTimer
<1> HIDE DEF t
<1>3. NodeTypes(t)
  BY <1>1, <1>2 DEF NodeInv, NodeTypes, Only
<1>4. Receiving(t) /\ Holding(t) /\ OnAir(t)
  BY <1>1 DEF NodeInv, Only, Receiving, Holding, OnAir
<1>5. Contending(t)
  BY <1>1 DEF NodeInv, Only, Contending, is_idle, BackoffBusy
<1> QED BY <1>1, <1>3, <1>4, <1>5 DEF t, NodeInv

\* backoffHandler() keeps the invariant.
LEMMA BackoffHandlerInv ==
  ASSUME Params, NEW s, NodeInv(s), Receiving(s), s.mhBackoff # Off, NEW r \in Nat
  PROVE  LET u == [s EXCEPT !["mhBackoff"] = Off]
             t == backoffHandler(u, r) IN
         /\ NodeInv(t) /\ Receiving(t) /\ RxKept(s, t)
         /\ Only(s, t, Attempt) /\ SendsPending(s, t)
<1> DEFINE u == [s EXCEPT !["mhBackoff"] = Off]
           t == backoffHandler(u, r)
<1>1. NodeInv(u) /\ Receiving(u) /\ Only(s, u, {"mhBackoff"}) /\ u.mhBackoff = Off
  BY OffInv
<1>2. u.tx_state = "IDLE" /\ ~BackoffBusy(u) /\ (u.pktCTRL = None => u.mhDefer = Off)
  BY <1>1 DEF NodeInv, Contending, BackoffBusy, Only
<1> HIDE DEF u
<1>3. CASE u.pktCTRL # None
  <2>1. t = u
    BY <1>3 DEF backoffHandler
  <2>2. Only(s, u, Attempt)
    BY <1>1 DEF Only, Attempt, Backoff
  <2>3. SendsPending(s, u)
    BY <1>1, <1>2 DEF Only, SendsPending
  <2>4. RxKept(s, u)
    BY <1>1, RxSame DEF Only, NodeInv
  <2> QED BY <1>1, <2>1, <2>2, <2>3, <2>4 DEF u
<1>4. CASE u.pktCTRL = None
  <2>1. t = SendPending(u, r)
    BY <1>4 DEF backoffHandler
  <2>2. /\ NodeInv(t) /\ Receiving(t) /\ RxKept(u, t)
        /\ Only(u, t, Attempt) /\ SendsPending(u, t)
    BY <1>1, <1>2, <1>4, <2>1, SendPendingInv
  <2> HIDE DEF t
  <2>3. Only(s, t, Attempt)
    BY <1>1, <2>2 DEF Only, Attempt, Backoff
  <2>4. RxKept(s, t) /\ SendsPending(s, t)
    BY <1>1, <2>2 DEF Only, RxKept, SendsPending
  <2> QED BY <2>2, <2>3, <2>4 DEF t, u
<1> QED BY <1>3, <1>4

\* deferHandler() keeps the invariant.
LEMMA DeferHandlerInv ==
  ASSUME Params, NEW s, NodeInv(s), Receiving(s), s.mhDefer # Off, NEW r \in Nat
  PROVE  LET u == [s EXCEPT !["mhDefer"] = Off]
             t == deferHandler(u, r) IN
         /\ NodeInv(t) /\ Receiving(t) /\ RxKept(s, t)
         /\ Only(s, t, Attempt \cup {"mhDefer", "pktCTRL"})
         /\ \/ SendsPending(s, t)
            \/ /\ t.pktRTS = s.pktRTS /\ t.tx_state \notin {"RTS", "SEND"}
               /\ t.out = s.out \/ (t.out # None /\ t.out.type \in {"CTS", "ACK"})
<1> DEFINE u == [s EXCEPT !["mhDefer"] = Off]
           t == deferHandler(u, r)
<1>1. NodeInv(u) /\ Receiving(u) /\ Only(s, u, {"mhDefer"}) /\ u.mhDefer = Off
  BY OffInv
<1>2. u.tx_state = "IDLE" /\ (u.pktCTRL = None => ~BackoffBusy(u))
  BY <1>1 DEF NodeInv, Contending, BackoffBusy, Only
<1> HIDE DEF u
<1>3. CASE u.pktCTRL # None
  <2>1. t = check_pktCTRL(u)
    BY <1>2, <1>3 DEF deferHandler, CtrlReady
  <2>2. /\ NodeInv(t) /\ Receiving(t) /\ RxKept(u, t)
        /\ Only(u, t, Backoff \cup Transmission \cup {"pktCTRL"})
        /\ t.tx_state \notin {"RTS", "SEND"}
        /\ t.out = u.out \/ (t.out # None /\ t.out.type \in {"CTS", "ACK"})
    BY <1>1, <1>2, <1>3, <2>1, CheckCTRL
  <2> HIDE DEF t
  <2>3. Only(s, t, Attempt \cup {"mhDefer", "pktCTRL"}) /\ t.pktRTS = s.pktRTS
    BY <1>1, <2>2 DEF Only, Attempt, Backoff, Transmission
  <2>4. RxKept(s, t) /\ u.out = s.out
    BY <1>1, <2>2 DEF Only, RxKept
  <2> QED BY <2>2, <2>3, <2>4 DEF t, u
<1>4. CASE u.pktCTRL = None
  <2>1. t = SendPending(u, r)
    BY <1>4 DEF deferHandler, CtrlReady
  <2>2. /\ NodeInv(t) /\ Receiving(t) /\ RxKept(u, t)
        /\ Only(u, t, Attempt) /\ SendsPending(u, t)
    BY <1>1, <1>2, <1>4, <2>1, SendPendingInv
  <2> HIDE DEF t
  <2>3. Only(s, t, Attempt \cup {"mhDefer", "pktCTRL"})
    BY <1>1, <2>2 DEF Only, Attempt, Backoff, Transmission
  <2>4. RxKept(s, t) /\ SendsPending(s, t)
    BY <1>1, <2>2 DEF Only, RxKept, SendsPending
  <2> QED BY <2>2, <2>3, <2>4 DEF t, u
<1> QED BY <1>3, <1>4

\* A node that transmitted, when its wait for an answer is over
-------------------------------------------------------------------------------
(* The end of a transmission *)

\* A node whose mhSend_ has expired or been stopped and whose tx_state_ is not
\* yet reset
Ended(s) ==
  /\ NodeTypes(s) /\ Holding(s) /\ Contending(s)
  /\ s.mhSend = Off /\ s.tx_state # "IDLE"
  /\ s.tx_state = "RTS" => s.pktRTS # None
  /\ s.tx_state = "SEND" => s.pktTx # None /\ s.pktRTS = None

\* mhSend_ expires.
LEMMA EndedOff ==
  ASSUME NEW s, NodeInv(s), s.tx_state # "IDLE"
  PROVE  LET t == [s EXCEPT !["mhSend"] = Off] IN Ended(t) /\ Only(s, t, {"mhSend"})
<1> DEFINE t == [s EXCEPT !["mhSend"] = Off]
<1>1. Only(s, t, {"mhSend"}) /\ t.mhSend = Off
  BY DEF Only, NodeInv, NodeTypes, Fields
<1>2. IsTimer(Off)
  BY DEF IsTimer
<1> HIDE DEF t
<1>3. NodeTypes(t)
  BY <1>1, <1>2 DEF NodeInv, NodeTypes, Only
<1>4. Holding(t)
  BY <1>1 DEF NodeInv, Only, Holding
<1>5. Contending(t)
  BY <1>1 DEF NodeInv, Only, Contending, is_idle, BackoffBusy
<1>6. Ended(t)
  BY <1>1, <1>3, <1>4, <1>5 DEF Ended, NodeInv, OnAir, Only
<1> QED BY <1>1, <1>6 DEF t

\* The packet stays.
Keeps(s, t) == t.pktTx = s.pktTx /\ t.over = s.over

\* The packet is done with.
Done(s, t, why) ==
  /\ t.pktTx = None /\ t.pktRTS = None
  /\ t.over = [id |-> s.pktTx.id, fate |-> why]

\* The retry count of the packet becomes k.
Counted(s, t, k) ==
  IF s.pktTx.size <= setup.RTSThreshold THEN t.ssrc = k /\ t.slrc = s.slrc
  ELSE t.slrc = k /\ t.ssrc = s.ssrc

CountOf(s) == IF s.pktTx.size <= setup.RTSThreshold THEN s.ssrc ELSE s.slrc

SameCounts(s, t) == t.ssrc = s.ssrc /\ t.slrc = s.slrc

\* What the end of a transmission does to the packet and the counts
Ends(s, t) ==
  \/ /\ s.tx_state = "RTS" /\ s.ssrc + 1 >= setup.ShortRetryLimit
     /\ Done(s, t, "NO_CTS") /\ t.ssrc = 0 /\ t.slrc = s.slrc
  \/ /\ s.tx_state = "RTS" /\ s.ssrc + 1 < setup.ShortRetryLimit
     /\ Keeps(s, t) /\ t.pktRTS = s.pktRTS /\ t.ssrc = s.ssrc + 1 /\ t.slrc = s.slrc
  \/ /\ s.tx_state = "RTS"
     /\ Keeps(s, t) /\ t.pktRTS = None /\ t.ssrc = 0 /\ t.slrc = s.slrc
  \/ /\ s.tx_state = "SEND" /\ s.pktTx.ra = MAC_BROADCAST
     /\ Done(s, t, "SENT") /\ SameCounts(s, t)
  \/ /\ s.tx_state = "SEND" /\ s.pktTx.ra # MAC_BROADCAST
     /\ CountOf(s) + 1 >= Limit(s.pktTx)
     /\ Done(s, t, "NO_ACK") /\ Counted(s, t, 0)
  \/ /\ s.tx_state = "SEND" /\ s.pktTx.ra # MAC_BROADCAST
     /\ CountOf(s) + 1 < Limit(s.pktTx)
     /\ Keeps(s, t) /\ Counted(s, t, CountOf(s) + 1)
     /\ t.pktRTS # None <=> UsesRTS(s.pktTx)
  \/ s.tx_state = "SEND" /\ Done(s, t, "ACKED") /\ Counted(s, t, 0)
  \/ /\ s.tx_state \notin {"RTS", "SEND"}
     /\ Keeps(s, t) /\ t.pktRTS = s.pktRTS /\ SameCounts(s, t)

Ending == Backoff \cup {"cw", "pktTx", "pktRTS", "ssrc", "slrc", "over"}

\* Nothing but the packet, the counts and the backoff has changed.
LEMMA EndedReady ==
  ASSUME NEW s, Ended(s), NEW t, NodeTypes(t), Only(s, t, Ending \cup {"pktCTRL"}),
         ~(t.paused /\ t.mhBackoff # Off), t.pktRTS # None => t.pktTx # None,
         t.pktTx = s.pktTx \/ t.pktTx = None
  PROVE  Ready(t)
<1>1. s.mhDefer = Off
  BY DEF Ended, Contending
<1>2. t.mhDefer = s.mhDefer /\ t.mhSend = Off
  BY DEF Only, Ending, Backoff, Ended
<1>3. Holding(t)
  BY DEF Only, Ending, Backoff, Ended, Holding
<1> QED BY <1>1, <1>2, <1>3 DEF Ready

\* The fates of a packet are well typed.
LEMMA OverTypes ==
  ASSUME NEW p, GoodFrame(p), NEW why \in {"ACKED", "NO_ACK", "NO_CTS", "SENT"}
  PROVE  IsOver([id |-> p.id, fate |-> why])
  BY DEF GoodFrame, Frames, IsOver, Overs

\* Giving a packet up frees it and resets the window.
LEMMA GiveUpEffect ==
  ASSUME Params, NEW s, NodeTypes(s), s.pktTx # None,
         NEW why \in {"ACKED", "NO_ACK", "NO_CTS", "SENT"}
  PROVE  LET t == GiveUp(s, why) IN
         /\ NodeTypes(t) /\ Only(s, t, {"pktTx", "over", "cw"})
         /\ t.pktTx = None /\ t.over = [id |-> s.pktTx.id, fate |-> why]
<1> DEFINE o == [id |-> s.pktTx.id, fate |-> why]
           u == [s EXCEPT !.pktTx = None, !.over = o]
           t == rst_cw(u)
<1>1. GoodFrame(s.pktTx)
  BY DEF NodeTypes, IsTx, GoodData
<1>2. IsOver(o)
  BY <1>1, OverTypes
<1>3. GiveUp(s, why) = t
  BY DEF GiveUp
<1>o. o = [id |-> s.pktTx.id, fate |-> why]
  OBVIOUS
<1> HIDE DEF o
<1>4. Only(s, u, {"pktTx", "over"}) /\ u.pktTx = None /\ u.over = o
  BY DEF Only, NodeTypes, Fields
<1> HIDE DEF u
<1>5. IsTx(u.pktTx, s.index)
  BY <1>4, NoneTypes
<1>6. NodeTypes(u)
  BY <1>2, <1>4, <1>5 DEF NodeTypes, Only
<1>7. NodeTypes(t) /\ Only(u, t, {"cw"})
  BY <1>6, CwEffect
<1> HIDE DEF t
<1>8. Only(s, t, {"pktTx", "over", "cw"}) /\ t.pktTx = None /\ t.over = o
  BY <1>4, <1>7 DEF Only
<1> QED BY <1>3, <1>7, <1>8, <1>o

\* RetransmitRTS() counts in ssrc_ and gives up at the limit.
LEMMA RetransmitRTSEffect ==
  ASSUME Params, NEW s, Ended(s), s.tx_state = "RTS", NEW r \in Nat
  PROVE  LET t == RetransmitRTS(s, r) IN
         Ready(t) /\ Only(s, t, Ending) /\ Ends(s, t)
<1>0. NodeTypes(s) /\ s.pktTx # None /\ s.pktRTS # None /\ ~BackoffBusy(s)
  BY DEF Ended, Holding, Contending
<1>1. CASE s.ssrc + 1 >= setup.ShortRetryLimit
  <2> DEFINE u == [s EXCEPT !.pktRTS = None, !.ssrc = 0]
             t == GiveUp(u, "NO_CTS")
  <2>1. RetransmitRTS(s, r) = t
    BY <1>1 DEF RetransmitRTS
  <2>2. Only(s, u, {"pktRTS", "ssrc"}) /\ u.pktRTS = None /\ u.ssrc = 0
    BY <1>0 DEF Only, NodeTypes, Fields
  <2> HIDE DEF u
  <2>3. IsRTS(u.pktRTS)
    BY <2>2, NoneTypes
  <2>4. NodeTypes(u) /\ u.pktTx # None /\ u.pktTx = s.pktTx
    BY <1>0, <2>2, <2>3 DEF Only, NodeTypes
  <2>5. /\ NodeTypes(t) /\ Only(u, t, {"pktTx", "over", "cw"})
        /\ t.pktTx = None /\ t.over = [id |-> u.pktTx.id, fate |-> "NO_CTS"]
    BY <2>4, GiveUpEffect
  <2> HIDE DEF t
  <2>6. Only(s, t, Ending) /\ t.pktRTS = None
    BY <2>2, <2>5 DEF Only, Ending, Backoff
  <2>7. Done(s, t, "NO_CTS") /\ t.ssrc = 0 /\ t.slrc = s.slrc
    BY <2>2, <2>4, <2>5 DEF Only, Done
  <2>8. ~(t.paused /\ t.mhBackoff # Off) /\ Only(s, t, Ending \cup {"pktCTRL"})
    BY <1>0, <2>2, <2>5 DEF Only, BackoffBusy, Ending, Backoff
  <2>9. Ready(t)
    BY <2>5, <2>6, <2>8, EndedReady
  <2> QED BY <1>1, <2>1, <2>6, <2>7, <2>9 DEF Ends
<1>2. CASE ~(s.ssrc + 1 >= setup.ShortRetryLimit)
  <2> DEFINE k == s.ssrc + 1
             u == [s EXCEPT !.ssrc = k]
             v == inc_cw(u)
             t == StartBackoff(v, r, 0)
  <2>1. RetransmitRTS(s, r) = t
    BY <1>2 DEF RetransmitRTS
  <2>n. s.ssrc \in Nat /\ setup.ShortRetryLimit \in Nat
    BY <1>0 DEF NodeTypes, Params, Numbers
  <2>k. k \in Nat /\ s.ssrc + 1 < setup.ShortRetryLimit /\ k = s.ssrc + 1
    BY <1>2, <2>n
  <2> HIDE DEF k
  <2>2. Only(s, u, {"ssrc"}) /\ u.ssrc = k
    BY <1>0 DEF Only, NodeTypes, Fields
  <2> HIDE DEF u
  <2>4. NodeTypes(u)
    BY <1>0, <2>2, <2>k DEF Only, NodeTypes
  <2>5. NodeTypes(v) /\ Only(u, v, {"cw"})
    BY <2>4, CwEffect
  <2> HIDE DEF v
  <2>6. v.mhBackoff = Off /\ ~is_idle(v)
    BY <1>0, <2>2, <2>5 DEF Only, is_idle, BackoffBusy
  <2>7. NodeTypes(t) /\ Only(v, t, Backoff) /\ t.paused = TRUE /\ t.mhBackoff = v.mhBackoff
    BY <2>5, <2>6, StartBackoffEffect DEF Backoff
  <2> HIDE DEF t
  <2>8. Only(s, t, Ending) /\ Only(s, t, Ending \cup {"pktCTRL"})
    BY <2>2, <2>5, <2>7 DEF Only, Ending, Backoff
  <2>9. Keeps(s, t) /\ t.pktRTS = s.pktRTS /\ t.ssrc = k /\ t.slrc = s.slrc
    BY <2>2, <2>5, <2>7 DEF Only, Keeps, Backoff
  <2>10. Ready(t)
    BY <1>0, <2>6, <2>7, <2>8, <2>9, EndedReady DEF Keeps
  <2>11. Ends(s, t)
    BY <2>9, <2>k DEF Ends
  <2> QED BY <2>1, <2>8, <2>10, <2>11
<1> QED BY <1>1, <1>2

\* RetransmitDATA() counts in ssrc_ or slrc_ by the size of the packet.
LEMMA CountEffect ==
  ASSUME NEW s, NodeTypes(s), NEW k \in Nat
  PROVE  LET t == [s EXCEPT ![Count(s.pktTx)] = k] IN
         /\ NodeTypes(t) /\ Only(s, t, {"ssrc", "slrc"}) /\ Counted(s, t, k)
         /\ s[Count(s.pktTx)] = CountOf(s) /\ CountOf(s) \in Nat
<1> DEFINE c == Count(s.pktTx)
           t == [s EXCEPT ![c] = k]
<1>1. c \in {"ssrc", "slrc"} /\ (c = "ssrc" <=> s.pktTx.size <= setup.RTSThreshold)
  BY DEF Count
<1>2. s[c] = CountOf(s) /\ CountOf(s) \in Nat
  BY <1>1 DEF CountOf, NodeTypes
<1> HIDE DEF c
<1>3. Only(s, t, {"ssrc", "slrc"}) /\ Counted(s, t, k) /\ t.ssrc \in Nat /\ t.slrc \in Nat
  <2>1. CASE c = "ssrc"
    BY <1>1, <2>1 DEF Only, Counted, NodeTypes, Fields
  <2>2. CASE c = "slrc"
    BY <1>1, <2>2 DEF Only, Counted, NodeTypes, Fields
  <2> QED BY <1>1, <2>1, <2>2
<1> HIDE DEF t
<1>4. NodeTypes(t)
  BY <1>3 DEF Only, NodeTypes
<1> QED BY <1>2, <1>3, <1>4 DEF t, c

\* RetransmitDATA() counts and gives up at the limit of that count.
LEMMA RetransmitDATAEffect ==
  ASSUME Params, NEW s, Ended(s), s.tx_state = "SEND", NEW r \in Nat
  PROVE  LET t == RetransmitDATA(s, r) IN
         Ready(t) /\ Only(s, t, Ending) /\ Ends(s, t)
<1>0. NodeTypes(s) /\ s.pktTx # None /\ s.pktRTS = None /\ ~BackoffBusy(s)
  BY DEF Ended, Contending
<1>n. CountOf(s) \in Nat /\ s[Count(s.pktTx)] = CountOf(s) /\ Limit(s.pktTx) \in Nat
  BY <1>0, CountEffect DEF Limit, Params, Numbers
<1>1. CASE s.pktTx.ra = MAC_BROADCAST
  <2> DEFINE v == GiveUp(s, "SENT")
             t == StartBackoff(v, r, 0)
  <2>1. RetransmitDATA(s, r) = t
    BY <1>1 DEF RetransmitDATA, GiveUp
  <2>2. /\ NodeTypes(v) /\ Only(s, v, {"pktTx", "over", "cw"})
        /\ v.pktTx = None /\ v.over = [id |-> s.pktTx.id, fate |-> "SENT"]
    BY <1>0, GiveUpEffect
  <2> HIDE DEF v
  <2>3. v.mhBackoff = Off /\ ~is_idle(v)
    BY <1>0, <2>2 DEF Only, is_idle, BackoffBusy
  <2>4. NodeTypes(t) /\ Only(v, t, Backoff) /\ t.paused = TRUE /\ t.mhBackoff = v.mhBackoff
    BY <2>2, <2>3, StartBackoffEffect DEF Backoff
  <2> HIDE DEF t
  <2>5. Only(s, t, Ending) /\ Only(s, t, Ending \cup {"pktCTRL"})
    BY <2>2, <2>4 DEF Only, Ending, Backoff
  <2>6. Done(s, t, "SENT") /\ SameCounts(s, t)
    BY <1>0, <2>2, <2>4 DEF Only, Done, SameCounts, Backoff
  <2>7. Ready(t)
    BY <2>3, <2>4, <2>5, <2>6, EndedReady DEF Done
  <2>8. Ends(s, t)
    BY <1>1, <2>6 DEF Ends
  <2> QED BY <2>1, <2>5, <2>7, <2>8
<1>2. CASE s.pktTx.ra # MAC_BROADCAST /\ CountOf(s) + 1 >= Limit(s.pktTx)
  <2> DEFINE u == [s EXCEPT ![Count(s.pktTx)] = 0]
             t == GiveUp(u, "NO_ACK")
  <2>1. RetransmitDATA(s, r) = t
    BY <1>2, <1>n DEF RetransmitDATA
  <2>2. NodeTypes(u) /\ Only(s, u, {"ssrc", "slrc"}) /\ Counted(s, u, 0)
    BY <1>0, CountEffect
  <2> HIDE DEF u
  <2>3. u.pktTx = s.pktTx /\ u.pktTx # None
    BY <1>0, <2>2 DEF Only
  <2>4. /\ NodeTypes(t) /\ Only(u, t, {"pktTx", "over", "cw"})
        /\ t.pktTx = None /\ t.over = [id |-> u.pktTx.id, fate |-> "NO_ACK"]
    BY <2>2, <2>3, GiveUpEffect
  <2> HIDE DEF t
  <2>5. Only(s, t, Ending) /\ Only(s, t, Ending \cup {"pktCTRL"})
    BY <2>2, <2>4 DEF Only, Ending, Backoff
  <2>6. Done(s, t, "NO_ACK")
    BY <1>0, <2>2, <2>3, <2>4 DEF Only, Done
  <2>7. Counted(s, t, 0)
    BY <2>2, <2>4 DEF Only, Counted
  <2>8. ~(t.paused /\ t.mhBackoff # Off)
    BY <1>0, <2>2, <2>4 DEF Only, BackoffBusy
  <2>9. Ready(t)
    BY <2>4, <2>5, <2>6, <2>8, EndedReady DEF Done
  <2>10. Ends(s, t)
    BY <1>2, <2>6, <2>7 DEF Ends, Ended
  <2> QED BY <2>1, <2>5, <2>9, <2>10
<1>3. CASE s.pktTx.ra # MAC_BROADCAST /\ ~(CountOf(s) + 1 >= Limit(s.pktTx))
  <2> DEFINE k == CountOf(s) + 1
             u == [s EXCEPT ![Count(s.pktTx)] = k]
             w == sendRTS(u)
             v == inc_cw(w)
             t == StartBackoff(v, r, 0)
  <2>1. RetransmitDATA(s, r) = t
    BY <1>3, <1>n DEF RetransmitDATA
  <2>k. k \in Nat /\ CountOf(s) + 1 < Limit(s.pktTx) /\ k = CountOf(s) + 1
    BY <1>3, <1>n
  <2> HIDE DEF k
  <2>2. NodeTypes(u) /\ Only(s, u, {"ssrc", "slrc"}) /\ Counted(s, u, k)
    BY <1>0, <2>k, CountEffect
  <2> HIDE DEF u
  <2>3. u.pktTx = s.pktTx /\ u.pktTx # None
    BY <1>0, <2>2 DEF Only
  <2>4. /\ NodeTypes(w) /\ Only(u, w, {"pktRTS"})
        /\ UsesRTS(u.pktTx) => w.pktRTS # None
        /\ ~UsesRTS(u.pktTx) => w.pktRTS = u.pktRTS
    BY <2>2, <2>3, RTSEffect
  <2> HIDE DEF w
  <2>5. NodeTypes(v) /\ Only(w, v, {"cw"})
    BY <2>4, CwEffect
  <2> HIDE DEF v
  <2>6. v.mhBackoff = Off /\ ~is_idle(v)
    BY <1>0, <2>2, <2>4, <2>5 DEF Only, is_idle, BackoffBusy
  <2>7. NodeTypes(t) /\ Only(v, t, Backoff) /\ t.paused = TRUE /\ t.mhBackoff = v.mhBackoff
    BY <2>5, <2>6, StartBackoffEffect DEF Backoff
  <2> HIDE DEF t
  <2>8. Only(s, t, Ending) /\ Only(s, t, Ending \cup {"pktCTRL"})
    BY <2>2, <2>4, <2>5, <2>7 DEF Only, Ending, Backoff
  <2>9. Keeps(s, t) /\ (t.pktRTS # None <=> UsesRTS(s.pktTx))
    BY <1>0, <2>2, <2>3, <2>4, <2>5, <2>7 DEF Only, Keeps, Backoff
  <2>10. Counted(s, t, k)
    BY <2>2, <2>4, <2>5, <2>7 DEF Only, Counted, Backoff
  <2>11. Ready(t)
    BY <1>0, <2>6, <2>7, <2>8, <2>9, EndedReady DEF Keeps
  <2>12. Ends(s, t)
    BY <1>3, <2>9, <2>10, <2>k DEF Ends
  <2> QED BY <2>1, <2>8, <2>11, <2>12
<1> QED BY <1>1, <1>2, <1>3

\* The fields that change when a node has done with a transmission
-------------------------------------------------------------------------------
(* Settling a transmission *)

Settled == Ending \cup Taking \cup {"mhDefer", "ifq", "tx_state", "mhSend", "pktCTRL"}

\* The node settles its transmission and goes on with what is next.
Settles(s, t) == \E u : /\ Ends(s, u) /\ Continues(u, t) /\ NodeTypes(u)
                        /\ u.index = s.index /\ u.ifq = s.ifq /\ u.out = s.out
                        /\ u.sta_seqno = s.sta_seqno /\ u.callback = s.callback
                        /\ t.ssrc = u.ssrc /\ t.slrc = u.slrc /\ t.over = u.over
                        /\ t.tx_state = "IDLE"

\* Fields of a node that Settles does not look at
Aside == {"mhSend", "mhNav", "mhRecv", "mhDefer", "mhBackoff", "left", "paused",
          "pktCTRL", "pktRx", "rx_state", "cache", "up"}

\* Settles does not depend on the fields of Aside before
LEMMA SettlesFrom ==
  ASSUME NEW s, NEW x, NEW t, Only(s, x, Aside), Settles(x, t)
  PROVE  Settles(s, t)
<1>1. PICK y : /\ Ends(x, y) /\ Continues(y, t) /\ NodeTypes(y)
               /\ y.index = x.index /\ y.ifq = x.ifq /\ y.out = x.out
               /\ y.sta_seqno = x.sta_seqno /\ y.callback = x.callback
               /\ t.ssrc = y.ssrc /\ t.slrc = y.slrc /\ t.over = y.over
               /\ t.tx_state = "IDLE"
  BY DEF Settles
<1>2. Ends(s, y)
  BY <1>1 DEF Only, Aside, Ends, Keeps, Done, Counted, CountOf, SameCounts
<1> QED BY <1>1, <1>2 DEF Settles, Only, Aside

\* nor after.
LEMMA SettlesTo ==
  ASSUME NEW s, NEW x, NEW t, Only(x, t, Aside), Settles(s, x)
  PROVE  Settles(s, t)
<1>1. PICK y : /\ Ends(s, y) /\ Continues(y, x) /\ NodeTypes(y)
               /\ y.index = s.index /\ y.ifq = s.ifq /\ y.out = s.out
               /\ y.sta_seqno = s.sta_seqno /\ y.callback = s.callback
               /\ x.ssrc = y.ssrc /\ x.slrc = y.slrc /\ x.over = y.over
               /\ x.tx_state = "IDLE"
  BY DEF Settles
<1>2. Continues(y, t)
  BY <1>1 DEF Only, Aside, Continues, Takes
<1> QED BY <1>1, <1>2 DEF Settles, Only, Aside

Settling == Ending \cup {"pktCTRL", "mhSend", "mhDefer"}

\* tx_resume() settles a transmission that has ended.
LEMMA SettleEffect ==
  ASSUME Params, NEW s, NEW u, Ready(u), Only(s, u, Settling),
         Ends(s, u), NEW r \in Nat
  PROVE  LET t == tx_resume(u, r) IN
         NodeInv(t) /\ Only(s, t, Settled) /\ Settles(s, t)
<1> DEFINE t == tx_resume(u, r)
<1>1. /\ NodeInv(t) /\ t.tx_state = "IDLE"
      /\ Only(u, t, Taking \cup Backoff \cup {"mhDefer", "ifq", "tx_state"})
      /\ Continues(u, t)
  BY TxResume
<1> HIDE DEF t
<1>2. Only(s, t, Settled)
  BY <1>1 DEF Only, Settled, Ending, Taking, Backoff, Settling
<1>3. /\ u.ifq = s.ifq /\ u.sta_seqno = s.sta_seqno /\ u.callback = s.callback
      /\ u.index = s.index /\ u.out = s.out
  BY DEF Only, Ending, Backoff, Settling
<1>4. t.ssrc = u.ssrc /\ t.slrc = u.slrc /\ t.over = u.over
  BY <1>1 DEF Only, Taking, Backoff
<1>5. NodeTypes(u)
  BY DEF Ready
<1>6. Settles(s, t)
  BY <1>1, <1>3, <1>4, <1>5 DEF Settles
<1> QED BY <1>1, <1>2, <1>6 DEF t

-------------------------------------------------------------------------------
(* The handlers *)

\* send_timer() settles the transmission that was not answered.
LEMMA SendTimerInv ==
  ASSUME Params, NEW s, NodeInv(s), s.mhSend # Off, NEW r \in Nat
  PROVE  LET t == send_timer([s EXCEPT !["mhSend"] = Off], r) IN
         NodeInv(t) /\ Only(s, t, Settled) /\ Settles(s, t)
<1> DEFINE x == [s EXCEPT !["mhSend"] = Off]
           u == CASE x.tx_state = "RTS" -> RetransmitRTS(x, r)
                  [] x.tx_state = "SEND" -> RetransmitDATA(x, r)
                  [] x.tx_state \in {"CTS", "ACK"} -> [x EXCEPT !.pktCTRL = None]
                  [] OTHER -> x
           t == tx_resume(u, r)
<1>0. send_timer(x, r) = t
  BY DEF send_timer
<1>1. s.tx_state # "IDLE" /\ NodeTypes(s)
  BY DEF NodeInv, OnAir
<1>2. Ended(x) /\ Only(s, x, {"mhSend"})
  BY <1>1, EndedOff
<1> HIDE DEF x
<1>3. Ready(u) /\ Only(x, u, Ending \cup {"pktCTRL"}) /\ Ends(x, u)
  <2>1. CASE x.tx_state = "RTS"
    <3>1. u = RetransmitRTS(x, r)
      BY <2>1
    <3> HIDE DEF u
    <3>2. Ready(u) /\ Only(x, u, Ending) /\ Ends(x, u)
      BY <1>2, <2>1, <3>1, RetransmitRTSEffect
    <3>3. Only(x, u, Ending \cup {"pktCTRL"})
      BY <3>2 DEF Only, Ending, Backoff
    <3> QED BY <3>2, <3>3
  <2>2. CASE x.tx_state = "SEND"
    <3>1. u = RetransmitDATA(x, r)
      BY <2>2
    <3> HIDE DEF u
    <3>2. Ready(u) /\ Only(x, u, Ending) /\ Ends(x, u)
      BY <1>2, <2>2, <3>1, RetransmitDATAEffect
    <3>3. Only(x, u, Ending \cup {"pktCTRL"})
      BY <3>2 DEF Only, Ending, Backoff
    <3> QED BY <3>2, <3>3
  <2>3. CASE x.tx_state \in {"CTS", "ACK"}
    <3>1. u = [x EXCEPT !.pktCTRL = None]
      BY <2>3
    <3> HIDE DEF u
    <3>2. Only(x, u, {"pktCTRL"}) /\ u.pktCTRL = None
      BY <1>2, <3>1 DEF Only, Ended, NodeTypes, Fields
    <3>3. IsCTRL(u.pktCTRL)
      BY <3>2, NoneTypes
    <3>4. NodeTypes(u)
      BY <1>2, <3>2, <3>3 DEF Ended, Only, NodeTypes
    <3>5. Only(x, u, Ending \cup {"pktCTRL"})
      BY <3>2 DEF Only
    <3>6. ~(u.paused /\ u.mhBackoff # Off) /\ (u.pktRTS # None => u.pktTx # None)
      BY <1>2, <3>2 DEF Ended, Only, Contending, Holding
    <3>7. Ends(x, u) /\ u.pktTx = x.pktTx
      BY <2>3, <3>2 DEF Only, Ends, Keeps, SameCounts
    <3>8. Ready(u)
      BY <1>2, <3>4, <3>5, <3>6, <3>7, EndedReady
    <3> QED BY <3>5, <3>7, <3>8
  <2>4. x.tx_state \in {"RTS", "SEND", "CTS", "ACK"}
    BY <1>2 DEF Ended, NodeTypes, IsTxState
  <2> QED BY <2>1, <2>2, <2>3, <2>4
<1> HIDE DEF u
<1>4. NodeInv(t) /\ Only(x, t, Settled) /\ Settles(x, t)
  <2>1. Only(x, u, Settling)
    BY <1>3 DEF Only, Settling, Ending, Backoff
  <2> QED BY <1>3, <2>1, SettleEffect
<1> HIDE DEF t
<1>5. Only(s, t, Settled)
  BY <1>2, <1>4 DEF Only, Settled
<1>6. Settles(s, t)
  <2>1. Only(s, x, Aside)
    BY <1>2 DEF Only, Aside
  <2> QED BY <1>4, <2>1, SettlesFrom
<1> QED BY <1>0, <1>4, <1>5, <1>6 DEF x

\* recvRTS() leaves the node alone or settles.
LEMMA RecvRTSInv ==
  ASSUME Params, NEW s, NodeInv(s), NEW p, GoodFrame(p), p.type = "RTS", NEW r \in Nat
  PROVE  LET t == recvRTS(s, p, r) IN
         NodeInv(t) /\ Only(s, t, Settled) /\ (t = s \/ Settles(s, t))
<1>0. NodeTypes(s) /\ DOMAIN s = Fields /\ Holding(s)
  BY DEF NodeInv, NodeTypes
<1>1. CASE s.tx_state # "IDLE" \/ s.pktCTRL # None
  <2>1. recvRTS(s, p, r) = s
    BY <1>1 DEF recvRTS
  <2> QED BY <1>0, <2>1 DEF Only
<1>2. CASE s.tx_state = "IDLE" /\ s.pktCTRL = None
  <2> DEFINE x == sendCTS(s, p.ta, p.dur)
             u == Stop(x, "mhDefer")
             t == tx_resume(u, r)
  <2>1. recvRTS(s, p, r) = t
    BY <1>2 DEF recvRTS
  <2>2. p.ta \in Nodes /\ p.dur \in Nat
    BY DEF GoodFrame, Frames
  <2>3. p.dur < 2^16 /\ p.dur >= 3 * setup.SIFS + setup.cts + setup.ack
    BY DEF GoodFrame, GoodDur
  <2>4. /\ NodeTypes(x) /\ Only(s, x, {"pktCTRL"})
        /\ x.pktCTRL # None /\ x.pktCTRL.type = "CTS"
    BY <1>0, <2>2, <2>3, CTSEffect
  <2> HIDE DEF x
  <2>5. Only(x, u, {"mhDefer"}) /\ u.mhDefer = Off
    BY <2>4 DEF Stop, Only, NodeTypes, Fields
  <2> HIDE DEF u
  <2>6. IsTimer(Off)
    BY DEF IsTimer
  <2>7. NodeTypes(u)
    BY <2>4, <2>5, <2>6 DEF Only, NodeTypes
  <2>8. Only(s, u, Settling)
    BY <2>4, <2>5 DEF Only, Settling, Ending, Backoff
  <2>9. Ends(s, u)
    BY <1>2, <2>4, <2>5 DEF Only, Ends, Keeps, SameCounts
  <2>10. Holding(u)
    BY <1>0, <2>4, <2>5 DEF Only, Holding
  <2>11. ~(u.paused /\ u.mhBackoff # Off) /\ u.mhSend = Off
    BY <1>2, <2>4, <2>5 DEF Only, NodeInv, Contending, OnAir
  <2>12. Ready(u)
    BY <2>5, <2>7, <2>10, <2>11 DEF Ready
  <2> QED BY <2>1, <2>8, <2>9, <2>12, SettleEffect
<1> QED BY <1>1, <1>2

\* So does recvCTS().
LEMMA RecvCTSInv ==
  ASSUME Params, NEW s, NodeInv(s), NEW p, NEW r \in Nat
  PROVE  LET t == recvCTS(s, p, r) IN
         NodeInv(t) /\ Only(s, t, Settled) /\ (t = s \/ Settles(s, t))
<1>0. NodeTypes(s) /\ DOMAIN s = Fields /\ Holding(s)
  BY DEF NodeInv, NodeTypes
<1>1. CASE s.tx_state # "RTS"
  <2>1. recvCTS(s, p, r) = s
    BY <1>1 DEF recvCTS
  <2> QED BY <1>0, <2>1 DEF Only
<1>2. CASE s.tx_state = "RTS"
  <2> DEFINE x == [s EXCEPT !["mhSend"] = Off]
             u == [x EXCEPT !.pktRTS = None, !.ssrc = 0]
             t == tx_resume(u, r)
  <2>1. recvCTS(s, p, r) = t
    BY <1>2 DEF recvCTS, Stop
  <2>2. Ended(x) /\ Only(s, x, {"mhSend"})
    BY <1>2, EndedOff
  <2> HIDE DEF x
  <2>3. Only(x, u, {"pktRTS", "ssrc"}) /\ u.pktRTS = None /\ u.ssrc = 0
    BY <2>2 DEF Ended, Only, NodeTypes, Fields
  <2> HIDE DEF u
  <2>4. IsRTS(u.pktRTS)
    BY <2>3, NoneTypes
  <2>5. NodeTypes(u)
    BY <2>2, <2>3, <2>4 DEF Ended, Only, NodeTypes
  <2>6. Only(x, u, Ending \cup {"pktCTRL"}) /\ u.pktTx = x.pktTx
    BY <2>3 DEF Only, Ending
  <2>7. ~(u.paused /\ u.mhBackoff # Off)
    BY <2>2, <2>3 DEF Ended, Only, Contending
  <2>8. Ready(u)
    BY <2>2, <2>3, <2>5, <2>6, <2>7, EndedReady
  <2>9. Only(s, u, Settling)
    BY <2>2, <2>3 DEF Only, Settling, Ending
  <2>10. Ends(s, u)
    BY <1>2, <2>2, <2>3 DEF Only, Ends, Keeps
  <2> QED BY <2>1, <2>8, <2>9, <2>10, SettleEffect
<1> QED BY <1>1, <1>2

\* So does recvACK().
LEMMA RecvACKInv ==
  ASSUME Params, NEW s, NodeInv(s), NEW p, NEW r \in Nat
  PROVE  LET t == recvACK(s, p, r) IN
         NodeInv(t) /\ Only(s, t, Settled) /\ (t = s \/ Settles(s, t))
<1>0. NodeTypes(s) /\ DOMAIN s = Fields /\ Holding(s)
  BY DEF NodeInv, NodeTypes
<1>1. CASE s.tx_state # "SEND"
  <2>1. recvACK(s, p, r) = s
    BY <1>1 DEF recvACK
  <2> QED BY <1>0, <2>1 DEF Only
<1>2. CASE s.tx_state = "SEND"
  <2> DEFINE x == [s EXCEPT !["mhSend"] = Off]
             y == [x EXCEPT ![Count(s.pktTx)] = 0]
             v == GiveUp(y, "ACKED")
             u == StartBackoff(v, r, 0)
             t == tx_resume(u, r)
  <2>2. Ended(x) /\ Only(s, x, {"mhSend"})
    BY <1>2, EndedOff
  <2>x. x.pktTx = s.pktTx /\ x.pktTx # None /\ NodeTypes(x) /\ x.tx_state = "SEND"
        /\ ~BackoffBusy(x) /\ x.pktRTS = None
    BY <1>2, <2>2 DEF Only, Ended, Contending
  <2>y. y.pktTx = s.pktTx
    <3>1. s.pktTx.size <= setup.RTSThreshold \/ ~(s.pktTx.size <= setup.RTSThreshold)
      OBVIOUS
    <3>2. Count(s.pktTx) \in {"ssrc", "slrc"}
      BY DEF Count
    <3> HIDE DEF x
    <3> QED BY <2>x, <3>2 DEF NodeTypes, Fields
  <2>1. recvACK(s, p, r) = t
    <3>1. [Stop(s, "mhSend") EXCEPT ![Count(s.pktTx)] = 0, !.pktTx = None,
                     !.over = [id |-> s.pktTx.id, fate |-> "ACKED"]]
          = [y EXCEPT !.pktTx = None, !.over = [id |-> y.pktTx.id, fate |-> "ACKED"]]
      BY <2>y DEF Stop
    <3> HIDE DEF y
    <3> QED BY <1>2, <3>1 DEF recvACK, GiveUp
  <2> HIDE DEF x
  <2>3. NodeTypes(y) /\ Only(x, y, {"ssrc", "slrc"}) /\ Counted(x, y, 0)
    BY <2>x, CountEffect
  <2> HIDE DEF y
  <2>4. /\ NodeTypes(v) /\ Only(y, v, {"pktTx", "over", "cw"})
        /\ v.pktTx = None /\ v.over = [id |-> y.pktTx.id, fate |-> "ACKED"]
    BY <2>x, <2>y, <2>3, GiveUpEffect
  <2> HIDE DEF v
  <2>5. v.mhBackoff = Off /\ ~is_idle(v) /\ v.pktRTS = None
    BY <2>x, <2>3, <2>4 DEF Only, is_idle, BackoffBusy
  <2>6. NodeTypes(u) /\ Only(v, u, Backoff) /\ u.paused = TRUE /\ u.mhBackoff = v.mhBackoff
    BY <2>4, <2>5, StartBackoffEffect DEF Backoff
  <2> HIDE DEF u
  <2>7. Only(x, u, Ending \cup {"pktCTRL"}) /\ u.pktTx = None /\ u.pktRTS = None
    BY <2>3, <2>4, <2>5, <2>6 DEF Only, Ending, Backoff
  <2>8. Ready(u)
    BY <2>2, <2>5, <2>6, <2>7, EndedReady
  <2>9. Only(s, u, Settling)
    BY <2>2, <2>7 DEF Only, Settling, Ending, Backoff
  <2>10. Done(s, u, "ACKED") /\ Counted(s, u, 0)
    BY <2>2, <2>x, <2>y, <2>3, <2>4, <2>6, <2>7 DEF Only, Done, Counted, Backoff
  <2>11. Ends(s, u)
    BY <1>2, <2>10 DEF Ends
  <2> QED BY <2>1, <2>8, <2>9, <2>11, SettleEffect
<1> QED BY <1>1, <1>2

\* What the duplicate filter of s does with packet p
Passes(s, t, p) ==
  \/ t.up = s.up /\ t.cache = s.cache
  \/ t.up = p /\ p.ra = MAC_BROADCAST /\ t.cache = s.cache
  \/ /\ t.up = p /\ p.ra # MAC_BROADCAST
     /\ ~(s.cache[p.ta] # 0 /\ s.cache[p.ta] = p.seq)
     /\ t.cache = [s.cache EXCEPT ![p.ta] = p.seq]

\* Filter keeps the invariant.
LEMMA FilterInv ==
  ASSUME Params, NEW s, NodeInv(s), NEW p, GoodFrame(p)
  PROVE  LET t == Filter(s, p) IN
         NodeInv(t) /\ Only(s, t, {"cache", "up"}) /\ Passes(s, t, p)
<1> DEFINE c == [s.cache EXCEPT ![p.ta] = p.seq]
<1>0. NodeTypes(s) /\ DOMAIN s = Fields /\ IsCache(s.cache)
  BY DEF NodeInv, NodeTypes
<1>1. IsCache(c)
  <2>1. p.ta \in Nodes /\ p.seq \in Nat /\ p.seq < setup.wrap
    BY DEF GoodFrame, Frames
  <2>2. setup.wrap \in Nat
    BY DEF Params, Numbers
  <2>3. p.seq \in 0 .. setup.wrap - 1
    BY <2>1, <2>2
  <2> QED BY <1>0, <2>3 DEF IsCache
<1>c. c = [s.cache EXCEPT ![p.ta] = p.seq]
  OBVIOUS
<1>f. IsFrame(p)
  BY DEF IsFrame
<1>2. ASSUME NEW t, Only(s, t, {"cache", "up"}), IsCache(t.cache), IsFrame(t.up)
      PROVE  NodeInv(t)
  <2>1. NodeTypes(t)
    BY <1>0, <1>2 DEF Only, NodeTypes
  <2>2. Holding(t) /\ OnAir(t)
    BY <1>2 DEF NodeInv, Only, Holding, OnAir
  <2>3. Contending(t)
    BY <1>2 DEF NodeInv, Only, Contending, is_idle, BackoffBusy
  <2> QED BY <2>1, <2>2, <2>3 DEF NodeInv
<1>3. CASE p.ra = MAC_BROADCAST
  <2> DEFINE t == [s EXCEPT !.up = p]
  <2>1. Filter(s, p) = t
    BY <1>3 DEF Filter
  <2>2. Only(s, t, {"cache", "up"}) /\ t.up = p /\ t.cache = s.cache
    BY <1>0 DEF Only, Fields
  <2> HIDE DEF t
  <2> QED BY <1>0, <1>2, <1>3, <1>f, <2>1, <2>2 DEF Passes
<1>4. CASE p.ra # MAC_BROADCAST /\ s.cache[p.ta] # 0 /\ s.cache[p.ta] = p.seq
  <2>1. Filter(s, p) = s
    BY <1>4 DEF Filter
  <2> QED BY <1>0, <2>1 DEF Only, Passes
<1>5. CASE p.ra # MAC_BROADCAST /\ ~(s.cache[p.ta] # 0 /\ s.cache[p.ta] = p.seq)
  <2> DEFINE t == [s EXCEPT !.cache = c, !.up = p]
  <2>1. Filter(s, p) = t
    BY <1>5 DEF Filter
  <2> HIDE DEF c
  <2>2. Only(s, t, {"cache", "up"}) /\ t.up = p /\ t.cache = c
    BY <1>0 DEF Only, Fields
  <2> HIDE DEF t
  <2>3. Passes(s, t, p)
    BY <1>5, <1>c, <2>2 DEF Passes
  <2> QED BY <1>1, <1>2, <1>f, <2>1, <2>2, <2>3
<1> QED BY <1>3, <1>4, <1>5

\* The packet, the counts and what is on the air are left alone.
Unsent(s, t) ==
  /\ t.pktTx = s.pktTx /\ t.pktRTS = s.pktRTS /\ t.sta_seqno = s.sta_seqno
  /\ t.ifq = s.ifq /\ t.callback = s.callback /\ SameCounts(s, t)
  /\ t.over = s.over /\ t.out = s.out /\ t.tx_state = s.tx_state

Received == Settled \cup {"mhNav", "cache", "up"}

\* recvDATA() acknowledges or not, and passes the packet to the filter.
LEMMA RecvDATAInv ==
  ASSUME Params, NEW s, NodeInv(s), NEW p, GoodFrame(p), NEW r \in Nat
  PROVE  LET t == recvDATA(s, p, r) IN
         /\ NodeInv(t) /\ Only(s, t, Received) /\ Passes(s, t, p)
         /\ Unsent(s, t) \/ Settles(s, t)
<1>0. NodeTypes(s) /\ DOMAIN s = Fields /\ Holding(s) /\ p.ta \in Nodes
  BY DEF NodeInv, NodeTypes, GoodFrame, Frames
<1>s. Only(s, s, Received) /\ Passes(s, s, p) /\ Unsent(s, s)
  BY <1>0 DEF Only, Passes, Unsent, SameCounts
<1>1. CASE p.ra = MAC_BROADCAST
  <2> DEFINE t == Filter(s, p)
  <2>1. recvDATA(s, p, r) = t
    BY <1>1 DEF recvDATA
  <2>2. NodeInv(t) /\ Only(s, t, {"cache", "up"}) /\ Passes(s, t, p)
    BY FilterInv
  <2> HIDE DEF t
  <2>3. Only(s, t, Received) /\ Unsent(s, t)
    BY <2>2 DEF Only, Received, Unsent, SameCounts
  <2> QED BY <2>1, <2>2, <2>3
<1>2. CASE p.ra # MAC_BROADCAST /\ p.size >= setup.RTSThreshold /\ s.tx_state = "CTS"
  <2> DEFINE x == [s EXCEPT !["mhSend"] = Off]
             u == sendACK(x, p.ta)
             y == tx_resume(u, r)
             t == Filter(y, p)
  <2>1. recvDATA(s, p, r) = t
    BY <1>2 DEF recvDATA, Stop
  <2>2. Ended(x) /\ Only(s, x, {"mhSend"}) /\ NodeTypes(x)
    BY <1>2, EndedOff DEF Ended
  <2> HIDE DEF x
  <2>3. NodeTypes(u) /\ Only(x, u, {"pktCTRL"})
    BY <1>0, <2>2, ACKEffect
  <2> HIDE DEF u
  <2>4. Only(x, u, Ending \cup {"pktCTRL"}) /\ u.pktTx = x.pktTx
    BY <2>3 DEF Only
  <2>5. ~(u.paused /\ u.mhBackoff # Off) /\ (u.pktRTS # None => u.pktTx # None)
    BY <2>2, <2>3 DEF Ended, Only, Contending, Holding
  <2>6. Ready(u)
    BY <2>2, <2>3, <2>4, <2>5, EndedReady
  <2>7. Only(s, u, Settling)
    BY <2>2, <2>3 DEF Only, Settling
  <2>8. Ends(s, u)
    BY <1>2, <2>2, <2>3 DEF Only, Ends, Keeps, SameCounts
  <2>9. NodeInv(y) /\ Only(s, y, Settled) /\ Settles(s, y)
    BY <2>6, <2>7, <2>8, SettleEffect
  <2> HIDE DEF y
  <2>10. NodeInv(t) /\ Only(y, t, {"cache", "up"}) /\ Passes(y, t, p)
    BY <2>9, FilterInv
  <2> HIDE DEF t
  <2>11. Only(s, t, Received)
    BY <2>9, <2>10 DEF Only, Received, Settled, Ending, Backoff, Taking
  <2>12. y.up = s.up /\ y.cache = s.cache
    BY <2>9 DEF Only, Settled, Ending, Backoff, Taking
  <2>13. Passes(s, t, p)
    BY <2>10, <2>12 DEF Passes
  <2>14. Only(y, t, Aside)
    BY <2>10 DEF Only, Aside
  <2>15. Settles(s, t)
    BY <2>9, <2>14, SettlesTo
  <2> QED BY <2>1, <2>10, <2>11, <2>13, <2>15
<1>3. CASE /\ p.ra # MAC_BROADCAST
           /\ \/ p.size >= setup.RTSThreshold /\ s.tx_state # "CTS"
              \/ ~(p.size >= setup.RTSThreshold) /\ s.pktCTRL # None
  <2>1. recvDATA(s, p, r) = s
    BY <1>3 DEF recvDATA
  <2> QED BY <1>s, <2>1
<1>4. CASE p.ra # MAC_BROADCAST /\ ~(p.size >= setup.RTSThreshold) /\ s.pktCTRL = None
  <2> DEFINE u == sendACK(s, p.ta)
             y == IF u.mhSend = Off THEN tx_resume(u, r) ELSE u
             t == Filter(y, p)
  <2>1. recvDATA(s, p, r) = t
    BY <1>4 DEF recvDATA
  <2>2. NodeTypes(u) /\ Only(s, u, {"pktCTRL"}) /\ u.pktCTRL # None
    BY <1>0, ACKEffect
  <2> HIDE DEF u
  <2>3. NodeInv(y) /\ Only(s, y, Settled) /\ (Unsent(s, y) \/ Settles(s, y))
    <3>1. CASE u.mhSend = Off
      <4>1. y = tx_resume(u, r)
        BY <3>1
      <4>2. Only(s, u, Settling)
        BY <2>2 DEF Only, Settling
      <4>3. s.tx_state = "IDLE"
        BY <2>2, <3>1 DEF Only, NodeInv, OnAir
      <4>4. Ends(s, u)
        BY <2>2, <4>3 DEF Only, Ends, Keeps, SameCounts
      <4>5. Holding(u) /\ ~(u.paused /\ u.mhBackoff # Off)
        BY <2>2 DEF Only, NodeInv, Contending, Holding
      <4>6. Ready(u)
        BY <2>2, <3>1, <4>5 DEF Ready
      <4> HIDE DEF y
      <4> QED BY <4>1, <4>2, <4>4, <4>6, SettleEffect
    <3>2. CASE u.mhSend # Off
      <4>1. y = u
        BY <3>2
      <4>2. s.tx_state # "IDLE" /\ s.tx_state \notin {"CTS", "ACK"}
        BY <1>4, <2>2, <3>2 DEF Only, NodeInv, OnAir
      <4>3. Holding(u) /\ OnAir(u)
        BY <2>2, <4>2 DEF Only, NodeInv, Holding, OnAir
      <4>4. Contending(u)
        BY <2>2, <4>2 DEF Only, NodeInv, Contending, is_idle, BackoffBusy
      <4>5. Only(s, u, Settled) /\ Unsent(s, u)
        BY <2>2 DEF Only, Settled, Unsent, SameCounts
      <4> QED BY <2>2, <4>1, <4>3, <4>4, <4>5 DEF NodeInv
    <3> QED BY <3>1, <3>2
  <2> HIDE DEF y
  <2>4. NodeInv(t) /\ Only(y, t, {"cache", "up"}) /\ Passes(y, t, p)
    BY <2>3, FilterInv
  <2> HIDE DEF t
  <2>5. Only(s, t, Received)
    BY <2>3, <2>4 DEF Only, Received, Settled, Ending, Backoff, Taking
  <2>6. y.up = s.up /\ y.cache = s.cache
    BY <2>3 DEF Only, Settled, Ending, Backoff, Taking
  <2>7. Passes(s, t, p)
    BY <2>4, <2>6 DEF Passes
  <2>8. Only(y, t, Aside)
    BY <2>4 DEF Only, Aside
  <2>9. Unsent(s, t) \/ Settles(s, t)
    <3>1. CASE Settles(s, y)
      BY <2>8, <3>1, SettlesTo
    <3>2. CASE Unsent(s, y)
      BY <2>4, <3>2 DEF Only, Unsent, SameCounts
    <3> QED BY <2>3, <3>1, <3>2
  <2> QED BY <2>1, <2>4, <2>5, <2>7, <2>9
<1> QED BY <1>1, <1>2, <1>3, <1>4

\* set_nav() keeps the invariant.
LEMMA NavInv ==
  ASSUME Params, NEW s, NodeInv(s), NEW us \in Nat
  PROVE  LET t == set_nav(s, us) IN NodeInv(t) /\ Only(s, t, {"mhNav"})
<1> DEFINE t == set_nav(s, us)
<1>0. NodeTypes(s)
  BY DEF NodeInv
<1>1. NodeTypes(t) /\ Only(s, t, {"mhNav"}) /\ (t.mhNav = s.mhNav \/ t.mhNav \in Nat)
  BY <1>0, NavEffect
<1> HIDE DEF t
<1>2. t.mhNav # s.mhNav /\ t.mhNav # 0 => ~is_idle(t)
  BY <1>1 DEF is_idle
<1>3. Holding(t) /\ OnAir(t)
  BY <1>1 DEF NodeInv, Only, Holding, OnAir
<1>4. Contending(t)
  BY <1>1, <1>2 DEF NodeInv, Only, Contending, is_idle, BackoffBusy
<1> QED BY <1>1, <1>3, <1>4 DEF t, NodeInv

\* What a frame p that was received does to a node
Accepted(s, t, p) ==
  /\ Passes(s, t, p)
  /\ t.up = s.up \/ (p.type = "DATA" /\ p.ra \in {s.index, MAC_BROADCAST})
  /\ Unsent(s, t) \/ Settles(s, t)

\* The part of recv_timer() behind its checks keeps the invariant.
LEMMA AcceptInv ==
  ASSUME Params, NEW s, NodeInv(s), NEW p, GoodFrame(p), NEW r \in Nat
  PROVE  LET t == Accept(s, p, r) IN
         NodeInv(t) /\ Only(s, t, Received) /\ Accepted(s, t, p)
<1> DEFINE x == IF p.ra = s.index THEN s ELSE set_nav(s, p.dur)
<1>0. DOMAIN s = Fields
  BY DEF NodeInv, NodeTypes
<1>1. NodeInv(x) /\ Only(s, x, {"mhNav"})
  <2>1. CASE p.ra = s.index
    BY <1>0, <2>1 DEF Only
  <2>2. CASE p.ra # s.index
    <3>1. p.dur \in Nat
      BY DEF GoodFrame, Frames
    <3> QED BY <2>2, <3>1, NavInv
  <2> QED BY <2>1, <2>2
<1>2. Accept(s, p, r) =
        CASE p.ra \notin {s.index, MAC_BROADCAST} -> x
          [] p.ra \in {s.index, MAC_BROADCAST} /\ p.type = "RTS" -> recvRTS(x, p, r)
          [] p.ra \in {s.index, MAC_BROADCAST} /\ p.type = "CTS" -> recvCTS(x, p, r)
          [] p.ra \in {s.index, MAC_BROADCAST} /\ p.type = "ACK" -> recvACK(x, p, r)
          [] OTHER -> recvDATA(x, p, r)
  BY DEF Accept
<1> HIDE DEF x
<1>x. x.up = s.up /\ x.cache = s.cache /\ Unsent(s, x) /\ Only(s, x, Aside)
  BY <1>1 DEF Only, Unsent, SameCounts, Aside
<1>3. ASSUME NEW t, NodeInv(t), Only(x, t, Settled), t = x \/ Settles(x, t)
      PROVE  Only(s, t, Received) /\ Accepted(s, t, p)
  <2>1. Only(s, t, Received)
    BY <1>1, <1>3 DEF Only, Received, Settled
  <2>2. t.up = s.up /\ t.cache = s.cache
    BY <1>x, <1>3 DEF Only, Settled, Ending, Backoff, Taking
  <2>3. Unsent(s, t) \/ Settles(s, t)
    <3>1. CASE t = x
      BY <1>x, <3>1
    <3>2. CASE Settles(x, t)
      BY <1>x, <3>2, SettlesFrom
    <3> QED BY <1>3, <3>1, <3>2
  <2> QED BY <2>1, <2>2, <2>3 DEF Accepted, Passes
<1>4. CASE p.ra \notin {s.index, MAC_BROADCAST}
  <2>1. Accept(s, p, r) = x
    BY <1>2, <1>4
  <2>2. Only(x, x, Settled)
    BY <1>1 DEF Only
  <2> QED BY <1>1, <1>3, <2>1, <2>2
<1>5. CASE p.ra \in {s.index, MAC_BROADCAST} /\ p.type = "RTS"
  <2> DEFINE t == recvRTS(x, p, r)
  <2>1. Accept(s, p, r) = t
    BY <1>2, <1>5
  <2>2. NodeInv(t) /\ Only(x, t, Settled) /\ (t = x \/ Settles(x, t))
    BY <1>1, <1>5, RecvRTSInv
  <2> HIDE DEF t
  <2> QED BY <1>3, <2>1, <2>2
<1>6. CASE p.ra \in {s.index, MAC_BROADCAST} /\ p.type = "CTS"
  <2> DEFINE t == recvCTS(x, p, r)
  <2>1. Accept(s, p, r) = t
    BY <1>2, <1>6
  <2>2. NodeInv(t) /\ Only(x, t, Settled) /\ (t = x \/ Settles(x, t))
    BY <1>1, RecvCTSInv
  <2> HIDE DEF t
  <2> QED BY <1>3, <2>1, <2>2
<1>7. CASE p.ra \in {s.index, MAC_BROADCAST} /\ p.type = "ACK"
  <2> DEFINE t == recvACK(x, p, r)
  <2>1. Accept(s, p, r) = t
    BY <1>2, <1>7
  <2>2. NodeInv(t) /\ Only(x, t, Settled) /\ (t = x \/ Settles(x, t))
    BY <1>1, RecvACKInv
  <2> HIDE DEF t
  <2> QED BY <1>3, <2>1, <2>2
<1>8. CASE p.ra \in {s.index, MAC_BROADCAST} /\ p.type = "DATA"
  <2> DEFINE t == recvDATA(x, p, r)
  <2>1. Accept(s, p, r) = t
    BY <1>2, <1>8
  <2>2. /\ NodeInv(t) /\ Only(x, t, Received) /\ Passes(x, t, p)
        /\ Unsent(x, t) \/ Settles(x, t)
    BY <1>1, RecvDATAInv
  <2> HIDE DEF t
  <2>3. Only(s, t, Received) /\ Passes(s, t, p)
    BY <1>1, <1>x, <2>2 DEF Only, Received, Passes
  <2>4. Unsent(s, t) \/ Settles(s, t)
    <3>1. CASE Unsent(x, t)
      BY <1>x, <3>1 DEF Unsent, SameCounts
    <3>2. CASE Settles(x, t)
      BY <1>x, <3>2, SettlesFrom
    <3> QED BY <2>2, <3>1, <3>2
  <2> QED BY <1>8, <2>1, <2>2, <2>3, <2>4 DEF Accepted
<1>9. p.type \in {"RTS", "CTS", "ACK", "DATA"}
  BY DEF GoodFrame, Frames
<1> QED BY <1>4, <1>5, <1>6, <1>7, <1>8, <1>9

\* setRxState() keeps the invariant.
LEMMA SetRxInv ==
  ASSUME Params, NEW s, NodeInv(s), NEW v \in {"IDLE", "RECV", "COLL"}
  PROVE  LET t == setRxState(s, v) IN
         /\ NodeInv(t) /\ t.rx_state = v
         /\ Only(s, t, {"rx_state", "mhBackoff", "paused", "left"})
<1> DEFINE t == setRxState(s, v)
<1>1. NodeTypes(s) /\ Contending(s) /\ ~(s.paused /\ s.mhBackoff # Off)
  BY DEF NodeInv, Contending
<1>2. /\ NodeTypes(t)
      /\ Only(s, t, {"rx_state", "mhBackoff", "paused", "left"})
      /\ t.rx_state = v
      /\ is_idle(t) => t.paused = FALSE
      /\ t.mhBackoff # Off => is_idle(t) /\ t.paused = FALSE
      /\ BackoffBusy(t) <=> BackoffBusy(s)
  BY <1>1, SetRxEffect
<1> HIDE DEF t
<1>3. Holding(t) /\ OnAir(t)
  BY <1>2 DEF NodeInv, Only, Holding, OnAir
<1>4. t.mhBackoff # Off => t.tx_state = "IDLE" /\ t.rx_state = "IDLE" /\ t.paused = FALSE
  BY <1>2 DEF is_idle
<1>5. t.paused => ~is_idle(t)
  BY <1>2
<1>6. Contending(t)
  BY <1>1, <1>2, <1>4, <1>5 DEF Only, Contending
<1> QED BY <1>2, <1>3, <1>6 DEF t, NodeInv

\* A change of the frame received, its timer or mhIF_ does not concern the sender.
LEMMA RxInv ==
  ASSUME NEW s, NodeInv(s), NEW t, NodeTypes(t),
         Only(s, t, {"pktRx", "mhRecv", "mhIF", "tx_active", "failed"})
  PROVE  NodeInv(t)
<1>1. Holding(t) /\ OnAir(t)
  BY DEF NodeInv, Only, Holding, OnAir
<1>2. Contending(t)
  BY DEF NodeInv, Only, Contending, is_idle, BackoffBusy
<1> QED BY <1>1, <1>2 DEF NodeInv

\* recv_timer() keeps the invariant.
LEMMA RecvTimerInv ==
  ASSUME Params, NEW s, NodeInv(s), Receiving(s), s.mhRecv # Off, NEW r \in Nat
  PROVE  LET t == recv_timer([s EXCEPT !["mhRecv"] = Off], r) IN
         /\ NodeInv(t) /\ Receiving(t)
         /\ Only(s, t, Received \cup {"mhRecv", "pktRx", "rx_state"})
         /\ Accepted(s, t, s.pktRx) /\ t.pktRx = None
<1> DEFINE x == [s EXCEPT !["mhRecv"] = Off]
           y == IF x.tx_active THEN x
                ELSE IF x.rx_state = "COLL" \/ x.pktRx.error THEN set_nav(x, usec(EIFS))
                ELSE Accept(x, x.pktRx, r)
           z == [y EXCEPT !.pktRx = None]
           t == setRxState(z, "IDLE")
<1>0. recv_timer(x, r) = t
  BY DEF recv_timer
<1>s. NodeTypes(s) /\ s.pktRx # None
  BY DEF NodeInv, Receiving
<1>1. Only(s, x, {"mhRecv"}) /\ x.mhRecv = Off
  BY <1>s DEF Only, NodeTypes, Fields
<1> HIDE DEF x
<1>2. NodeTypes(x) /\ GoodFrame(x.pktRx) /\ x.pktRx = s.pktRx
  <2>1. IsTimer(Off)
    BY DEF IsTimer
  <2>2. NodeTypes(x)
    BY <1>1, <1>s, <2>1 DEF NodeTypes, Only
  <2> QED BY <1>1, <1>s, <2>2 DEF NodeTypes, Only, IsFrame
<1>3. NodeInv(x)
  <2>1. Only(s, x, {"pktRx", "mhRecv", "mhIF", "tx_active", "failed"})
    BY <1>1 DEF Only
  <2> QED BY <1>2, <2>1, RxInv
<1>4. NodeInv(y) /\ Only(x, y, Received) /\ Accepted(x, y, x.pktRx)
  <2>1. CASE x.tx_active
    <3>1. y = x
      BY <2>1
    <3> HIDE DEF y
    <3>2. Only(x, x, Received) /\ Accepted(x, x, x.pktRx)
      BY <1>2 DEF Only, NodeTypes, Accepted, Passes, Unsent, SameCounts
    <3> QED BY <1>3, <3>1, <3>2
  <2>2. CASE ~x.tx_active /\ (x.rx_state = "COLL" \/ x.pktRx.error)
    <3>1. y = set_nav(x, usec(EIFS))
      BY <2>2
    <3>2. usec(EIFS) \in Nat
      BY DIFSNat, UsecNat
    <3> HIDE DEF y
    <3>3. NodeInv(y) /\ Only(x, y, {"mhNav"})
      BY <1>3, <3>1, <3>2, NavInv
    <3>4. Only(x, y, Received) /\ Accepted(x, y, x.pktRx)
      BY <3>3 DEF Only, Received, Accepted, Passes, Unsent, SameCounts
    <3> QED BY <3>3, <3>4
  <2>3. CASE ~x.tx_active /\ ~(x.rx_state = "COLL" \/ x.pktRx.error)
    <3>1. y = Accept(x, x.pktRx, r)
      BY <2>3
    <3> HIDE DEF y
    <3> QED BY <1>2, <1>3, <3>1, AcceptInv
  <2> QED BY <2>1, <2>2, <2>3
<1> HIDE DEF y
<1>5. Only(y, z, {"pktRx"}) /\ z.pktRx = None
  BY <1>4 DEF Only, NodeInv, NodeTypes, Fields
<1> HIDE DEF z
<1>6. NodeInv(z)
  <2>1. IsFrame(z.pktRx)
    BY <1>5, NoneTypes
  <2>2. NodeTypes(z)
    BY <1>4, <1>5, <2>1 DEF NodeInv, NodeTypes, Only
  <2>3. Only(y, z, {"pktRx", "mhRecv", "mhIF", "tx_active", "failed"})
    BY <1>5 DEF Only
  <2> QED BY <1>4, <2>2, <2>3, RxInv
<1>7. /\ NodeInv(t) /\ t.rx_state = "IDLE"
      /\ Only(z, t, {"rx_state", "mhBackoff", "paused", "left"})
  BY <1>6, SetRxInv
<1> HIDE DEF t
<1>8. Only(s, t, Received \cup {"mhRecv", "pktRx", "rx_state"})
  BY <1>1, <1>4, <1>5, <1>7 DEF Only, Received, Settled, Ending, Backoff
<1>9. Only(y, t, Aside) /\ t.pktRx = None
  BY <1>5, <1>7 DEF Only, Aside
<1>10. Only(s, x, Aside)
  BY <1>1 DEF Only, Aside
<1>11. Unsent(s, t) \/ Settles(s, t)
  <2>1. CASE Unsent(x, y)
    BY <1>9, <1>10, <2>1 DEF Only, Aside, Unsent, SameCounts
  <2>2. CASE Settles(x, y)
    <3>1. Settles(s, y)
      BY <1>10, <2>2, SettlesFrom
    <3> QED BY <1>9, <3>1, SettlesTo
  <2> QED BY <1>4, <2>1, <2>2 DEF Accepted
<1>12. /\ x.up = s.up /\ x.cache = s.cache /\ x.index = s.index
       /\ t.up = y.up /\ t.cache = y.cache
  BY <1>1, <1>5, <1>7 DEF Only
<1>13. Accepted(s, t, s.pktRx)
  BY <1>2, <1>4, <1>11, <1>12 DEF Accepted, Passes
<1>14. t.mhRecv = Off
  BY <1>1, <1>4, <1>5, <1>7 DEF Only, Received, Settled, Ending, Backoff, Taking
<1>15. Receiving(t)
  BY <1>7, <1>9, <1>14 DEF Receiving
<1> QED BY <1>0, <1>7, <1>8, <1>9, <1>13, <1>15 DEF x

\* The node starts to receive p, or goes on as it was.
Hears(s, t, p) ==
  t.pktRx = s.pktRx \/ \E e \in BOOLEAN : t.pktRx = [p EXCEPT !.error = e]

Hearing == {"rx_state", "pktRx", "mhRecv", "mhNav", "mhBackoff", "paused", "left", "failed"}

\* recv(), with its collisions and captures, keeps the invariant.
LEMMA RecvInv ==
  ASSUME Params, NEW s, NodeInv(s), Receiving(s), NEW p, GoodFrame(p)
  PROVE  LET t == recv(s, p) IN
         NodeInv(t) /\ Receiving(t) /\ Only(s, t, Hearing) /\ Hears(s, t, p)
<1> DEFINE e == p.error \/ s.tx_active
           q == [p EXCEPT !.error = e]
<1>0. NodeTypes(s) /\ DOMAIN s = Fields
  BY DEF NodeInv, NodeTypes
<1>1. e \in BOOLEAN /\ q = [p EXCEPT !.error = @ \/ s.tx_active]
  OBVIOUS
<1>2. GoodFrame(q)
  BY <1>1, FrameExcept
<1>3. q.time \in Nat /\ q # None /\ IsFrame(q)
  BY <1>2, MacAssumption DEF GoodFrame, Frames, IsFrame
<1>e. \E f \in BOOLEAN : q = [p EXCEPT !.error = f]
  BY <1>1
<1>4. CASE s.rx_state = "IDLE"
  <2> DEFINE x == setRxState(s, "RECV")
             y == [x EXCEPT !.pktRx = q]
             t == Start(y, "mhRecv", q.time)
  <2>1. recv(s, p) = t
    BY <1>4 DEF recv
  <2> HIDE DEF q
  <2>2. /\ NodeInv(x) /\ x.rx_state = "RECV"
        /\ Only(s, x, {"rx_state", "mhBackoff", "paused", "left"})
    BY SetRxInv
  <2> HIDE DEF x
  <2>3. Only(x, y, {"pktRx"}) /\ y.pktRx = q
    BY <2>2 DEF Only, NodeInv, NodeTypes, Fields
  <2> HIDE DEF y
  <2>4. NodeTypes(y)
    BY <1>3, <2>2, <2>3 DEF NodeInv, NodeTypes, Only
  <2>5. NodeTypes(t) /\ Only(y, t, {"mhRecv", "failed"}) /\ t.mhRecv = q.time
    <3>1. DOMAIN y = Fields /\ "mhRecv" \in Timers /\ q.time \in Nat
      BY <1>3, <2>4 DEF NodeTypes, Timers
    <3>2. ASSUME NEW k \in Nat
          PROVE  LET u == Start(y, "mhRecv", k) IN
                 NodeTypes(u) /\ Only(y, u, {"mhRecv", "failed"}) /\ u.mhRecv = k
      BY <2>4, <3>1, StartEffect, StartTypes
    <3> QED BY <3>1, <3>2
  <2> HIDE DEF t
  <2>6. Only(x, t, {"pktRx", "mhRecv", "mhIF", "tx_active", "failed"}) /\ t.pktRx = q
    BY <2>3, <2>5 DEF Only
  <2>7. NodeInv(t)
    BY <2>2, <2>5, <2>6, RxInv
  <2>8. Only(s, t, Hearing) /\ t.rx_state = "RECV"
    BY <2>2, <2>3, <2>5 DEF Only, Hearing
  <2>9. q.time # Off
    BY <1>3, IsTimerNat
  <2>10. Receiving(t)
    BY <1>3, <2>5, <2>6, <2>8, <2>9 DEF Receiving
  <2>11. Hears(s, t, p)
    BY <1>e, <2>6 DEF Hears
  <2> QED BY <2>1, <2>7, <2>8, <2>10, <2>11
<1>5. CASE s.rx_state # "IDLE" /\ <<s.index, s.pktRx.ta, q.ta>> \in setup.captures
  <2> DEFINE t == set_nav(s, usec(EIFS + q.time))
  <2>1. recv(s, p) = t
    BY <1>5 DEF recv
  <2> HIDE DEF q
  <2>2. usec(EIFS + q.time) \in Nat
    <3>1. EIFS \in Nat /\ q.time \in Nat
      BY <1>3, DIFSNat
    <3>2. EIFS + q.time \in Nat
      BY <3>1
    <3> QED BY <3>2, UsecNat
  <2>3. NodeInv(t) /\ Only(s, t, {"mhNav"})
    BY <2>2, NavInv
  <2> HIDE DEF t
  <2>4. Only(s, t, Hearing) /\ Receiving(t) /\ Hears(s, t, p)
    BY <2>3 DEF Only, Hearing, Receiving, Hears
  <2> QED BY <2>1, <2>3, <2>4
<1>6. CASE s.rx_state # "IDLE" /\ <<s.index, s.pktRx.ta, q.ta>> \notin setup.captures
  <2> DEFINE x == setRxState(s, "COLL")
             y == [x EXCEPT !.pktRx = q, !.mhRecv = q.time]
             t == IF q.time > x.mhRecv THEN y ELSE x
  <2>1. recv(s, p) = t
    BY <1>6 DEF recv
  <2> HIDE DEF q
  <2>2. /\ NodeInv(x) /\ x.rx_state = "COLL"
        /\ Only(s, x, {"rx_state", "mhBackoff", "paused", "left"})
    BY SetRxInv
  <2> HIDE DEF x
  <2>3. Only(x, y, {"pktRx", "mhRecv"}) /\ y.pktRx = q /\ y.mhRecv = q.time
    BY <2>2 DEF Only, NodeInv, NodeTypes, Fields
  <2> HIDE DEF y
  <2>4. IsTimer(y.mhRecv) /\ y.mhRecv # Off
    BY <1>3, <2>3, IsTimerNat
  <2>5. NodeTypes(y)
    BY <1>3, <2>2, <2>3, <2>4 DEF NodeInv, NodeTypes, Only
  <2>6. NodeInv(y)
    <3>1. Only(x, y, {"pktRx", "mhRecv", "mhIF", "tx_active", "failed"})
      BY <2>3 DEF Only
    <3> QED BY <2>2, <2>5, <3>1, RxInv
  <2>7. Only(s, x, Hearing) /\ Receiving(x) /\ Hears(s, x, p)
    BY <1>6, <2>2 DEF Only, Hearing, Receiving, Hears
  <2>8. Only(s, y, Hearing) /\ y.rx_state = "COLL"
    BY <2>2, <2>3 DEF Only, Hearing
  <2>9. Receiving(y) /\ Hears(s, y, p)
    BY <1>3, <1>e, <2>3, <2>4, <2>8 DEF Receiving, Hears
  <2> QED BY <2>1, <2>2, <2>6, <2>7, <2>8, <2>9
<1> QED BY <1>4, <1>5, <1>6

\* navHandler() resumes a backoff that is paused.
LEMMA NavHandlerInv ==
  ASSUME Params, NEW s, NodeInv(s), Receiving(s)
  PROVE  LET t == navHandler([s EXCEPT !["mhNav"] = Off]) IN
         NodeInv(t) /\ Receiving(t) /\ Only(s, t, {"mhNav", "mhBackoff", "paused"})
<1> DEFINE x == [s EXCEPT !["mhNav"] = Off]
           t == navHandler(x)
<1>0. NodeTypes(s)
  BY DEF NodeInv
<1>1. Only(s, x, {"mhNav"}) /\ x.mhNav = Off
  BY <1>0 DEF Only, NodeTypes, Fields
<1> HIDE DEF x
<1>2. NodeTypes(x)
  <2>1. IsTimer(Off)
    BY DEF IsTimer
  <2> QED BY <1>0, <1>1, <2>1 DEF NodeTypes, Only
<1>3. Holding(x) /\ OnAir(x) /\ Receiving(x)
  BY <1>1 DEF NodeInv, Only, Holding, OnAir, Receiving
<1>4. /\ x.mhBackoff # Off =>
           x.tx_state = "IDLE" /\ x.rx_state = "IDLE" /\ x.paused = FALSE
      /\ x.mhDefer # Off => x.tx_state = "IDLE" /\ (x.pktCTRL # None \/ x.pktTx # None)
      /\ x.mhDefer # Off /\ x.pktCTRL = None => ~BackoffBusy(x)
      /\ x.tx_state \in {"RTS", "SEND"} => ~BackoffBusy(x)
  BY <1>1 DEF NodeInv, Only, Contending, BackoffBusy
<1>5. CASE is_idle(x) /\ x.paused
  <2>1. t = ResumeBackoff(x)
    BY <1>5 DEF navHandler
  <2> HIDE DEF t
  <2>2. /\ NodeTypes(t) /\ Only(x, t, {"mhBackoff", "paused"})
        /\ t.paused = FALSE /\ t.mhBackoff # Off
    BY <1>2, <2>1, ResumeEffect
  <2>3. Holding(t) /\ OnAir(t) /\ Receiving(t)
    BY <1>3, <2>2 DEF Only, Holding, OnAir, Receiving
  <2>4. Contending(t)
    BY <1>4, <1>5, <2>2 DEF Only, Contending, is_idle, BackoffBusy
  <2>5. Only(s, t, {"mhNav", "mhBackoff", "paused"})
    BY <1>1, <2>2 DEF Only
  <2> QED BY <2>2, <2>3, <2>4, <2>5 DEF t, x, NodeInv
<1>6. CASE ~(is_idle(x) /\ x.paused)
  <2>1. t = x
    BY <1>6 DEF navHandler
  <2>2. Contending(x)
    BY <1>4, <1>6 DEF Contending
  <2>3. Only(s, x, {"mhNav", "mhBackoff", "paused"})
    BY <1>1 DEF Only
  <2> QED BY <1>2, <1>3, <2>1, <2>2, <2>3 DEF x, NodeInv
<1> QED BY <1>5, <1>6

\* txHandler() keeps the invariant.
LEMMA TxHandlerInv ==
  ASSUME NEW s, NodeInv(s), Receiving(s)
  PROVE  LET t == txHandler([s EXCEPT !["mhIF"] = Off]) IN
         NodeInv(t) /\ Receiving(t) /\ Only(s, t, {"mhIF", "tx_active"})
<1> DEFINE x == [s EXCEPT !["mhIF"] = Off]
           t == txHandler(x)
<1>1. NodeInv(x) /\ Receiving(x) /\ Only(s, x, {"mhIF"})
  BY OffInv
<1> HIDE DEF x
<1>2. Only(x, t, {"tx_active"}) /\ t.tx_active = FALSE
  BY <1>1 DEF txHandler, Only, NodeInv, NodeTypes, Fields
<1> HIDE DEF t
<1>3. NodeTypes(t)
  BY <1>1, <1>2 DEF NodeInv, NodeTypes, Only, IsBool
<1>4. Only(x, t, {"pktRx", "mhRecv", "mhIF", "tx_active", "failed"})
  BY <1>2 DEF Only
<1>5. NodeInv(t)
  BY <1>1, <1>3, <1>4, RxInv
<1>6. Receiving(t) /\ Only(s, t, {"mhIF", "tx_active"})
  BY <1>1, <1>2 DEF Only, Receiving
<1> QED BY <1>5, <1>6 DEF t, x

\* send() of a packet that comes from the queue keeps the invariant.
LEMMA SendInv ==
  ASSUME Params, NEW s, NodeInv(s), Receiving(s), s.callback = FALSE,
         NEW p \in Packets, NEW r \in Nat
  PROVE  LET t == send(s, p, r) IN
         /\ NodeInv(t) /\ Receiving(t)
         /\ Only(s, t, Taking \cup Backoff \cup {"mhDefer"})
         /\ Takes(s, t, p) /\ s.pktTx = None /\ s.pktRTS = None
<1> DEFINE t == send(s, p, r)
<1>1. NodeTypes(s) /\ s.pktTx = None /\ s.pktRTS = None
  BY DEF NodeInv, Holding
<1>2. s.mhDefer # Off => s.pktCTRL # None
  BY <1>1 DEF NodeInv, Contending
<1>3. s.tx_state \notin {"RTS", "SEND"}
  BY <1>1 DEF NodeInv, OnAir
<1>4. /\ NodeTypes(t) /\ Only(s, t, Taking \cup Backoff \cup {"mhDefer"})
      /\ Takes(s, t, p)
      /\ \/ t.mhDefer = s.mhDefer /\ t.paused = s.paused /\ t.mhBackoff = s.mhBackoff
         \/ /\ ~BackoffBusy(s) /\ ~is_idle(s)
            /\ t.mhDefer = s.mhDefer /\ t.paused = TRUE /\ t.mhBackoff = Off
         \/ ~BackoffBusy(s) /\ is_idle(s) /\ s.mhDefer = Off /\ Waits(s, t)
  BY <1>1, SendEffect
<1> HIDE DEF t
<1>5. t.pktTx # None /\ t.callback = TRUE
  BY <1>4 DEF Takes
<1>6. Holding(t)
  BY <1>5 DEF Holding
<1>7. OnAir(t) /\ Receiving(t)
  BY <1>3, <1>4 DEF NodeInv, Only, OnAir, Receiving, Taking, Backoff
<1>8. (is_idle(t) <=> is_idle(s)) /\ t.tx_state = s.tx_state /\ t.rx_state = s.rx_state
      /\ t.pktCTRL = s.pktCTRL /\ t.mhNav = s.mhNav
  BY <1>4 DEF Only, Taking, Backoff, is_idle
<1>9. Contending(s)
  BY DEF NodeInv
<1>10. Contending(t)
  <2>1. CASE t.mhDefer = s.mhDefer /\ t.paused = s.paused /\ t.mhBackoff = s.mhBackoff
    BY <1>5, <1>8, <1>9, <2>1 DEF Contending, BackoffBusy
  <2>2. CASE /\ ~BackoffBusy(s) /\ ~is_idle(s)
             /\ t.mhDefer = s.mhDefer /\ t.paused = TRUE /\ t.mhBackoff = Off
    BY <1>2, <1>3, <1>5, <1>8, <1>9, <2>2 DEF Contending, BackoffBusy
  <2>3. CASE ~BackoffBusy(s) /\ is_idle(s) /\ s.mhDefer = Off /\ Waits(s, t)
    <3>1. s.tx_state = "IDLE" /\ s.rx_state = "IDLE"
      BY <2>3 DEF is_idle
    <3> QED BY <1>3, <1>5, <1>8, <1>9, <2>3, <3>1 DEF Contending, BackoffBusy, Waits
  <2> QED BY <1>4, <2>1, <2>2, <2>3
<1> QED BY <1>1, <1>4, <1>6, <1>7, <1>10 DEF t, NodeInv

-------------------------------------------------------------------------------
(* Time passes *)

\* Node s a time d later
Later(s, d) ==
  [f \in DOMAIN s |-> IF f \in Timers THEN Sooner(s[f], d) ELSE s[f]]

\* No timer expires unnoticed.
LEMMA SoonerTimer ==
  ASSUME NEW k, IsTimer(k), NEW d \in Nat, k = Off \/ d <= k
  PROVE  LET j == Sooner(k, d) IN
         IsTimer(j) /\ (j = Off <=> k = Off) /\ (j # 0 => (j <= 0 <=> k <= 0))
  BY DEF Sooner, IsTimer, Off

\* Time keeps the invariant.
LEMMA LaterInv ==
  ASSUME NEW s, NodeInv(s), Receiving(s), NEW d \in Nat,
         \A t \in Timers : s[t] = Off \/ d <= s[t]
  PROVE  LET t == Later(s, d) IN
         NodeInv(t) /\ Receiving(t) /\ Only(s, t, Timers)
<1> DEFINE t == Later(s, d)
<1>0. NodeTypes(s) /\ DOMAIN s = Fields
  BY DEF NodeInv, NodeTypes
<1>1. Only(s, t, Timers)
  BY <1>0 DEF Later, Only, Fields, Timers
<1>2. /\ t.mhIF = Sooner(s.mhIF, d) /\ t.mhNav = Sooner(s.mhNav, d)
      /\ t.mhRecv = Sooner(s.mhRecv, d) /\ t.mhSend = Sooner(s.mhSend, d)
      /\ t.mhDefer = Sooner(s.mhDefer, d) /\ t.mhBackoff = Sooner(s.mhBackoff, d)
  BY <1>0 DEF Later, Fields, Timers
<1> HIDE DEF t
<1>3. /\ s.mhIF = Off \/ d <= s.mhIF
      /\ s.mhNav = Off \/ d <= s.mhNav
      /\ s.mhRecv = Off \/ d <= s.mhRecv
      /\ s.mhSend = Off \/ d <= s.mhSend
      /\ s.mhDefer = Off \/ d <= s.mhDefer
      /\ s.mhBackoff = Off \/ d <= s.mhBackoff
  BY DEF Timers
<1>4. /\ IsTimer(s.mhIF) /\ IsTimer(s.mhNav) /\ IsTimer(s.mhRecv) /\ IsTimer(s.mhSend)
      /\ IsTimer(s.mhDefer) /\ IsTimer(s.mhBackoff)
  BY <1>0 DEF NodeTypes
<1>5. IsTimer(t.mhIF)
  BY <1>2, <1>3, <1>4, SoonerTimer
<1>6. IsTimer(t.mhNav) /\ (t.mhNav # 0 => (t.mhNav <= 0 <=> s.mhNav <= 0))
  BY <1>2, <1>3, <1>4, SoonerTimer
<1>7. IsTimer(t.mhRecv) /\ (t.mhRecv = Off <=> s.mhRecv = Off)
  BY <1>2, <1>3, <1>4, SoonerTimer
<1>8. IsTimer(t.mhSend) /\ (t.mhSend = Off <=> s.mhSend = Off)
  BY <1>2, <1>3, <1>4, SoonerTimer
<1>9. IsTimer(t.mhDefer) /\ (t.mhDefer = Off <=> s.mhDefer = Off)
  BY <1>2, <1>3, <1>4, SoonerTimer
<1>10. IsTimer(t.mhBackoff) /\ (t.mhBackoff = Off <=> s.mhBackoff = Off)
  BY <1>2, <1>3, <1>4, SoonerTimer
<1>11. NodeTypes(t)
  BY <1>0, <1>1, <1>5, <1>6, <1>7, <1>8, <1>9, <1>10 DEF NodeTypes, Only, Timers
<1>12. Holding(t) /\ OnAir(t) /\ Receiving(t)
  BY <1>1, <1>7, <1>8 DEF NodeInv, Only, Timers, Holding, OnAir, Receiving
<1>13. BackoffBusy(t) <=> BackoffBusy(s)
  BY <1>1, <1>10 DEF Only, Timers, BackoffBusy
<1>14. s.mhNav = 0 => t.mhNav = 0
  <2> SUFFICES ASSUME s.mhNav = 0 PROVE t.mhNav = 0
    OBVIOUS
  <2>1. d = 0
    BY <1>3 DEF Off
  <2>2. t.mhNav = Sooner(0, 0)
    BY <1>2, <2>1
  <2> QED BY <2>2 DEF Sooner, Off
<1>15. t.mhNav # 0 => (is_idle(t) <=> is_idle(s))
  BY <1>1, <1>6 DEF Only, Timers, is_idle
<1>16. Contending(t)
  BY <1>1, <1>9, <1>10, <1>13, <1>14, <1>15 DEF NodeInv, Contending, Only, Timers
<1> QED BY <1>1, <1>11, <1>12, <1>16 DEF t, NodeInv

-------------------------------------------------------------------------------
(* The invariant *)

InAir == {x \in [frame : Frames, left : Nat] : GoodFrame(x.frame)}

\* Between two handlers nothing is left to hand out.
AtRest(s) == s.out = None /\ s.up = None /\ s.over = None

NodesInv ==
  /\ DOMAIN mac = Nodes
  /\ \A n \in Nodes : /\ NodeInv(mac[n]) /\ Receiving(mac[n])
                      /\ AtRest(mac[n]) /\ mac[n].index = n

\* The inductive invariant
MacInv ==
  /\ setup \in Setups /\ NodesInv
  /\ air \in [Nodes -> Seq(InAir)]
  /\ given \in [Nodes -> Nat]
  /\ errors \in 0 .. setup.errors

\* setup never changes, so nothing that depends on it alone does.
LEMMA SetupSame ==
  ASSUME UNCHANGED setup
  PROVE  /\ Params' <=> Params
         /\ \A p : GoodFrame(p)' <=> GoodFrame(p)
         /\ InAir' = InAir
<1>1. ASSUME NEW p PROVE GoodFrame(p)' <=> GoodFrame(p)
  BY DEF GoodFrame, GoodDur
<1>2. Params' <=> Params
  BY DEF Params, Numbers, Traffic
<1>3. InAir' = InAir
  BY <1>1 DEF InAir
<1> QED BY <1>1, <1>2, <1>3

\* Nor does the invariant of a node that stays as it is.
LEMMA NodeSame ==
  ASSUME UNCHANGED setup, NEW s, NodeInv(s)
  PROVE  NodeInv(s)'
<1>1. NodeTypes(s)'
  <2>1. GoodFrame(s.pktTx)' <=> GoodFrame(s.pktTx)
    BY SetupSame
  <2>2. IsTx(s.pktTx, s.index)' <=> IsTx(s.pktTx, s.index)
    BY <2>1 DEF IsTx, GoodData
  <2>3. IsRTS(s.pktRTS)' <=> IsRTS(s.pktRTS)
    BY SetupSame DEF IsRTS
  <2>4. IsCTRL(s.pktCTRL)' <=> IsCTRL(s.pktCTRL)
    BY SetupSame DEF IsCTRL
  <2>5. /\ IsFrame(s.pktRx)' <=> IsFrame(s.pktRx)
        /\ IsFrame(s.out)' <=> IsFrame(s.out)
        /\ IsFrame(s.up)' <=> IsFrame(s.up)
    BY SetupSame DEF IsFrame
  <2>6. IsLeft(s.left)' <=> IsLeft(s.left)
    BY DEF IsLeft
  <2>7. IsCw(s.cw)' <=> IsCw(s.cw)
    BY DEF IsCw
  <2>8. IsSeqno(s.sta_seqno)' <=> IsSeqno(s.sta_seqno)
    BY DEF IsSeqno
  <2>9. IsCache(s.cache)' <=> IsCache(s.cache)
    BY DEF IsCache
  <2>10. IsQueue(s.ifq)' <=> IsQueue(s.ifq)
    BY DEF IsQueue, Packets
  <2> QED BY <2>2, <2>3, <2>4, <2>5, <2>6, <2>7, <2>8, <2>9, <2>10 DEF NodeInv, NodeTypes
<1>2. (Holding(s) /\ OnAir(s) /\ Contending(s))'
  BY DEF NodeInv, Holding, OnAir, Contending, BackoffBusy, is_idle
<1> QED BY <1>1, <1>2 DEF NodeInv

\* What a handler handed out is taken.
Clean(s) == [s EXCEPT !.out = None, !.up = None, !.over = None]

\* That keeps the invariant.
LEMMA CleanInv ==
  ASSUME NEW s, NodeInv(s), Receiving(s)
  PROVE  LET t == Clean(s) IN
         NodeInv(t) /\ Receiving(t) /\ AtRest(t) /\ Only(s, t, {"out", "up", "over"})
<1> DEFINE t == Clean(s)
<1>1. Only(s, t, {"out", "up", "over"}) /\ AtRest(t)
  BY DEF Only, NodeInv, NodeTypes, Fields, AtRest, Clean
<1> HIDE DEF t
<1>2. IsFrame(t.out) /\ IsFrame(t.up) /\ IsOver(t.over)
  BY <1>1, NoneTypes DEF AtRest
<1>3. NodeTypes(t)
  BY <1>1, <1>2 DEF Only, NodeInv, NodeTypes
<1>4. Receiving(t) /\ Holding(t) /\ OnAir(t)
  BY <1>1 DEF NodeInv, Only, Receiving, Holding, OnAir
<1>5. Contending(t)
  BY <1>1 DEF NodeInv, Only, Contending, is_idle, BackoffBusy
<1> QED BY <1>1, <1>3, <1>4, <1>5 DEF t, NodeInv

\* A handler that keeps the invariant of its node keeps that of all.
LEMMA BecomesInv ==
  ASSUME NodesInv, NEW n \in Nodes, NEW s, NodeInv(s), Receiving(s), s.index = n,
         Becomes(n, s)
  PROVE  NodesInv' /\ mac'[n] = Clean(s) /\ (\A m \in Nodes : m # n => mac'[m] = mac[m])
<1>1. mac' = [mac EXCEPT ![n] = Clean(s)] /\ setup' = setup
  BY DEF Becomes, Clean
<1>2. DOMAIN mac = Nodes
  BY DEF NodesInv
<1>3. DOMAIN mac' = Nodes /\ mac'[n] = Clean(s) /\ \A m \in Nodes : m # n => mac'[m] = mac[m]
  BY <1>1, <1>2
<1>4. /\ NodeInv(Clean(s)) /\ Receiving(Clean(s)) /\ AtRest(Clean(s))
      /\ Only(s, Clean(s), {"out", "up", "over"})
  BY CleanInv
<1>5. Clean(s).index = n
  BY <1>4 DEF Only
<1>6. ASSUME NEW m \in Nodes
      PROVE  /\ NodeInv(mac'[m]) /\ Receiving(mac'[m])
             /\ AtRest(mac'[m]) /\ mac'[m].index = m
  BY <1>3, <1>4, <1>5, <1>6 DEF NodesInv
<1>7. ASSUME NEW m \in Nodes
      PROVE  /\ NodeInv(mac[m])' /\ Receiving(mac[m])'
             /\ AtRest(mac[m])' /\ mac'[m].index = m
  <2>1. ASSUME NEW x, NodeInv(x) PROVE NodeInv(x)'
    BY <1>1, <2>1, NodeSame
  <2>2. NodeInv(mac[m])'
    BY <1>6, <2>1
  <2> QED BY <1>6, <2>2 DEF Receiving, AtRest
<1> QED BY <1>3, <1>7 DEF NodesInv

-------------------------------------------------------------------------------
(* The actions *)

\* A node that was silent may transmit something; its packet stays as it is.
Sends(s, t) ==
  /\ t.pktTx = s.pktTx /\ t.sta_seqno = s.sta_seqno /\ t.ifq = s.ifq
  /\ t.callback = s.callback /\ SameCounts(s, t) /\ t.over = s.over
  /\ s.tx_state = "IDLE"
  /\ \/ SendsPending(s, t)
     \/ /\ t.pktRTS = s.pktRTS /\ t.tx_state \notin {"RTS", "SEND"}
        /\ t.out = s.out \/ (t.out # None /\ t.out.type \in {"CTS", "ACK"})

\* What an expiring timer may do to a node
HandlerStep(s, t) ==
  /\ NodeInv(t) /\ Receiving(t) /\ t.index = s.index
  /\ Unsent(s, t) \/ (Settles(s, t) /\ t.out = s.out) \/ Sends(s, t)
  /\ \/ RxKept(s, t) /\ t.up = s.up /\ t.cache = s.cache
     \/ /\ t.pktRx = None /\ s.pktRx # None /\ t.out = s.out
        /\ Accepted(s, t, s.pktRx)

\* Each timer does one of those things.
LEMMA HandleStep ==
  ASSUME Params, NEW s, NodeInv(s), Receiving(s), NEW timer \in Timers,
         s[timer] # Off, NEW r \in Nat
  PROVE  HandlerStep(s, Handle(timer, [s EXCEPT ![timer] = Off], r))
<1> DEFINE x == [s EXCEPT ![timer] = Off]
<1>0. NodeTypes(s)
  BY DEF NodeInv
<1>1. CASE timer = "mhBackoff"
  <2> DEFINE t == backoffHandler([s EXCEPT !["mhBackoff"] = Off], r)
  <2>1. Handle(timer, x, r) = t
    BY <1>1 DEF Handle
  <2>2. /\ NodeInv(t) /\ Receiving(t) /\ RxKept(s, t)
        /\ Only(s, t, Attempt) /\ SendsPending(s, t)
    BY <1>1, BackoffHandlerInv
  <2>3. s.tx_state = "IDLE"
    BY <1>1 DEF NodeInv, Contending
  <2> HIDE DEF t
  <2>4. t.index = s.index /\ t.up = s.up /\ t.cache = s.cache /\ Sends(s, t)
    BY <2>2, <2>3 DEF Only, Attempt, Backoff, Transmission, Sends, SameCounts
  <2> QED BY <2>1, <2>2, <2>4 DEF HandlerStep
<1>2. CASE timer = "mhDefer"
  <2> DEFINE t == deferHandler([s EXCEPT !["mhDefer"] = Off], r)
  <2>1. Handle(timer, x, r) = t
    BY <1>2 DEF Handle
  <2>2. /\ NodeInv(t) /\ Receiving(t) /\ RxKept(s, t)
        /\ Only(s, t, Attempt \cup {"mhDefer", "pktCTRL"})
        /\ \/ SendsPending(s, t)
           \/ /\ t.pktRTS = s.pktRTS /\ t.tx_state \notin {"RTS", "SEND"}
              /\ t.out = s.out \/ (t.out # None /\ t.out.type \in {"CTS", "ACK"})
    BY <1>2, DeferHandlerInv
  <2>3. s.tx_state = "IDLE"
    BY <1>2 DEF NodeInv, Contending
  <2> HIDE DEF t
  <2>4. t.index = s.index /\ t.up = s.up /\ t.cache = s.cache /\ Sends(s, t)
    BY <2>2, <2>3 DEF Only, Attempt, Backoff, Transmission, Sends, SameCounts
  <2> QED BY <2>1, <2>2, <2>4 DEF HandlerStep
<1>3. CASE timer = "mhSend"
  <2> DEFINE t == send_timer([s EXCEPT !["mhSend"] = Off], r)
  <2>1. Handle(timer, x, r) = t
    BY <1>3 DEF Handle
  <2>2. NodeInv(t) /\ Only(s, t, Settled) /\ Settles(s, t)
    BY <1>3, SendTimerInv
  <2> HIDE DEF t
  <2>3. /\ t.index = s.index /\ t.up = s.up /\ t.cache = s.cache /\ t.out = s.out
        /\ t.pktRx = s.pktRx /\ Receiving(t)
    BY <2>2 DEF Only, Settled, Ending, Backoff, Taking, Receiving
  <2>4. RxKept(s, t)
    BY <1>0, <2>3, RxSame
  <2> QED BY <2>1, <2>2, <2>3, <2>4 DEF HandlerStep
<1>4. CASE timer = "mhRecv"
  <2> DEFINE t == recv_timer([s EXCEPT !["mhRecv"] = Off], r)
  <2>1. Handle(timer, x, r) = t
    BY <1>4 DEF Handle
  <2>2. /\ NodeInv(t) /\ Receiving(t)
        /\ Only(s, t, Received \cup {"mhRecv", "pktRx", "rx_state"})
        /\ Accepted(s, t, s.pktRx) /\ t.pktRx = None
    BY <1>4, RecvTimerInv
  <2>3. s.pktRx # None
    BY <1>4 DEF Receiving
  <2> HIDE DEF t
  <2>4. t.index = s.index /\ t.out = s.out
    BY <2>2 DEF Only, Received, Settled, Ending, Backoff, Taking
  <2> QED BY <2>1, <2>2, <2>3, <2>4 DEF HandlerStep, Accepted
<1>5. CASE timer = "mhNav"
  <2> DEFINE t == navHandler([s EXCEPT !["mhNav"] = Off])
  <2>1. Handle(timer, x, r) = t
    BY <1>5 DEF Handle
  <2>2. NodeInv(t) /\ Receiving(t) /\ Only(s, t, {"mhNav", "mhBackoff", "paused"})
    BY NavHandlerInv
  <2> HIDE DEF t
  <2>3. /\ t.index = s.index /\ t.up = s.up /\ t.cache = s.cache /\ t.pktRx = s.pktRx
        /\ Unsent(s, t)
    BY <2>2 DEF Only, Unsent, SameCounts
  <2>4. RxKept(s, t)
    BY <1>0, <2>3, RxSame
  <2> QED BY <2>1, <2>2, <2>3, <2>4 DEF HandlerStep
<1>6. CASE timer = "mhIF"
  <2> DEFINE t == txHandler([s EXCEPT !["mhIF"] = Off])
  <2>1. Handle(timer, x, r) = t
    BY <1>6 DEF Handle
  <2>2. NodeInv(t) /\ Receiving(t) /\ Only(s, t, {"mhIF", "tx_active"})
    BY TxHandlerInv
  <2> HIDE DEF t
  <2>3. /\ t.index = s.index /\ t.up = s.up /\ t.cache = s.cache /\ t.pktRx = s.pktRx
        /\ Unsent(s, t)
    BY <2>2 DEF Only, Unsent, SameCounts
  <2>4. RxKept(s, t)
    BY <1>0, <2>3, RxSame
  <2> QED BY <2>1, <2>2, <2>3, <2>4 DEF HandlerStep
<1> QED BY <1>1, <1>2, <1>3, <1>4, <1>5, <1>6 DEF Timers

\* The elements of a sequence are in its set.
LEMMA SeqElement ==
  ASSUME NEW S, NEW q \in Seq(S), NEW k \in DOMAIN q
  PROVE  q[k] \in S
  OBVIOUS

\* What Random::random() returns is a natural number.
LEMMA DrawsNat == ASSUME Params PROVE Draws \subseteq Nat
<1>1. setup.CWMax \in Nat
  BY DEF Params, Numbers
<1> QED BY <1>1 DEF Draws

\* The invariant holds initially.
LEMMA InitInv == ASSUME Init PROVE MacInv
<1>0. setup \in Setups /\ Params
  BY SetupParams DEF Init
<1>1. ASSUME NEW n \in Nodes
      PROVE  NodeInv(mac[n]) /\ Receiving(mac[n]) /\ AtRest(mac[n]) /\ mac[n].index = n
  <2> DEFINE s == MacInit(n)
  <2>1. mac[n] = s
    BY DEF Init
  <2>2. DOMAIN s = Fields
    BY DEF MacInit, Fields
  <2>3. /\ s.index = n /\ s.tx_state = "IDLE" /\ s.rx_state = "IDLE"
        /\ s.tx_active = FALSE /\ s.paused = FALSE /\ s.callback = FALSE
        /\ s.pktTx = None /\ s.pktRTS = None /\ s.pktCTRL = None /\ s.pktRx = None
        /\ s.mhIF = Off /\ s.mhNav = Off /\ s.mhRecv = Off /\ s.mhSend = Off
        /\ s.mhDefer = Off /\ s.mhBackoff = Off
        /\ s.left = 0 /\ s.cw = setup.CWMin /\ s.ssrc = 0 /\ s.slrc = 0
        /\ s.sta_seqno = 1 /\ s.cache = [m \in Nodes |-> 0] /\ s.ifq = <<>>
        /\ s.out = None /\ s.up = None /\ s.over = None
    BY DEF MacInit
  <2> HIDE DEF s
  <2>4. /\ setup.CWMin \in Nat \ {0} /\ setup.CWMax \in Nat \ {0}
        /\ setup.CWMin <= setup.CWMax /\ setup.wrap \in Nat \ {0, 1}
    BY <1>0 DEF Params, Numbers
  <2>5. IsLeft(0) /\ IsCw(setup.CWMin) /\ IsSeqno(1) /\ IsTimer(Off)
    BY <2>4 DEF IsLeft, IsCw, IsSeqno, IsTimer
  <2>6. IsCache([m \in Nodes |-> 0])
    BY <2>4 DEF IsCache
  <2>7. IsQueue(<<>>)
    BY DEF IsQueue
  <2>8. /\ IsTx(s.pktTx, s.index) /\ IsRTS(s.pktRTS) /\ IsCTRL(s.pktCTRL)
        /\ IsFrame(s.pktRx) /\ IsFrame(s.out) /\ IsFrame(s.up) /\ IsOver(s.over)
    BY <2>3, NoneTypes
  <2>9. IsTxState("IDLE") /\ IsRxState("IDLE") /\ IsBool(FALSE)
    BY DEF IsTxState, IsRxState, IsBool
  <2>10. NodeTypes(s)
    <3>1. IsLeft(s.left) /\ IsCw(s.cw) /\ IsSeqno(s.sta_seqno)
      BY <2>3, <2>5
    <3>2. /\ IsTimer(s.mhIF) /\ IsTimer(s.mhNav) /\ IsTimer(s.mhRecv)
          /\ IsTimer(s.mhSend) /\ IsTimer(s.mhDefer) /\ IsTimer(s.mhBackoff)
      BY <2>3, <2>5
    <3>3. IsCache(s.cache) /\ IsQueue(s.ifq)
      BY <2>3, <2>6, <2>7
    <3>4. IsTxState(s.tx_state) /\ IsRxState(s.rx_state)
      BY <2>3, <2>9
    <3>5. IsBool(s.tx_active) /\ IsBool(s.paused) /\ IsBool(s.callback)
      BY <2>3, <2>9
    <3>6. s.index \in Nodes /\ s.ssrc \in Nat /\ s.slrc \in Nat
      BY <2>3
    <3> QED BY <2>2, <2>8, <3>1, <3>2, <3>3, <3>4, <3>5, <3>6 DEF NodeTypes
  <2>11. Holding(s) /\ OnAir(s) /\ Contending(s) /\ Receiving(s) /\ AtRest(s)
    BY <2>3 DEF Holding, OnAir, Contending, Receiving, AtRest
  <2> QED BY <2>1, <2>3, <2>10, <2>11 DEF NodeInv
<1>2. DOMAIN mac = Nodes
  BY DEF Init
<1>3. air \in [Nodes -> Seq(InAir)] /\ given \in [Nodes -> Nat]
  BY DEF Init
<1>4. errors \in 0 .. setup.errors
  <2>1. setup.errors \in Nat
    BY <1>0 DEF Params, Numbers
  <2> QED BY <2>1 DEF Init
<1> QED BY <1>0, <1>1, <1>2, <1>3, <1>4 DEF MacInv, NodesInv

\* A node that is handed a packet takes it up or queues it.
LEMMA ArriveStep ==
  ASSUME MacInv, NEW n \in Nodes, Arrive(n)
  PROVE  \E t : /\ Becomes(n, t) /\ NodeInv(t) /\ Receiving(t) /\ t.index = n
                /\ t.out = None /\ t.up = None /\ t.over = None
                /\ t.pktRx = mac[n].pktRx /\ t.cache = mac[n].cache
                /\ SameCounts(mac[n], t) /\ t.tx_state = mac[n].tx_state
                /\ LET p == [ra |-> setup.traffic[n][given[n] + 1].ra,
                             size |-> setup.traffic[n][given[n] + 1].size,
                             id |-> given[n] + 1]
                   IN \/ /\ mac[n].callback /\ t.ifq = Append(mac[n].ifq, p)
                         /\ t.pktTx = mac[n].pktTx /\ t.pktRTS = mac[n].pktRTS
                         /\ t.sta_seqno = mac[n].sta_seqno /\ t.callback = mac[n].callback
                      \/ /\ ~mac[n].callback /\ mac[n].pktTx = None
                         /\ mac[n].pktRTS = None
                         /\ t.ifq = mac[n].ifq /\ Takes(mac[n], t, p)
<1> DEFINE s == mac[n]
           p == [ra |-> setup.traffic[n][given[n] + 1].ra,
                 size |-> setup.traffic[n][given[n] + 1].size, id |-> given[n] + 1]
<1>0. /\ setup \in Setups /\ given \in [Nodes -> Nat]
      /\ NodeInv(s) /\ Receiving(s) /\ AtRest(s) /\ s.index = n /\ Params
  BY SetupParams DEF MacInv, NodesInv
<1>1. given'[n] = given[n] + 1 /\ given[n] < Len(setup.traffic[n]) /\ given[n] \in Nat
  BY <1>0 DEF Arrive
<1>2. p \in Packets
  <2>1. setup.traffic[n] \in Seq([ra : Nodes \cup {MAC_BROADCAST}, size : Nat])
    BY <1>0 DEF Params, Traffic
  <2>2. given[n] + 1 \in DOMAIN setup.traffic[n] /\ given[n] + 1 \in Nat
    BY <1>1, <2>1
  <2>3. /\ setup.traffic[n][given[n] + 1].ra \in Nodes \cup {MAC_BROADCAST}
        /\ setup.traffic[n][given[n] + 1].size \in DOMAIN setup.data
    <3> DEFINE k == given[n] + 1
    <3>1. k \in DOMAIN setup.traffic[n]
      BY <2>2
    <3> HIDE DEF k
    <3>2. setup.traffic[n][k] \in [ra : Nodes \cup {MAC_BROADCAST}, size : Nat]
      BY <2>1, <3>1, SeqElement
    <3>3. setup.traffic[n][k].size \in DOMAIN setup.data
      BY <1>0, <3>1 DEF Params, Traffic
    <3> QED BY <3>2, <3>3 DEF k
  <2> QED BY <2>2, <2>3 DEF Packets
<1>3. IF s.callback THEN Becomes(n, [s EXCEPT !.ifq = Append(@, p)])
      ELSE \E r \in Draws : Becomes(n, send(s, p, r))
  BY <1>1 DEF Arrive
<1>p. p = [ra |-> setup.traffic[n][given[n] + 1].ra,
           size |-> setup.traffic[n][given[n] + 1].size, id |-> given[n] + 1]
  OBVIOUS
<1>s. s = mac[n]
  OBVIOUS
<1> HIDE DEF p, s
<1>4. CASE s.callback
  <2> DEFINE t == [s EXCEPT !.ifq = Append(@, p)]
  <2>1. Becomes(n, t)
    BY <1>3, <1>4
  <2>2. Only(s, t, {"ifq"}) /\ t.ifq = Append(s.ifq, p)
    BY <1>0 DEF Only, NodeInv, NodeTypes, Fields
  <2> HIDE DEF t
  <2>3. IsQueue(t.ifq)
    BY <1>0, <1>2, <2>2 DEF NodeInv, NodeTypes, IsQueue
  <2>4. NodeTypes(t)
    BY <1>0, <2>2, <2>3 DEF NodeInv, NodeTypes, Only
  <2>5. Holding(t) /\ OnAir(t) /\ Receiving(t)
    BY <1>0, <2>2 DEF NodeInv, Only, Holding, OnAir, Receiving
  <2>6. Contending(t)
    BY <1>0, <2>2 DEF NodeInv, Only, Contending, is_idle, BackoffBusy
  <2>7. NodeInv(t)
    BY <2>4, <2>5, <2>6 DEF NodeInv
  <2>8. /\ t.index = n /\ t.out = None /\ t.up = None /\ t.over = None
        /\ t.pktRx = s.pktRx /\ t.cache = s.cache
        /\ SameCounts(s, t) /\ t.tx_state = s.tx_state
        /\ t.pktTx = s.pktTx /\ t.pktRTS = s.pktRTS
        /\ t.sta_seqno = s.sta_seqno /\ t.callback = s.callback
    BY <1>0, <2>2 DEF Only, AtRest, SameCounts
  <2> QED BY <1>4, <1>p, <1>s, <2>1, <2>2, <2>5, <2>7, <2>8
<1>5. CASE ~s.callback
  <2>1. PICK r \in Draws : Becomes(n, send(s, p, r))
    BY <1>3, <1>5
  <2> DEFINE t == send(s, p, r)
  <2>2. r \in Nat /\ s.callback = FALSE
    BY <1>0, <1>5, DrawsNat DEF NodeInv, NodeTypes, IsBool
  <2>3. /\ NodeInv(t) /\ Receiving(t)
        /\ Only(s, t, Taking \cup Backoff \cup {"mhDefer"})
        /\ Takes(s, t, p) /\ s.pktTx = None /\ s.pktRTS = None
    BY <1>0, <1>2, <2>2, SendInv
  <2>4. Becomes(n, t)
    BY <2>1
  <2> HIDE DEF t
  <2>5. /\ t.index = n /\ t.out = None /\ t.up = None /\ t.over = None
        /\ t.pktRx = s.pktRx /\ t.cache = s.cache
        /\ SameCounts(s, t) /\ t.tx_state = s.tx_state /\ t.ifq = s.ifq
    BY <1>0, <2>3 DEF Only, AtRest, SameCounts, Taking, Backoff
  <2> QED BY <1>5, <1>p, <1>s, <2>3, <2>4, <2>5
<1> QED BY <1>4, <1>5

\* The timer of one node expires.
LEMMA ExpireStep ==
  ASSUME MacInv, NEW n \in Nodes, NEW timer \in Timers, Expire(n, timer)
  PROVE  \E t : Becomes(n, t) /\ air' = Transmitted(n, t) /\ HandlerStep(mac[n], t)
<1> DEFINE s == mac[n]
<1>0. NodeInv(s) /\ Receiving(s) /\ Params
  BY SetupParams DEF MacInv, NodesInv
<1>1. s[timer] # Off
  BY DEF Expire, Off
<1>2. PICK r \in Draws :
        LET t == Handle(timer, [s EXCEPT ![timer] = Off], r)
        IN Becomes(n, t) /\ air' = Transmitted(n, t)
  BY DEF Expire
<1>3. r \in Nat
  BY <1>0, DrawsNat
<1>4. HandlerStep(s, Handle(timer, [s EXCEPT ![timer] = Off], r))
  BY <1>0, <1>1, <1>3, HandleStep
<1> QED BY <1>2, <1>4

\* A frame reaches a node.
LEMMA ReachStep ==
  ASSUME MacInv, NEW n \in Nodes, Reach(n)
  PROVE  LET p == Head(air[n]).frame IN
         /\ GoodFrame(p) /\ air[n] # <<>> /\ air' = [air EXCEPT ![n] = Tail(@)]
         /\ given' = given /\ errors' \in 0 .. setup.errors
         /\ \E t : /\ Becomes(n, t) /\ NodeInv(t) /\ Receiving(t)
                   /\ Only(mac[n], t, Hearing) /\ Hears(mac[n], t, p)
<1> DEFINE s == mac[n]
           p == Head(air[n]).frame
<1>0. NodeInv(s) /\ Receiving(s) /\ Params /\ errors \in 0 .. setup.errors
  BY SetupParams DEF MacInv, NodesInv
<1>1. air[n] \in Seq(InAir) /\ air[n] # <<>>
  BY DEF MacInv, Reach
<1>2. Head(air[n]) \in InAir
  BY <1>1
<1>3. GoodFrame(p)
  BY <1>2 DEF InAir
<1>4. GoodFrame([p EXCEPT !.error = TRUE])
  BY <1>3, FrameExcept
<1>5. setup.errors \in Nat
  BY <1>0 DEF Params, Numbers
<1>6. errors' \in 0 .. setup.errors /\ given' = given /\ air' = [air EXCEPT ![n] = Tail(@)]
  BY <1>0, <1>5 DEF Reach
<1>7. \/ Becomes(n, recv(s, p))
      \/ Becomes(n, recv(s, [p EXCEPT !.error = TRUE]))
  BY DEF Reach
<1>8. ASSUME NEW q, GoodFrame(q), Becomes(n, recv(s, q)),
             \A e \in BOOLEAN : [q EXCEPT !.error = e] = [p EXCEPT !.error = e]
      PROVE  \E t : /\ Becomes(n, t) /\ NodeInv(t) /\ Receiving(t)
                    /\ Only(s, t, Hearing) /\ Hears(s, t, p)
  <2> DEFINE t == recv(s, q)
  <2>1. NodeInv(t) /\ Receiving(t) /\ Only(s, t, Hearing) /\ Hears(s, t, q)
    BY <1>0, <1>8, RecvInv
  <2>2. Becomes(n, t)
    BY <1>8
  <2> HIDE DEF t
  <2>3. Hears(s, t, p)
    BY <1>8, <2>1 DEF Hears
  <2> QED BY <2>1, <2>2, <2>3
<1>9. \A e \in BOOLEAN :
        [[p EXCEPT !.error = TRUE] EXCEPT !.error = e] = [p EXCEPT !.error = e]
  BY <1>3 DEF GoodFrame, Frames
<1>10. \E t : /\ Becomes(n, t) /\ NodeInv(t) /\ Receiving(t)
              /\ Only(s, t, Hearing) /\ Hears(s, t, p)
  <2> HIDE DEF s, p
  <2>1. CASE Becomes(n, recv(s, p))
    BY <1>3, <1>8, <2>1
  <2>2. CASE Becomes(n, recv(s, [p EXCEPT !.error = TRUE]))
    BY <1>4, <1>8, <1>9, <2>2
  <2> QED BY <1>7, <2>1, <2>2
<1> QED BY <1>1, <1>3, <1>6, <1>10

\* What is transmitted is on its way to the nodes that hear it.
LEMMA AirAppended ==
  ASSUME MacInv, NEW n \in Nodes, NEW t, NodeInv(t), setup' = setup
  PROVE  Transmitted(n, t) \in [Nodes -> Seq(InAir)]
<1>1. ASSUME NEW m \in Nodes
      PROVE  (IF t.out # None /\ m \in Hearers(n)
              THEN Append(air[m], [frame |-> t.out, left |-> setup.propagation])
              ELSE air[m]) \in Seq(InAir)
  <2>1. air[m] \in Seq(InAir)
    BY DEF MacInv
  <2>2. CASE t.out # None
    <3> DEFINE x == [frame |-> t.out, left |-> setup.propagation]
    <3>1. GoodFrame(t.out)
      BY <2>2 DEF NodeInv, NodeTypes, IsFrame
    <3>2. setup.propagation \in Nat
      BY SetupParams DEF MacInv, Params, Numbers
    <3>3. x \in InAir
      BY <3>1, <3>2 DEF InAir, GoodFrame
    <3> HIDE DEF x
    <3>4. Append(air[m], x) \in Seq(InAir)
      BY <2>1, <3>3
    <3> QED BY <2>1, <3>4 DEF x
  <2>3. CASE t.out = None
    BY <2>1, <2>3
  <2> QED BY <2>2, <2>3
<1> QED BY <1>1 DEF Transmitted

DueAt(n) == {mac[n][t] : t \in Timers} \cup {air[n][i].left : i \in DOMAIN air[n]}

\* Pending is what is due at some node.
LEMMA PendingIsDue ==
  Pending = (UNION {DueAt(n) : n \in Nodes}) \ {Off}
BY DEF Pending, DueAt

\* Time passes for all nodes alike, and past no timer.
LEMMA TickStep ==
  ASSUME MacInv, Tick
  PROVE  \E d \in Nat :
           /\ mac' = [n \in Nodes |-> Later(mac[n], d)]
           /\ air' = [n \in Nodes |-> [i \in DOMAIN air[n] |->
                        [air[n][i] EXCEPT !.left = @ - d]]]
           /\ \A n \in Nodes : \A t \in Timers : mac[n][t] = Off \/ d <= mac[n][t]
           /\ \A n \in Nodes : \A i \in DOMAIN air[n] : d <= air[n][i].left
<1>1. PICK d \in Pending :
        /\ \A e \in Pending : d <= e
        /\ mac' = [n \in Nodes |-> [f \in DOMAIN mac[n] |->
                     IF f \in Timers THEN Sooner(mac[n][f], d) ELSE mac[n][f]]]
        /\ air' = [n \in Nodes |-> [i \in DOMAIN air[n] |->
                     [air[n][i] EXCEPT !.left = @ - d]]]
  BY DEF Tick
<1>2. ASSUME NEW n \in Nodes, NEW t \in Timers PROVE IsTimer(mac[n][t])
  BY DEF MacInv, NodesInv, NodeInv, NodeTypes, Timers
<1>3. ASSUME NEW n \in Nodes, NEW i \in DOMAIN air[n]
      PROVE  air[n][i].left \in Nat
  <2>1. air[n] \in Seq(InAir)
    BY DEF MacInv
  <2>2. air[n][i] \in InAir
    BY <2>1, SeqElement
  <2> QED BY <2>2 DEF InAir
<1>4. ASSUME NEW e \in Pending PROVE e \in Nat
  <2>1. e # Off
    BY PendingIsDue
  <2>2. PICK n \in Nodes : e \in DueAt(n)
    BY PendingIsDue
  <2>3. \/ \E t \in Timers : e = mac[n][t]
        \/ \E i \in DOMAIN air[n] : e = air[n][i].left
    BY <2>2 DEF DueAt
  <2> QED BY <1>2, <1>3, <2>1, <2>3 DEF IsTimer
<1>5. ASSUME NEW n \in Nodes, NEW t \in Timers PROVE mac[n][t] = Off \/ d <= mac[n][t]
  <2>1. mac[n][t] \in DueAt(n)
    BY DEF DueAt
  <2>2. mac[n][t] = Off \/ mac[n][t] \in Pending
    BY <2>1, PendingIsDue
  <2> QED BY <1>1, <2>2
<1>6. ASSUME NEW n \in Nodes, NEW i \in DOMAIN air[n] PROVE d <= air[n][i].left
  <2>1. air[n][i].left # Off
    BY <1>3, IsTimerNat
  <2>2. air[n][i].left \in DueAt(n)
    BY DEF DueAt
  <2>3. air[n][i].left \in Pending
    BY <2>1, <2>2, PendingIsDue
  <2> QED BY <1>1, <2>3
<1>7. mac' = [n \in Nodes |-> Later(mac[n], d)]
  BY <1>1 DEF Later
<1> QED BY <1>1, <1>4, <1>5, <1>6, <1>7

\* Every step keeps the invariant.
LEMMA NextInv ==
  ASSUME MacInv, [Next]_vars
  PROVE  MacInv'
<1>0. setup \in Setups /\ NodesInv /\ Params
  BY SetupParams DEF MacInv
<1>1. CASE Tick
  <2>1. PICK d \in Nat :
           /\ mac' = [n \in Nodes |-> Later(mac[n], d)]
           /\ air' = [n \in Nodes |-> [i \in DOMAIN air[n] |->
                        [air[n][i] EXCEPT !.left = @ - d]]]
           /\ \A n \in Nodes : \A t \in Timers : mac[n][t] = Off \/ d <= mac[n][t]
           /\ \A n \in Nodes : \A i \in DOMAIN air[n] : d <= air[n][i].left
    BY <1>1, TickStep
  <2>2. UNCHANGED <<setup, given, errors>>
    BY <1>1 DEF Tick
  <2>3. ASSUME NEW n \in Nodes
        PROVE  /\ NodeInv(mac'[n]) /\ Receiving(mac'[n])
               /\ AtRest(mac'[n]) /\ mac'[n].index = n
    <3> DEFINE t == Later(mac[n], d)
    <3>1. mac'[n] = t
      BY <2>1
    <3>2. NodeInv(t) /\ Receiving(t) /\ Only(mac[n], t, Timers)
      BY <1>0, <2>1, LaterInv DEF NodesInv
    <3> HIDE DEF t
    <3>3. AtRest(t) /\ t.index = n
      BY <1>0, <3>2 DEF NodesInv, Only, Timers, AtRest
    <3> QED BY <3>1, <3>2, <3>3
  <2>4. ASSUME NEW x, NodeInv(x) PROVE NodeInv(x)'
    BY <2>2, <2>4, NodeSame
  <2>5. NodesInv'
    BY <2>1, <2>3, <2>4 DEF NodesInv, Receiving, AtRest
  <2>6. air' \in [Nodes -> Seq(InAir)]
    <3>1. ASSUME NEW n \in Nodes
          PROVE  [i \in DOMAIN air[n] |-> [air[n][i] EXCEPT !.left = @ - d]] \in Seq(InAir)
      <4>1. air[n] \in Seq(InAir)
        BY DEF MacInv
      <4>2. ASSUME NEW i \in DOMAIN air[n]
            PROVE  [air[n][i] EXCEPT !.left = @ - d] \in InAir
        <5>1. air[n][i] \in InAir
          BY <4>1, SeqElement
        <5>2. air[n][i].left \in Nat /\ d <= air[n][i].left
          BY <2>1, <5>1 DEF InAir
        <5>3. air[n][i].left - d \in Nat
          BY <5>2
        <5> QED BY <5>1, <5>3 DEF InAir
      <4>3. DOMAIN air[n] = 1 .. Len(air[n]) /\ Len(air[n]) \in Nat
        BY <4>1
      <4> QED BY <4>2, <4>3
    <3> QED BY <2>1, <3>1
  <2> QED BY <1>0, <2>2, <2>5, <2>6, SetupSame DEF MacInv
<1>2. CASE \E n \in Nodes : Arrive(n)
  <2>1. PICK n \in Nodes : Arrive(n)
    BY <1>2
  <2>2. PICK t : Becomes(n, t) /\ NodeInv(t) /\ Receiving(t) /\ t.index = n
    BY <2>1, ArriveStep
  <2>3. NodesInv'
    BY <1>0, <2>2, BecomesInv
  <2>4. UNCHANGED <<setup, air, errors>>
    BY <2>1, <2>2 DEF Arrive, Becomes
  <2>5. given' \in [Nodes -> Nat]
    BY <2>1 DEF Arrive, MacInv
  <2> QED BY <2>3, <2>4, <2>5, SetupSame DEF MacInv
<1>3. CASE \E n \in Nodes : Reach(n)
  <2>1. PICK n \in Nodes : Reach(n)
    BY <1>3
  <2>2. /\ air[n] # <<>> /\ air' = [air EXCEPT ![n] = Tail(@)]
        /\ given' = given /\ errors' \in 0 .. setup.errors
        /\ \E t : /\ Becomes(n, t) /\ NodeInv(t) /\ Receiving(t)
                  /\ Only(mac[n], t, Hearing)
    BY <2>1, ReachStep
  <2>3. PICK t : /\ Becomes(n, t) /\ NodeInv(t) /\ Receiving(t)
                 /\ Only(mac[n], t, Hearing)
    BY <2>2
  <2>4. t.index = n
    BY <1>0, <2>3 DEF Only, Hearing, NodesInv
  <2>5. NodesInv'
    BY <1>0, <2>3, <2>4, BecomesInv
  <2>6. UNCHANGED setup
    BY <2>3 DEF Becomes
  <2>7. air' \in [Nodes -> Seq(InAir)]
    <3>1. air \in [Nodes -> Seq(InAir)]
      BY DEF MacInv
    <3>2. Tail(air[n]) \in Seq(InAir)
      BY <2>2, <3>1
    <3> QED BY <2>2, <3>1, <3>2
  <2> QED BY <2>2, <2>5, <2>6, <2>7, SetupSame DEF MacInv
<1>4. CASE \E n \in Nodes : \E timer \in Timers : Expire(n, timer)
  <2>1. PICK n \in Nodes, timer \in Timers : Expire(n, timer)
    BY <1>4
  <2>2. PICK t : Becomes(n, t) /\ air' = Transmitted(n, t) /\ HandlerStep(mac[n], t)
    BY <2>1, ExpireStep
  <2>3. NodeInv(t) /\ Receiving(t) /\ t.index = n
    BY <1>0, <2>2 DEF HandlerStep, NodesInv
  <2>4. NodesInv'
    BY <1>0, <2>2, <2>3, BecomesInv
  <2>5. UNCHANGED <<setup, given, errors>>
    BY <2>1, <2>2 DEF Expire, Becomes
  <2>6. air' \in [Nodes -> Seq(InAir)]
    BY <2>2, <2>3, <2>5, AirAppended
  <2> QED BY <2>4, <2>5, <2>6, SetupSame DEF MacInv
<1>5. CASE UNCHANGED vars
  <2>1. UNCHANGED <<setup, mac, air, given, errors>>
    BY <1>5 DEF vars
  <2>2. ASSUME NEW x, NodeInv(x) PROVE NodeInv(x)'
    BY <2>1, <2>2, NodeSame
  <2>3. NodesInv'
    BY <1>0, <2>1, <2>2 DEF NodesInv, Receiving, AtRest
  <2> QED BY <2>1, <2>3, SetupSame DEF MacInv
<1> QED BY <1>1, <1>2, <1>3, <1>4, <1>5 DEF Next

\* The invariant holds in every reachable state.
LEMMA MacInvariant == Spec => []MacInv
<1>1. Init => MacInv
  BY InitInv
<1>2. MacInv /\ [Next]_vars => MacInv'
  BY NextInv
<1> QED BY <1>1, <1>2, PTL DEF Spec

(***************************************************************************)
(* Every field keeps its type and bounds: the slots of a backoff stay      *)
(* below CWMax through any number of pauses (BackoffTimer::pause()         *)
(* subtracts from rtime, and its assert() is compiled out), the contention *)
(* window between its limits (inc_cw()), the duration that sendCTS()       *)
(* computes by subtraction is never negative, and the times of the timers  *)
(* and the sequence numbers of cache_ are in range.  MacAssumption bounds   *)
(* the durations.                                                          *)
(***************************************************************************)
THEOREM MacTypeCorrect == Spec => []TypeOK
<1>1. MacInv => TypeOK
  <2> SUFFICES ASSUME MacInv PROVE TypeOK
    OBVIOUS
  <2>1. ASSUME NEW n \in Nodes
        PROVE  LET s == mac[n] IN
               /\ s.tx_state \in {"IDLE", "RTS", "CTS", "SEND", "ACK"}
               /\ s.rx_state \in {"IDLE", "RECV", "COLL"}
               /\ s.tx_active \in BOOLEAN /\ s.paused \in BOOLEAN /\ s.callback \in BOOLEAN
               /\ {s.pktTx, s.pktRTS, s.pktCTRL, s.pktRx} \subseteq Frames \cup {None}
               /\ \A t \in Timers : s[t] \in Nat \cup {Off}
               /\ s.left \in 0 .. setup.CWMax - 1 /\ s.cw \in setup.CWMin .. setup.CWMax
               /\ s.ssrc \in Nat /\ s.slrc \in Nat
               /\ s.cache \in [Nodes -> 0 .. setup.wrap - 1]
               /\ s.out = None /\ s.up = None /\ s.over = None
               /\ \A i \in DOMAIN air[n] : air[n][i].frame \in Frames /\ air[n][i].left \in Nat
    <3> DEFINE s == mac[n]
    <3>1. NodeTypes(s) /\ AtRest(s)
      BY DEF MacInv, NodesInv, NodeInv
    <3>2. ASSUME NEW i \in DOMAIN air[n]
          PROVE  air[n][i].frame \in Frames /\ air[n][i].left \in Nat
      <4>1. air[n] \in Seq(InAir)
        BY DEF MacInv
      <4>2. air[n][i] \in InAir
        BY <4>1, SeqElement
      <4> QED BY <4>2 DEF InAir
    <3> HIDE DEF s
    <3>3. /\ s.tx_state \in {"IDLE", "RTS", "CTS", "SEND", "ACK"}
          /\ s.rx_state \in {"IDLE", "RECV", "COLL"}
      BY <3>1 DEF NodeTypes, IsTxState, IsRxState
    <3>4. s.tx_active \in BOOLEAN /\ s.paused \in BOOLEAN /\ s.callback \in BOOLEAN
      BY <3>1 DEF NodeTypes, IsBool
    <3>5. {s.pktTx, s.pktRTS, s.pktCTRL, s.pktRx} \subseteq Frames \cup {None}
      BY <3>1 DEF NodeTypes, IsTx, IsRTS, IsCTRL, IsFrame, GoodData, GoodFrame
    <3>6. \A t \in Timers : s[t] \in Nat \cup {Off}
      BY <3>1 DEF NodeTypes, IsTimer, Timers
    <3>7. s.left \in 0 .. setup.CWMax - 1 /\ s.cw \in setup.CWMin .. setup.CWMax
      BY <3>1 DEF NodeTypes, IsLeft, IsCw
    <3>8. s.cache \in [Nodes -> 0 .. setup.wrap - 1]
      BY <3>1 DEF NodeTypes, IsCache
    <3>9. s.ssrc \in Nat /\ s.slrc \in Nat /\ s.out = None /\ s.up = None /\ s.over = None
      BY <3>1 DEF NodeTypes, AtRest
    <3> QED BY <3>2, <3>3, <3>4, <3>5, <3>6, <3>7, <3>8, <3>9 DEF s
  <2>2. setup \in Setups /\ errors \in 0 .. setup.errors
    BY DEF MacInv
  <2> QED BY <2>1, <2>2 DEF TypeOK
<1> QED BY <1>1, MacInvariant, PTL

(***************************************************************************)
(* tx_state_ and rx_state_ tell which packets are there, for every order   *)
(* of the events of one instant: the pointers that send_timer(),           *)
(* recv_timer(), RetransmitRTS(), RetransmitDATA(), recvCTS() and          *)
(* recvACK() dereference without a check are not null.                     *)
(***************************************************************************)
THEOREM StatesMatchPackets == Spec => []StateMatchesPackets
<1>1. MacInv => StateMatchesPackets
  BY DEF MacInv, NodesInv, NodeInv, Receiving, Holding, OnAir, StateMatchesPackets
<1> QED BY <1>1, MacInvariant, PTL

(***************************************************************************)
(* A backoff that is paused finds the medium busy, or its NAV ends at this *)
(* instant, so that an event is still to come that resumes it              *)
(* (checkBackoffTimer(), navHandler()): no interleaving of handlers leaves *)
(* a node paused on a medium that is idle.                                 *)
(***************************************************************************)
THEOREM BackoffPausedWhileBusy == Spec => []PausedWhileBusy
<1>1. MacInv => PausedWhileBusy
  BY DEF MacInv, NodesInv, NodeInv, Contending, PausedWhileBusy
<1> QED BY <1>1, MacInvariant, PTL

-------------------------------------------------------------------------------
(* Timers that are busy *)

(***************************************************************************)
(* That no timer is started twice depends on time.  bugFix_timer_, true in *)
(* ns-default.tcl, keeps the wait before a first transmission out of       *)
(* mhDefer_; and a frame that may be answered lasts longer than SIFS, as   *)
(* it does with its PLCP preamble, so that none which comes after a CTS is *)
(* over before the data are sent.                                          *)
(***************************************************************************)
Timely(x) ==
  /\ x.bugFix_timer /\ x.rts > x.SIFS
  /\ \A i \in DOMAIN x.data : x.data[i] > x.SIFS

\* Frames that a node may answer
Asks(p) == p.type \in {"RTS", "DATA"}

\* The node is receiving a frame that recv_timer() will accept.
Hearable(s) == s.rx_state = "RECV" /\ s.pktRx.error = FALSE

\* A CTS has come for the packet.
Cleared(s) == s.pktTx # None /\ s.pktRTS = None /\ UsesRTS(s.pktTx)

\* mhDefer_ runs, and not for a CTS or an ACK.
Waiting(s) == s.mhDefer # Off /\ s.pktCTRL = None

\* mhIF_ runs while the interface is busy, and not longer than mhSend_; an ACK
\* ends with both.  If mhSend_ is first, neither mhDefer_ nor mhBackoff_ expires
\* at this instant.
Radio(s) ==
  /\ s.failed = FALSE
  /\ s.tx_active <=> s.mhIF # Off
  /\ s.tx_active /\ s.tx_state # "IDLE" => s.mhIF <= s.mhSend
  /\ s.tx_active /\ s.tx_state = "ACK" => s.mhIF = s.mhSend
  /\ ~s.tx_active /\ s.tx_state = "ACK" => s.mhSend = 0
  /\ s.tx_active /\ s.tx_state = "IDLE" =>
       s.mhIF = 0 /\ s.mhDefer # 0 /\ s.mhBackoff # 0

\* The durations of the frames a node has made
Durations(s) ==
  /\ s.pktRTS # None => s.pktRTS.time = setup.rts
  /\ s.pktCTRL # None /\ s.pktCTRL.type = "ACK" => s.pktCTRL.time = setup.ack
  /\ s.pktCTRL # None /\ s.pktCTRL.type = "CTS" => s.pktCTRL.time = setup.cts

\* mhDefer_ waits at most SIFS, for a CTS, an ACK, or the packet that a CTS has
\* cleared; that packet is sent next, or right after an ACK.
Clearance(s) ==
  /\ s.pktCTRL # None /\ s.pktCTRL.type = "CTS" => s.tx_state \in {"IDLE", "CTS"}
  /\ Waiting(s) => Cleared(s) /\ s.mhDefer <= setup.SIFS
  /\ Cleared(s) =>
       /\ ~BackoffBusy(s)
       /\ \/ s.tx_state \in {"SEND", "ACK"}
          \/ s.tx_state = "IDLE" /\ s.pktCTRL # None /\ s.pktCTRL.type = "ACK"
          \/ s.tx_state = "IDLE" /\ Waiting(s)

\* A frame that will be accepted began after the last transmission, and one that
\* asks for an answer is not over before the packet is sent.
Unanswered(s) ==
  Hearable(s) =>
    /\ s.tx_active = FALSE
    /\ Waiting(s) /\ Asks(s.pktRx) => s.mhRecv > s.mhDefer
    /\ s.tx_state = "ACK" /\ Asks(s.pktRx) => s.mhRecv > setup.SIFS

Sending(s) == Radio(s) /\ Durations(s) /\ Clearance(s)

TimingInv(s) == Sending(s) /\ Unanswered(s)

\* A timer that is not busy may be started.
LEMMA StartSafe ==
  ASSUME NEW s, DOMAIN s = Fields, NEW timer \in Timers, NEW k,
         s[timer] = Off, s.failed = FALSE
  PROVE  Start(s, timer, k).failed = FALSE
  BY DEF Start, Fields, Timers

\* So may the backoff; with DIFS it does not expire at once.
LEMMA BackoffSafe ==
  ASSUME Params, NEW s, NodeTypes(s), NEW r \in Nat, NEW difs \in Nat,
         s.mhBackoff = Off, s.failed = FALSE, difs > 0 \/ ~is_idle(s)
  PROVE  LET t == StartBackoff(s, r, difs) IN t.failed = FALSE /\ t.mhBackoff # 0
<1> DEFINE k == r % s.cw
           j == k * setup.SlotTime + difs
<1>0. DOMAIN s = Fields
  BY DEF NodeTypes
<1>1. CASE is_idle(s)
  <2>1. k * setup.SlotTime \in Nat
    <3>1. s.cw \in setup.CWMin .. setup.CWMax
      BY DEF NodeTypes, IsCw
    <3>2. setup.CWMin \in Nat \ {0} /\ setup.CWMax \in Nat \ {0} /\ setup.SlotTime \in Nat
      BY DEF Params, Numbers
    <3>3. s.cw \in Nat /\ s.cw > 0
      BY <3>1, <3>2
    <3>4. k \in Nat
      BY <3>3
    <3> HIDE DEF k
    <3> QED BY <3>2, <3>4
  <2>2. j # 0
    <3> HIDE DEF k
    <3> QED BY <1>1, <2>1
  <2>3. StartBackoff(s, r, difs) = [Start(s, "mhBackoff", j) EXCEPT !.left = k, !.paused = FALSE]
    BY <1>1 DEF StartBackoff
  <2> HIDE DEF k, j
  <2>4. Start(s, "mhBackoff", j).failed = FALSE /\ Start(s, "mhBackoff", j).mhBackoff = j
        /\ DOMAIN Start(s, "mhBackoff", j) = Fields
    BY <1>0 DEF Start, Fields
  <2> QED BY <2>2, <2>3, <2>4 DEF Fields
<1>2. CASE ~is_idle(s)
  <2> DEFINE t == [s EXCEPT !.left = k, !.paused = TRUE, !.failed = @ \/ s.mhBackoff # Off]
  <2>1. StartBackoff(s, r, difs) = t
    BY <1>2 DEF StartBackoff
  <2> HIDE DEF k
  <2>2. t.failed = (s.failed \/ s.mhBackoff # Off) /\ t.mhBackoff = s.mhBackoff
    BY <1>0 DEF Fields
  <2> HIDE DEF t
  <2>3. t.failed = FALSE
    BY <2>2
  <2>4. t.mhBackoff # 0
    BY <2>2 DEF Off
  <2> QED BY <2>1, <2>3, <2>4
<1> QED BY <1>1, <1>2

\* A backoff that is resumed waits for DIFS at least.
LEMMA ResumeSafe ==
  ASSUME Params, NEW s, NodeTypes(s)
  PROVE  ResumeBackoff(s).mhBackoff # 0
<1>1. s.left \in Nat /\ setup.SlotTime \in Nat \ {0} /\ setup.SIFS \in Nat \ {0}
  BY DEF NodeTypes, IsLeft, Params, Numbers
<1>2. s.left * setup.SlotTime \in Nat
  BY <1>1
<1>3. s.left * setup.SlotTime + DIFS # 0
  BY <1>1, <1>2 DEF DIFS
<1>4. DOMAIN s = Fields
  BY DEF NodeTypes
<1> QED BY <1>3, <1>4 DEF ResumeBackoff, Fields

\* checkBackoffTimer() leaves no backoff that expires at once.
LEMMA CheckSafe ==
  ASSUME Params, NEW s, NodeTypes(s), s.mhBackoff # 0
  PROVE  checkBackoffTimer(s).mhBackoff # 0
<1>1. DOMAIN s = Fields
  BY DEF NodeTypes
<1>2. CASE is_idle(s) /\ s.paused
  BY <1>2, ResumeSafe DEF checkBackoffTimer
<1>3. CASE ~is_idle(s) /\ BackoffBusy(s) /\ ~s.paused
  <2>1. checkBackoffTimer(s) = PauseBackoff(s)
    BY <1>3 DEF checkBackoffTimer
  <2>2. PauseBackoff(s).mhBackoff = Off
    BY <1>1 DEF PauseBackoff, Fields
  <2> QED BY <2>1, <2>2 DEF Off
<1>4. CASE ~(is_idle(s) /\ s.paused) /\ ~(~is_idle(s) /\ BackoffBusy(s) /\ ~s.paused)
  BY <1>4 DEF checkBackoffTimer
<1> QED BY <1>2, <1>3, <1>4

\* Nor do setTxState() and setRxState().
LEMMA SetSafe ==
  ASSUME Params, NEW s, NodeTypes(s), s.mhBackoff # 0
  PROVE  /\ \A v \in {"IDLE", "RTS", "CTS", "SEND", "ACK"} : setTxState(s, v).mhBackoff # 0
         /\ \A v \in {"IDLE", "RECV", "COLL"} : setRxState(s, v).mhBackoff # 0
<1>0. DOMAIN s = Fields
  BY DEF NodeTypes
<1>1. ASSUME NEW v \in {"IDLE", "RTS", "CTS", "SEND", "ACK"}
      PROVE  setTxState(s, v).mhBackoff # 0
  <2> DEFINE x == [s EXCEPT !.tx_state = v]
  <2>1. Only(s, x, {"tx_state"}) /\ x.tx_state = v
    BY <1>0 DEF Only, Fields
  <2> HIDE DEF x
  <2>2. NodeTypes(x) /\ x.mhBackoff # 0
    BY <2>1 DEF Only, NodeTypes, IsTxState
  <2>3. checkBackoffTimer(x).mhBackoff # 0
    BY <2>2, CheckSafe
  <2> QED BY <2>3 DEF setTxState, x
<1>2. ASSUME NEW v \in {"IDLE", "RECV", "COLL"}
      PROVE  setRxState(s, v).mhBackoff # 0
  <2> DEFINE x == [s EXCEPT !.rx_state = v]
  <2>1. Only(s, x, {"rx_state"}) /\ x.rx_state = v
    BY <1>0 DEF Only, Fields
  <2> HIDE DEF x
  <2>2. NodeTypes(x) /\ x.mhBackoff # 0
    BY <2>1 DEF Only, NodeTypes, IsRxState
  <2>3. checkBackoffTimer(x).mhBackoff # 0
    BY <2>2, CheckSafe
  <2> QED BY <2>3 DEF setRxState, x
<1> QED BY <1>1, <1>2

\* transmit() on an interface that is not busy
LEMMA TransmitSafe ==
  ASSUME Params, NEW s, NodeTypes(s), NEW p, GoodFrame(p), NEW k \in Nat,
         RxThere(s), s.mhSend = Off, s.mhIF = Off, s.failed = FALSE
  PROVE  LET t == transmit(s, p, k) IN
         /\ t.failed = FALSE /\ t.tx_active = TRUE /\ t.mhSend = k /\ t.mhIF = p.time
         /\ ~Hearable(t)
<1> DEFINE q == IF s.rx_state = "IDLE" THEN s.pktRx ELSE [s.pktRx EXCEPT !.error = TRUE]
           u == [s EXCEPT !.tx_active = TRUE, !.out = p, !.pktRx = q]
           v == Start(u, "mhSend", k)
           t == Start(v, "mhIF", p.time)
<1>0. DOMAIN s = Fields
  BY DEF NodeTypes
<1>1. transmit(s, p, k) = t
  BY DEF transmit
<1>2. s.rx_state # "IDLE" => q.error = TRUE
  <2>1. s.rx_state # "IDLE" => GoodFrame(s.pktRx)
    BY DEF NodeTypes, IsFrame, RxThere
  <2> QED BY <2>1 DEF GoodFrame, Frames
<1> HIDE DEF q
<1>3. Only(s, u, {"tx_active", "out", "pktRx"}) /\ u.pktRx = q /\ u.tx_active = TRUE
  BY <1>0 DEF Only, Fields
<1> HIDE DEF u
<1>4. Only(u, v, {"mhSend", "failed"}) /\ v.mhSend = k /\ v.failed = FALSE
  <2>1. DOMAIN u = Fields /\ u.mhSend = Off /\ u.failed = FALSE /\ "mhSend" \in Timers
    BY <1>3 DEF Only, Timers
  <2> QED BY <2>1, StartEffect, StartSafe
<1> HIDE DEF v
<1>5. Only(v, t, {"mhIF", "failed"}) /\ t.mhIF = p.time /\ t.failed = FALSE
  <2>1. DOMAIN v = Fields /\ v.mhIF = Off /\ "mhIF" \in Timers
    BY <1>3, <1>4 DEF Only, Timers
  <2>2. ASSUME NEW j PROVE /\ Only(v, Start(v, "mhIF", j), {"mhIF", "failed"})
                           /\ Start(v, "mhIF", j).mhIF = j /\ Start(v, "mhIF", j).failed = FALSE
    BY <1>4, <2>1, StartEffect, StartSafe
  <2> QED BY <2>2
<1> HIDE DEF t
<1>6. t.tx_active = TRUE /\ t.mhSend = k /\ t.pktRx = q /\ t.rx_state = s.rx_state
  BY <1>3, <1>4, <1>5 DEF Only
<1>7. ~Hearable(t)
  BY <1>2, <1>6 DEF Hearable
<1> QED BY <1>1, <1>5, <1>6, <1>7

\* No timer was started twice, no backoff ends at this instant, and the frames
\* have their durations.
Sound(s) == s.failed = FALSE /\ s.mhBackoff # 0 /\ Durations(s)

\* With bugFix_timer_ a node contends by a backoff alone.
LEMMA ContendSafe ==
  ASSUME Params, setup.bugFix_timer, NEW s, NodeTypes(s), NEW r \in Nat, ~BackoffBusy(s),
         s.failed = FALSE
  PROVE  LET t == Contend(s, r) IN
         t.failed = FALSE /\ t.mhBackoff # 0 /\ t.mhDefer = s.mhDefer
<1> DEFINE t == StartBackoff(s, r, DIFS)
<1>1. Contend(s, r) = t
  BY DEF Contend
<1>2. DIFS \in Nat /\ DIFS > 0
  BY DEF DIFS, Params, Numbers
<1>3. s.mhBackoff = Off
  BY DEF BackoffBusy
<1>4. t.failed = FALSE /\ t.mhBackoff # 0
  BY <1>2, <1>3, BackoffSafe
<1>5. Only(s, t, {"mhBackoff", "left", "paused", "failed"})
  BY <1>2, StartBackoffEffect
<1> HIDE DEF t
<1> QED BY <1>1, <1>4, <1>5 DEF Only

\* A change of other fields leaves the durations and the packets as they are.
LEMMA SamePackets ==
  ASSUME NEW s, NEW t, NEW F, Only(s, t, F),
         "pktTx" \notin F, "pktRTS" \notin F, "pktCTRL" \notin F
  PROVE  /\ t.pktTx = s.pktTx /\ t.pktRTS = s.pktRTS /\ t.pktCTRL = s.pktCTRL
         /\ Durations(t) <=> Durations(s)
         /\ Cleared(t) <=> Cleared(s)
<1>1. t.pktTx = s.pktTx /\ t.pktRTS = s.pktRTS /\ t.pktCTRL = s.pktCTRL
  BY DEF Only
<1> QED BY <1>1 DEF Durations, Cleared

\* sendRTS() makes an RTS of the right duration; the packet then waits for a CTS.
LEMMA RTSSafe ==
  ASSUME Params, NEW s, NodeTypes(s), s.pktTx # None, Durations(s)
  PROVE  LET t == sendRTS(s) IN Durations(t) /\ ~Cleared(t)
<1> DEFINE t == sendRTS(s)
<1>1. /\ Only(s, t, {"pktRTS"})
      /\ UsesRTS(s.pktTx) => t.pktRTS # None
  BY RTSEffect
<1>2. UsesRTS(s.pktTx) => t.pktRTS.time = setup.rts
  BY DEF sendRTS, Frame, NodeTypes, Fields
<1>3. ~UsesRTS(s.pktTx) => t = s
  BY DEF sendRTS
<1> HIDE DEF t
<1>4. t.pktTx = s.pktTx /\ t.pktCTRL = s.pktCTRL
  BY <1>1 DEF Only
<1>5. Durations(t)
  BY <1>1, <1>2, <1>3, <1>4 DEF Durations
<1>6. ~Cleared(t)
  BY <1>1, <1>4 DEF Cleared
<1> QED BY <1>5, <1>6 DEF t

\* send() starts no timer that is busy.
LEMMA SendSafe ==
  ASSUME Params, setup.bugFix_timer, NEW s, NodeTypes(s), s.failed = FALSE, Durations(s),
         s.pktRTS = None, NEW p \in Packets, NEW r \in Nat
  PROVE  LET t == send(s, p, r) IN
         /\ t.failed = FALSE /\ Durations(t) /\ ~Cleared(t) /\ t.mhDefer = s.mhDefer
         /\ s.mhBackoff # 0 => t.mhBackoff # 0
<1> DEFINE q == DataOf(s, p)
           k == (s.sta_seqno + 1) % setup.wrap
           u == [s EXCEPT !.callback = TRUE, !.pktTx = q, !.sta_seqno = k]
           v == sendRTS(u)
           t == IF BackoffBusy(v) THEN v
                ELSE IF ~is_idle(v) THEN StartBackoff(v, r, 0)
                ELSE IF v.mhDefer = Off THEN Contend(v, r) ELSE v
<1>1. send(s, p, r) = t
  BY DEF send, DataOf
<1>2. GoodData(q, s.index) /\ q # None
  BY DataFrame
<1>3. IsSeqno(k)
  <2>1. setup.wrap \in Nat \ {0} /\ s.sta_seqno \in 0 .. setup.wrap - 1
    BY DEF NodeTypes, IsSeqno, Params, Numbers
  <2>2. s.sta_seqno + 1 \in Nat /\ setup.wrap \in Nat /\ setup.wrap > 0
    BY <2>1
  <2>3. k \in 0 .. setup.wrap - 1
    BY <2>2
  <2> QED BY <2>3 DEF IsSeqno
<1> HIDE DEF q, k
<1>4. /\ Only(s, u, {"callback", "pktTx", "sta_seqno"})
      /\ u.callback = TRUE /\ u.pktTx = q /\ u.sta_seqno = k
  BY DEF Only, NodeTypes, Fields
<1> HIDE DEF u
<1>5. IsTx(q, s.index)
  BY <1>2 DEF IsTx
<1>6. NodeTypes(u) /\ u.pktTx # None
  BY <1>2, <1>3, <1>4, <1>5 DEF NodeTypes, Only, IsBool
<1>7. Durations(u) /\ u.failed = FALSE /\ u.mhBackoff = s.mhBackoff
      /\ u.mhDefer = s.mhDefer
  BY <1>4 DEF Durations, Only
<1>8. NodeTypes(v) /\ Only(u, v, {"pktRTS"}) /\ Durations(v) /\ ~Cleared(v)
  BY <1>6, <1>7, RTSEffect, RTSSafe
<1> HIDE DEF v
<1>9. v.failed = FALSE /\ v.mhBackoff = s.mhBackoff /\ v.mhDefer = s.mhDefer
  BY <1>7, <1>8 DEF Only
<1>10. CASE BackoffBusy(v) \/ (is_idle(v) /\ v.mhDefer # Off)
  <2>1. t = v
    BY <1>10
  <2> QED BY <1>1, <1>8, <1>9, <2>1
<1>11. CASE ~BackoffBusy(v) /\ ~is_idle(v)
  <2> DEFINE w == StartBackoff(v, r, 0)
  <2>1. t = w
    BY <1>11
  <2>2. v.mhBackoff = Off /\ 0 \in Nat
    BY <1>11 DEF BackoffBusy
  <2>3. w.failed = FALSE /\ w.mhBackoff # 0
    BY <1>8, <1>9, <1>11, <2>2, BackoffSafe
  <2>4. Only(v, w, Backoff)
    BY <1>8, <2>2, StartBackoffEffect DEF Backoff
  <2> HIDE DEF t, w
  <2>5. Durations(w) /\ ~Cleared(w)
    BY <1>8, <2>4, SamePackets DEF Backoff
  <2>6. w.mhDefer = s.mhDefer
    BY <1>9, <2>4 DEF Only, Backoff
  <2> QED BY <1>1, <2>1, <2>3, <2>5, <2>6
<1>12. CASE ~BackoffBusy(v) /\ is_idle(v) /\ v.mhDefer = Off
  <2> DEFINE w == Contend(v, r)
  <2>1. t = w
    BY <1>12
  <2>2. w.failed = FALSE /\ w.mhBackoff # 0 /\ w.mhDefer = v.mhDefer
    BY <1>8, <1>9, <1>12, ContendSafe
  <2>3. Only(v, w, Backoff \cup {"mhDefer"})
    BY <1>8, <1>12, ContendEffect
  <2> HIDE DEF t, w
  <2>4. Durations(w) /\ ~Cleared(w)
    BY <1>8, <2>3, SamePackets DEF Backoff
  <2> QED BY <1>1, <1>9, <2>1, <2>2, <2>4
<1> HIDE DEF t
<1> QED BY <1>1, <1>10, <1>11, <1>12

\* Nor does the callback.
LEMMA QueueSafe ==
  ASSUME Params, setup.bugFix_timer, NEW s, NodeTypes(s), Sound(s),
         s.pktTx = None, s.pktRTS = None, NEW r \in Nat
  PROVE  LET t == resume(s, r) IN Sound(t) /\ ~Cleared(t) /\ t.mhDefer = s.mhDefer
<1>1. CASE s.ifq = <<>>
  <2> DEFINE t == [s EXCEPT !.callback = FALSE]
  <2>1. resume(s, r) = t
    BY <1>1 DEF resume
  <2>2. Only(s, t, {"callback"})
    BY DEF Only, NodeTypes, Fields
  <2> HIDE DEF t
  <2>3. Sound(t) /\ ~Cleared(t) /\ t.mhDefer = s.mhDefer
    BY <2>2 DEF Only, Sound, Durations, Cleared
  <2> QED BY <2>1, <2>3
<1>2. CASE s.ifq # <<>>
  <2> DEFINE u == [s EXCEPT !.ifq = Tail(@)]
             p == Head(s.ifq)
  <2>1. resume(s, r) = send(u, p, r)
    BY <1>2 DEF resume
  <2>2. p \in Packets /\ IsQueue(Tail(s.ifq))
    BY <1>2, QueueHead DEF NodeTypes
  <2>3. Only(s, u, {"ifq"}) /\ u.ifq = Tail(s.ifq)
    BY DEF Only, NodeTypes, Fields
  <2> HIDE DEF u, p
  <2>4. NodeTypes(u) /\ u.pktRTS = None /\ Sound(u) /\ u.mhDefer = s.mhDefer
    BY <2>2, <2>3 DEF Only, NodeTypes, Sound, Durations
  <2>5. u.failed = FALSE /\ Durations(u) /\ u.mhBackoff # 0
    BY <2>4 DEF Sound
  <2>6. LET t == send(u, p, r) IN
        /\ t.failed = FALSE /\ Durations(t) /\ ~Cleared(t) /\ t.mhDefer = u.mhDefer
        /\ u.mhBackoff # 0 => t.mhBackoff # 0
    BY <2>2, <2>4, <2>5, SendSafe
  <2> QED BY <2>1, <2>4, <2>5, <2>6 DEF Sound
<1> QED BY <1>1, <1>2

\* How tx_resume() leaves a node: a packet that a CTS has cleared waits for SIFS,
\* and nothing else does but a CTS or an ACK.
Resumed(s, t) ==
  /\ Sound(t) /\ t.mhDefer # 0
  /\ Waiting(t) => Cleared(s) /\ Cleared(t) /\ t.mhDefer = setup.SIFS
  /\ Cleared(t) =>
       /\ Cleared(s) /\ ~BackoffBusy(t)
       /\ t.pktCTRL = None => t.mhDefer # Off

\* tx_resume() starts no timer that is busy.
LEMMA TxResumeSafe ==
  ASSUME Params, setup.bugFix_timer, NEW s, Ready(s), Sound(s), s.mhDefer = Off,
         Cleared(s) => ~BackoffBusy(s), NEW r \in Nat
  PROVE  Resumed(s, tx_resume(s, r))
<1> DEFINE Step(t) == Resumed(s, t) /\ NodeTypes(t) /\ ~(t.paused /\ t.mhBackoff # Off)
           ctrl == Start(s, "mhDefer", setup.SIFS)
           wait == IF BackoffBusy(s) THEN s ELSE Contend(s, r)
           u == CASE s.pktCTRL # None -> ctrl
                  [] s.pktCTRL = None /\ s.pktRTS # None -> wait
                  [] s.pktCTRL = None /\ s.pktRTS = None /\ s.pktTx # None ->
                       IF BackoffBusy(s) THEN s
                       ELSE IF UsesRTS(s.pktTx) THEN ctrl ELSE Contend(s, r)
                  [] OTHER -> IF s.callback THEN resume(s, r) ELSE s
<1>0. tx_resume(s, r) = setTxState(u, "IDLE")
  BY DEF tx_resume
<1>s. NodeTypes(s) /\ Holding(s) /\ DOMAIN s = Fields /\ ~(s.paused /\ s.mhBackoff # Off)
  BY DEF Ready, NodeTypes
<1>1. ~Cleared(s) => Step(s)
  <2>1. s.mhDefer # 0
    BY DEF Off
  <2> QED BY <1>s, <2>1 DEF Resumed, Waiting
<1>2. s.pktCTRL # None \/ (Cleared(s) /\ ~BackoffBusy(s)) => Step(ctrl)
  <2>1. setup.SIFS \in Nat /\ setup.SIFS # 0 /\ "mhDefer" \in Timers
    BY DEF Params, Numbers, Timers
  <2>f. ctrl.failed = FALSE
    <3>1. s.failed = FALSE
      BY DEF Sound
    <3> QED BY <1>s, <2>1, <3>1, StartSafe
  <2>e. Only(s, ctrl, {"mhDefer", "failed"}) /\ ctrl.mhDefer = setup.SIFS /\ NodeTypes(ctrl)
    BY <1>s, <2>1, StartEffect, StartTypes
  <2>2. /\ Only(s, ctrl, {"mhDefer", "failed"}) /\ ctrl.mhDefer = setup.SIFS
        /\ NodeTypes(ctrl) /\ ctrl.failed = FALSE
    BY <2>f, <2>e
  <2> HIDE DEF ctrl
  <2>3. setup.SIFS # Off
    BY <2>1, IsTimerNat
  <2>4. /\ Durations(ctrl) /\ (Cleared(ctrl) <=> Cleared(s)) /\ ctrl.pktCTRL = s.pktCTRL
    BY <2>2, SamePackets DEF Sound
  <2>5. ctrl.mhBackoff = s.mhBackoff /\ ctrl.paused = s.paused
    BY <2>2 DEF Only
  <2>6. (BackoffBusy(ctrl) <=> BackoffBusy(s)) /\ Sound(ctrl)
    BY <2>2, <2>4, <2>5 DEF BackoffBusy, Sound
  <2>7. s.pktCTRL # None \/ Cleared(s) => Resumed(s, ctrl)
    BY <2>1, <2>2, <2>3, <2>4, <2>6 DEF Resumed, Waiting
  <2> QED BY <1>s, <2>2, <2>5, <2>7
<1>3. ~Cleared(s) /\ ~BackoffBusy(s) => Step(Contend(s, r))
  <2> SUFFICES ASSUME ~Cleared(s), ~BackoffBusy(s) PROVE Step(Contend(s, r))
    OBVIOUS
  <2> DEFINE t == Contend(s, r)
  <2>1. NodeTypes(t) /\ Only(s, t, Backoff \cup {"mhDefer"}) /\ Waits(s, t)
    BY <1>s, ContendEffect
  <2>2. t.failed = FALSE /\ t.mhBackoff # 0 /\ t.mhDefer = Off
    BY <1>s, ContendSafe DEF Sound
  <2> HIDE DEF t
  <2>3. Durations(t) /\ ~Cleared(t)
    BY <2>1, SamePackets DEF Sound, Backoff
  <2>4. ~(t.paused /\ t.mhBackoff # Off)
    BY <2>1 DEF Waits
  <2>5. t.mhDefer # 0
    BY <2>2 DEF Off
  <2> QED BY <2>1, <2>2, <2>3, <2>4, <2>5 DEF t, Resumed, Waiting, Sound
<1>4. s.pktTx = None /\ s.pktRTS = None /\ s.callback => Step(resume(s, r))
  <2> SUFFICES ASSUME s.pktTx = None, s.pktRTS = None, s.callback PROVE Step(resume(s, r))
    OBVIOUS
  <2> DEFINE t == resume(s, r)
  <2>1. NodeTypes(t) /\ Pauses(s, t)
    BY <1>s, ResumeQueue
  <2>2. Sound(t) /\ ~Cleared(t) /\ t.mhDefer = Off
    BY <1>s, QueueSafe
  <2> HIDE DEF t
  <2>3. ~(t.paused /\ t.mhBackoff # Off)
    BY <1>s, <2>1 DEF Pauses, Waits, BackoffBusy
  <2>4. t.mhDefer # 0
    BY <2>2 DEF Off
  <2> QED BY <2>1, <2>2, <2>3, <2>4 DEF t, Resumed, Waiting
<1> HIDE DEF Step, ctrl
<1>5. Step(u)
  BY <1>1, <1>2, <1>3, <1>4, <1>s DEF Cleared, Holding
<1> HIDE DEF u
<1> DEFINE t == setTxState(u, "IDLE")
<1>6. /\ Only(u, t, {"tx_state", "mhBackoff", "paused", "left"})
      /\ BackoffBusy(t) <=> BackoffBusy(u)
  BY <1>5, SetTxEffect DEF Step
<1>7. t.mhBackoff # 0
  BY <1>5, SetSafe DEF Step, Resumed, Sound
<1> HIDE DEF t
<1>8. /\ t.pktCTRL = u.pktCTRL /\ (Durations(t) <=> Durations(u))
      /\ (Cleared(t) <=> Cleared(u))
  BY <1>6, SamePackets
<1>9. t.mhDefer = u.mhDefer /\ t.failed = u.failed
  BY <1>6 DEF Only
<1>10. Resumed(s, t)
  BY <1>5, <1>6, <1>7, <1>8, <1>9 DEF Step, Resumed, Sound, Waiting
<1> QED BY <1>0, <1>10 DEF t

\* setTxState() neither starts nor ends a backoff.
LEMMA SetTxBusy ==
  ASSUME Params, NEW s, NodeTypes(s), ~(s.paused /\ s.mhBackoff # Off),
         NEW v \in {"IDLE", "RTS", "CTS", "SEND", "ACK"}
  PROVE  LET t == setTxState(s, v) IN
         /\ NodeTypes(t)
         /\ Only(s, t, {"tx_state", "mhBackoff", "paused", "left"})
         /\ t.tx_state = v
         /\ BackoffBusy(t) <=> BackoffBusy(s)
  BY SetTxEffect

\* A transmission by a node whose interface is free
LEMMA TransmitTimely ==
  ASSUME Params, NEW s, NodeInv(s), Receiving(s), s.tx_state = "IDLE", s.mhDefer = Off,
         s.mhIF = Off, s.failed = FALSE, Durations(s), Cleared(s) => ~BackoffBusy(s),
         NEW v \in {"RTS", "SEND", "CTS", "ACK"}, NEW p, GoodFrame(p), NEW k \in Nat,
         MayTransmit(s, v), p.time <= k, v = "ACK" => p.time = k,
         Cleared(s) => v \in {"SEND", "ACK"},
         s.pktCTRL # None /\ s.pktCTRL.type = "CTS" => v = "CTS"
  PROVE  TimingInv(transmit(setTxState(s, v), p, k))
<1> DEFINE u == setTxState(s, v)
           t == transmit(u, p, k)
<1>1. NodeTypes(s) /\ OnAir(s) /\ ~(s.paused /\ s.mhBackoff # Off)
  BY DEF NodeInv, Contending
<1>v. v \in {"IDLE", "RTS", "CTS", "SEND", "ACK"}
  OBVIOUS
<1>2. /\ NodeTypes(u)
      /\ Only(s, u, {"tx_state", "mhBackoff", "paused", "left"})
      /\ u.tx_state = v
      /\ BackoffBusy(u) <=> BackoffBusy(s)
  BY <1>1, <1>v, SetTxBusy
<1>3. Only(s, t, Backoff \cup Transmission) /\ t.tx_state = v
  BY TransmitInv
<1> HIDE DEF u
<1>4. RxThere(u) /\ u.mhSend = Off /\ u.mhIF = Off /\ u.failed = FALSE
  BY <1>1, <1>2 DEF Only, Receiving, RxThere, OnAir
<1>5. /\ t.failed = FALSE /\ t.tx_active = TRUE /\ t.mhSend = k /\ t.mhIF = p.time
      /\ ~Hearable(t)
  BY <1>2, <1>4, TransmitSafe
<1>6. Only(u, t, {"tx_active", "out", "pktRx", "mhSend", "mhIF", "failed"})
  BY <1>2, <1>4, TransmitEffect
<1>7. TimingInv(t)
  <2> HIDE DEF t
  <2>1. /\ t.pktCTRL = s.pktCTRL /\ Durations(t) /\ (Cleared(t) <=> Cleared(s))
    BY <1>3, SamePackets DEF Backoff, Transmission
  <2>2. t.mhDefer = Off
    BY <1>3 DEF Only, Backoff, Transmission
  <2>3. BackoffBusy(t) <=> BackoffBusy(s)
    BY <1>2, <1>6 DEF Only, BackoffBusy
  <2>4. p.time \in Nat
    BY DEF GoodFrame, Frames
  <2>5. Radio(t)
    <3>1. p.time # Off
      BY <2>4, IsTimerNat
    <3> QED BY <1>3, <1>5, <2>4, <3>1 DEF Radio
  <2>6. Clearance(t)
    BY <1>3, <2>1, <2>2, <2>3 DEF Clearance, Waiting
  <2> QED BY <1>5, <2>1, <2>5, <2>6 DEF TimingInv, Sending, Unanswered
<1> QED BY <1>7 DEF u

\* A silent node whose packet no CTS has cleared
LEMMA SilentTimely ==
  ASSUME NEW s, s.tx_state = "IDLE", s.mhDefer = Off,
         s.tx_active = FALSE, s.mhIF = Off, s.failed = FALSE, Durations(s), ~Cleared(s)
  PROVE  TimingInv(s)
  BY DEF TimingInv, Sending, Radio, Clearance, Unanswered, Waiting

\* A node that backs off, with a packet that no CTS has cleared
LEMMA BackOffTimely ==
  ASSUME Params, NEW s, NodeTypes(s), s.tx_state = "IDLE", s.mhDefer = Off,
         s.tx_active = FALSE, s.mhIF = Off, s.failed = FALSE,
         ~BackoffBusy(s), ~is_idle(s), Durations(s), ~Cleared(s), NEW r \in Nat
  PROVE  TimingInv(StartBackoff(inc_cw(s), r, 0))
<1> DEFINE u == inc_cw(s)
           t == StartBackoff(u, r, 0)
<1>1. NodeTypes(u) /\ Only(s, u, {"cw"})
  BY CwEffect
<1> HIDE DEF u
<1>2. u.mhBackoff = Off /\ u.failed = FALSE /\ ~is_idle(u) /\ 0 \in Nat
  BY <1>1 DEF Only, BackoffBusy, is_idle
<1>3. Only(u, t, Backoff)
  BY <1>1, <1>2, StartBackoffEffect DEF Backoff
<1>4. t.failed = FALSE
  BY <1>1, <1>2, BackoffSafe
<1>5. TimingInv(t)
  <2> HIDE DEF t
  <2>1. Durations(t) /\ ~Cleared(t)
    BY <1>1, <1>3 DEF Only, Backoff, Durations, Cleared
  <2>2. /\ t.tx_state = "IDLE" /\ t.mhDefer = Off /\ t.tx_active = FALSE /\ t.mhIF = Off
    BY <1>1, <1>3 DEF Only, Backoff
  <2> QED BY <1>4, <2>1, <2>2, SilentTimely
<1> QED BY <1>5 DEF u


\* check_pktRTS() and check_pktTx() find the interface free.
LEMMA SendPendingTimely ==
  ASSUME Params, NEW s, NodeInv(s), Receiving(s), s.tx_state = "IDLE", s.mhDefer = Off,
         s.tx_active = FALSE, s.mhIF = Off, s.failed = FALSE, Durations(s),
         ~BackoffBusy(s), s.pktCTRL = None, NEW r \in Nat
  PROVE  TimingInv(SendPending(s, r))
<1>0. NodeTypes(s) /\ Holding(s)
  BY DEF NodeInv
<1>p. /\ setup.rts \in Nat /\ setup.MaxPropagation \in Nat /\ setup.SIFS \in Nat
      /\ setup.cts \in Nat /\ setup.ack \in Nat
  BY DEF Params, Numbers
<1>1. CASE s.pktRTS # None /\ is_idle(s)
  <2>1. SendPending(s, r) = transmit(setTxState(s, "RTS"), s.pktRTS, RtsTimeout)
    BY <1>1 DEF SendPending, check_pktRTS
  <2>2. GoodFrame(s.pktRTS) /\ s.pktRTS.time = setup.rts
    BY <1>0, <1>1 DEF NodeTypes, IsRTS, Durations
  <2>3. RtsTimeout \in Nat /\ s.pktRTS.time <= RtsTimeout
    BY <1>p, <2>2 DEF RtsTimeout
  <2>4. MayTransmit(s, "RTS") /\ ~Cleared(s)
    BY <1>1 DEF MayTransmit, Cleared
  <2>5. ASSUME NEW k \in Nat, s.pktRTS.time <= k
        PROVE  TimingInv(transmit(setTxState(s, "RTS"), s.pktRTS, k))
    BY <2>2, <2>4, <2>5, TransmitTimely
  <2> QED BY <2>1, <2>3, <2>5
<1>2. CASE s.pktRTS # None /\ ~is_idle(s)
  <2>1. SendPending(s, r) = StartBackoff(inc_cw(s), r, 0)
    BY <1>2 DEF SendPending, check_pktRTS
  <2>2. ~Cleared(s)
    BY <1>2 DEF Cleared
  <2> QED BY <1>0, <1>2, <2>1, <2>2, BackOffTimely
<1>3. CASE s.pktRTS = None /\ s.pktTx # None /\ is_idle(s)
  <2>1. SendPending(s, r) = transmit(setTxState(s, "SEND"), s.pktTx, DataTimeout(s.pktTx))
    BY <1>3 DEF SendPending, check_pktTx
  <2>2. GoodFrame(s.pktTx)
    BY <1>0, <1>3 DEF NodeTypes, IsTx, GoodData
  <2>3. DataTimeout(s.pktTx) \in Nat /\ s.pktTx.time <= DataTimeout(s.pktTx)
    <3>1. s.pktTx.time \in Nat
      BY <2>2 DEF GoodFrame, Frames
    <3> QED BY <1>p, <3>1 DEF DataTimeout
  <2>4. MayTransmit(s, "SEND")
    BY <1>3 DEF MayTransmit
  <2>5. ASSUME NEW k \in Nat, s.pktTx.time <= k
        PROVE  TimingInv(transmit(setTxState(s, "SEND"), s.pktTx, k))
    BY <2>2, <2>4, <2>5, TransmitTimely
  <2> QED BY <2>1, <2>3, <2>5
<1>4. CASE s.pktRTS = None /\ s.pktTx # None /\ ~is_idle(s)
  <2> DEFINE u == sendRTS(s)
  <2>1. SendPending(s, r) = StartBackoff(inc_cw(u), r, 0)
    BY <1>4 DEF SendPending, check_pktTx
  <2>2. NodeTypes(u) /\ Only(s, u, {"pktRTS"}) /\ Durations(u) /\ ~Cleared(u)
    BY <1>0, <1>4, RTSEffect, RTSSafe
  <2> HIDE DEF u
  <2>3. /\ u.tx_state = "IDLE" /\ u.mhDefer = Off /\ u.tx_active = FALSE /\ u.mhIF = Off
        /\ u.failed = FALSE
    BY <2>2 DEF Only
  <2>4. ~BackoffBusy(u) /\ ~is_idle(u)
    BY <1>4, <2>2 DEF Only, BackoffBusy, is_idle
  <2> QED BY <2>1, <2>2, <2>3, <2>4, BackOffTimely
<1>5. CASE s.pktRTS = None /\ s.pktTx = None
  <2>1. SendPending(s, r) = s /\ ~Cleared(s)
    BY <1>5 DEF SendPending, Cleared
  <2> QED BY <2>1, SilentTimely
<1> QED BY <1>1, <1>2, <1>3, <1>4, <1>5

\* backoffHandler() transmits only when the interface is free: had mhSend_
\* expired at the same instant, the backoff would not expire at it.
LEMMA BackoffHandlerTimely ==
  ASSUME Params, NEW s, NodeInv(s), Receiving(s), TimingInv(s), s.mhBackoff = 0,
         NEW r \in Nat
  PROVE  TimingInv(backoffHandler([s EXCEPT !["mhBackoff"] = Off], r))
<1> DEFINE u == [s EXCEPT !["mhBackoff"] = Off]
<1>0. s.mhBackoff # Off
  BY DEF Off
<1>1. NodeInv(u) /\ Receiving(u) /\ Only(s, u, {"mhBackoff"}) /\ u.mhBackoff = Off
  BY OffInv
<1> HIDE DEF u
<1>2. s.tx_state = "IDLE" /\ ~BackoffBusy(u) /\ BackoffBusy(s)
      /\ (s.pktCTRL = None => s.mhDefer = Off)
  BY <1>0, <1>1 DEF NodeInv, Contending, BackoffBusy, Only
<1>3. s.tx_active = FALSE /\ s.mhIF = Off /\ s.failed = FALSE /\ Durations(s) /\ ~Cleared(s)
  <2>1. s.tx_active \in BOOLEAN
    BY DEF NodeInv, NodeTypes, IsBool
  <2> QED BY <1>2, <2>1 DEF TimingInv, Sending, Radio, Clearance
<1>4. /\ u.tx_state = "IDLE" /\ u.tx_active = FALSE /\ u.mhIF = Off /\ u.failed = FALSE
      /\ u.pktCTRL = s.pktCTRL /\ u.mhDefer = s.mhDefer /\ Durations(u) /\ ~Cleared(u)
  BY <1>1, <1>2, <1>3 DEF Only, Durations, Cleared
<1>5. CASE u.pktCTRL # None
  <2>1. backoffHandler(u, r) = u
    BY <1>5 DEF backoffHandler
  <2>2. Radio(u) /\ Clearance(u)
    BY <1>4, <1>5 DEF Radio, Clearance, Waiting
  <2>3. Unanswered(u)
    BY <1>4, <1>5 DEF Unanswered, Waiting
  <2> QED BY <1>4, <2>1, <2>2, <2>3 DEF TimingInv, Sending, u
<1>6. CASE u.pktCTRL = None
  <2>1. backoffHandler(u, r) = SendPending(u, r)
    BY <1>6 DEF backoffHandler
  <2>2. TimingInv(SendPending(u, r))
    BY <1>1, <1>2, <1>4, <1>6, SendPendingTimely
  <2> QED BY <2>1, <2>2 DEF u
<1> QED BY <1>5, <1>6

\* deferHandler() does so too.
LEMMA DeferHandlerTimely ==
  ASSUME Params, NEW s, NodeInv(s), Receiving(s), TimingInv(s), s.mhDefer = 0,
         NEW r \in Nat
  PROVE  TimingInv(deferHandler([s EXCEPT !["mhDefer"] = Off], r))
<1> DEFINE u == [s EXCEPT !["mhDefer"] = Off]
<1>0. s.mhDefer # Off
  BY DEF Off
<1>1. NodeInv(u) /\ Receiving(u) /\ Only(s, u, {"mhDefer"}) /\ u.mhDefer = Off
  BY OffInv
<1> HIDE DEF u
<1>2. s.tx_state = "IDLE" /\ (u.pktCTRL = None => ~BackoffBusy(u))
  BY <1>0, <1>1 DEF NodeInv, Contending, BackoffBusy, Only
<1>3. /\ s.tx_active = FALSE /\ s.mhIF = Off /\ s.failed = FALSE /\ Durations(s)
      /\ Cleared(s) => ~BackoffBusy(s)
      /\ Cleared(s) /\ s.pktCTRL # None => s.pktCTRL.type = "ACK"
  <2>1. s.tx_active \in BOOLEAN
    BY DEF NodeInv, NodeTypes, IsBool
  <2>2. s.tx_active = FALSE /\ s.mhIF = Off /\ s.failed = FALSE
    BY <1>2, <2>1 DEF TimingInv, Sending, Radio
  <2>3. Cleared(s) /\ s.pktCTRL # None => s.pktCTRL.type = "ACK"
    BY <1>2 DEF TimingInv, Sending, Clearance, Waiting
  <2> QED BY <2>2, <2>3 DEF TimingInv, Sending, Clearance
<1>4. /\ u.tx_state = "IDLE" /\ u.tx_active = FALSE /\ u.mhIF = Off /\ u.failed = FALSE
      /\ u.pktCTRL = s.pktCTRL /\ Durations(u) /\ (Cleared(u) <=> Cleared(s))
      /\ BackoffBusy(u) <=> BackoffBusy(s)
  BY <1>1, <1>2, <1>3 DEF Only, Durations, Cleared, BackoffBusy
<1>5. CASE u.pktCTRL # None
  <2>0. GoodFrame(u.pktCTRL) /\ u.pktCTRL.type \in {"CTS", "ACK"}
    BY <1>1, <1>5 DEF NodeInv, NodeTypes, IsCTRL
  <2>1. deferHandler(u, r) = check_pktCTRL(u)
    BY <1>4, <1>5 DEF deferHandler, CtrlReady
  <2>2. CASE u.pktCTRL.type = "ACK"
    <3>1. check_pktCTRL(u) = transmit(setTxState(u, "ACK"), u.pktCTRL, setup.ack)
      BY <2>2 DEF check_pktCTRL
    <3>2. setup.ack \in Nat /\ u.pktCTRL.time = setup.ack
      BY <1>4, <1>5, <2>2 DEF Params, Numbers, Durations
    <3>3. MayTransmit(u, "ACK") /\ u.pktCTRL.type # "CTS"
      BY <1>5, <2>2 DEF MayTransmit
    <3>4. ASSUME NEW k \in Nat, u.pktCTRL.time = k
          PROVE  TimingInv(transmit(setTxState(u, "ACK"), u.pktCTRL, k))
      <4>1. u.pktCTRL.time <= k
        BY <3>4
      <4>2. Cleared(u) => ~BackoffBusy(u)
        BY <1>3, <1>4
      <4>3. "ACK" \in {"RTS", "SEND", "CTS", "ACK"} /\ "ACK" \in {"SEND", "ACK"}
        OBVIOUS
      <4> QED BY <1>1, <1>4, <2>0, <3>3, <3>4, <4>1, <4>2, <4>3, TransmitTimely
    <3> QED BY <2>1, <3>1, <3>2, <3>4 DEF u
  <2>3. CASE u.pktCTRL.type = "CTS" /\ is_idle(u)
    <3>1. check_pktCTRL(u) = transmit(setTxState(u, "CTS"), u.pktCTRL, CtsTimeout(u.pktCTRL))
      BY <2>3 DEF check_pktCTRL
    <3>2. CtsTimeout(u.pktCTRL) \in Nat /\ u.pktCTRL.time <= CtsTimeout(u.pktCTRL)
      <4>1. /\ setup.ack \in Nat /\ setup.cts \in Nat /\ setup.SIFS \in Nat
            /\ setup.MaxPropagation \in Nat
        BY DEF Params, Numbers
      <4>2. u.pktCTRL.dur \in Nat /\ u.pktCTRL.time = setup.cts
        BY <1>4, <1>5, <2>0, <2>3 DEF GoodFrame, Frames, Durations
      <4>3. u.pktCTRL.dur >= 2 * setup.SIFS + setup.ack
        BY <2>0, <2>3 DEF GoodFrame, GoodDur
      <4> QED BY <4>1, <4>2, <4>3 DEF CtsTimeout
    <3>3. MayTransmit(u, "CTS") /\ ~Cleared(u)
      BY <1>3, <1>4, <1>5, <2>3 DEF MayTransmit
    <3>4. ASSUME NEW k \in Nat, u.pktCTRL.time <= k
          PROVE  TimingInv(transmit(setTxState(u, "CTS"), u.pktCTRL, k))
      BY <1>1, <1>4, <2>0, <3>3, <3>4, TransmitTimely
    <3> QED BY <2>1, <3>1, <3>2, <3>4 DEF u
  <2>4. CASE u.pktCTRL.type = "CTS" /\ ~is_idle(u)
    <3> DEFINE t == [u EXCEPT !.pktCTRL = None]
    <3>1. check_pktCTRL(u) = t
      BY <2>4 DEF check_pktCTRL
    <3>2. Only(u, t, {"pktCTRL"}) /\ t.pktCTRL = None
      BY <1>1 DEF Only, NodeInv, NodeTypes, Fields
    <3> HIDE DEF t
    <3>3. ~Cleared(u)
      BY <1>3, <1>4, <1>5, <2>4
    <3>4. /\ t.tx_state = "IDLE" /\ t.mhDefer = Off /\ t.tx_active = FALSE /\ t.mhIF = Off
          /\ t.failed = FALSE /\ Durations(t) /\ ~Cleared(t)
      BY <1>1, <1>4, <3>2, <3>3 DEF Only, Durations, Cleared
    <3> QED BY <2>1, <3>1, <3>4, SilentTimely DEF u
  <2> QED BY <2>0, <2>2, <2>3, <2>4
<1>6. CASE u.pktCTRL = None
  <2>1. deferHandler(u, r) = SendPending(u, r)
    BY <1>6 DEF deferHandler, CtrlReady
  <2>2. TimingInv(SendPending(u, r))
    BY <1>1, <1>2, <1>4, <1>6, SendPendingTimely
  <2> QED BY <2>1, <2>2 DEF u
<1> QED BY <1>5, <1>6

\* Fields that no timer depends on
Untimed == {"mhNav", "left", "cw", "ssrc", "slrc", "sta_seqno", "cache", "callback",
            "ifq", "out", "up", "over"}

\* A change of those does not matter,
LEMMA SameTimely ==
  ASSUME NEW s, TimingInv(s), NEW t, Only(s, t, Untimed)
  PROVE  TimingInv(t)
<1>1. Radio(t) /\ Durations(t)
  BY DEF Only, Untimed, TimingInv, Sending, Radio, Durations
<1>2. (Waiting(t) <=> Waiting(s)) /\ (Cleared(t) <=> Cleared(s))
      /\ (BackoffBusy(t) <=> BackoffBusy(s)) /\ (Hearable(t) <=> Hearable(s))
  BY DEF Only, Untimed, Waiting, Cleared, BackoffBusy, Hearable
<1>3. t.tx_state = s.tx_state /\ t.pktCTRL = s.pktCTRL /\ t.mhDefer = s.mhDefer
      /\ t.tx_active = s.tx_active /\ t.pktRx = s.pktRx /\ t.mhRecv = s.mhRecv
  BY DEF Only, Untimed
<1>4. Clearance(t) /\ Unanswered(t)
  BY <1>2, <1>3 DEF TimingInv, Sending, Clearance, Unanswered
<1> QED BY <1>1, <1>4 DEF TimingInv, Sending

\* nor, for the sender, what is received or a backoff that is paused or resumed.
LEMMA SameSending ==
  ASSUME NEW s, Sending(s), NEW t,
         Only(s, t, {"rx_state", "pktRx", "mhRecv", "mhNav", "mhBackoff", "paused", "left",
                     "cache", "up"}),
         s.mhBackoff # 0 => t.mhBackoff # 0, BackoffBusy(t) <=> BackoffBusy(s)
  PROVE  Sending(t)
<1>1. Radio(t) /\ Durations(t)
  BY DEF Only, Sending, Radio, Durations
<1>2. (Waiting(t) <=> Waiting(s)) /\ (Cleared(t) <=> Cleared(s))
  BY DEF Only, Waiting, Cleared
<1>3. t.tx_state = s.tx_state /\ t.pktCTRL = s.pktCTRL /\ t.mhDefer = s.mhDefer
  BY DEF Only
<1>4. Clearance(t)
  BY <1>2, <1>3 DEF Sending, Clearance
<1> QED BY <1>1, <1>4 DEF Sending

\* txHandler() frees the interface.
LEMMA TxHandlerTimely ==
  ASSUME NEW s, NodeInv(s), Receiving(s), TimingInv(s), s.mhIF = 0
  PROVE  TimingInv(txHandler([s EXCEPT !["mhIF"] = Off]))
<1> DEFINE t == txHandler([s EXCEPT !["mhIF"] = Off])
<1>1. Only(s, t, {"mhIF", "tx_active"})
  BY TxHandlerInv
<1>2. t.mhIF = Off /\ t.tx_active = FALSE
  BY DEF txHandler, NodeInv, NodeTypes, Fields
<1> HIDE DEF t
<1>3. s.tx_active /\ (s.tx_state = "ACK" => s.mhSend = 0)
  BY DEF TimingInv, Sending, Radio, Off
<1>4. /\ t.tx_state = s.tx_state /\ t.mhSend = s.mhSend /\ t.failed = s.failed
      /\ t.pktCTRL = s.pktCTRL /\ t.mhDefer = s.mhDefer
      /\ t.pktRx = s.pktRx /\ t.mhRecv = s.mhRecv
  BY <1>1 DEF Only
<1>5. (Waiting(t) <=> Waiting(s)) /\ (Cleared(t) <=> Cleared(s))
      /\ (BackoffBusy(t) <=> BackoffBusy(s)) /\ (Hearable(t) <=> Hearable(s))
      /\ (Durations(t) <=> Durations(s))
  BY <1>1 DEF Only, Waiting, Cleared, BackoffBusy, Hearable, Durations
<1>6. Radio(t)
  BY <1>2, <1>3, <1>4 DEF TimingInv, Sending, Radio
<1>7. Clearance(t) /\ Unanswered(t)
  BY <1>2, <1>4, <1>5 DEF TimingInv, Sending, Clearance, Unanswered
<1> QED BY <1>5, <1>6, <1>7 DEF TimingInv, Sending, t

\* The end of the NAV resumes a backoff, which does not end at once.
LEMMA NavHandlerTimely ==
  ASSUME Params, NEW s, NodeInv(s), Receiving(s), TimingInv(s)
  PROVE  TimingInv(navHandler([s EXCEPT !["mhNav"] = Off]))
<1> DEFINE u == [s EXCEPT !["mhNav"] = Off]
           t == navHandler(u)
<1>1. Only(s, u, {"mhNav"}) /\ u.mhNav = Off
  BY DEF Only, NodeInv, NodeTypes, Fields
<1> HIDE DEF u
<1>2. NodeTypes(u)
  <2>1. IsTimer(Off)
    BY DEF IsTimer
  <2> QED BY <1>1, <2>1 DEF NodeInv, NodeTypes, Only
<1>3. CASE is_idle(u) /\ u.paused
  <2>1. t = ResumeBackoff(u)
    BY <1>3 DEF navHandler
  <2>2. Only(u, t, {"mhBackoff", "paused"}) /\ t.mhBackoff # Off /\ t.mhBackoff # 0
    BY <1>2, <2>1, ResumeEffect, ResumeSafe
  <2> HIDE DEF t
  <2>3. Only(s, t, {"rx_state", "pktRx", "mhRecv", "mhNav", "mhBackoff", "paused", "left",
                    "cache", "up"})
    BY <1>1, <2>2 DEF Only
  <2>4. BackoffBusy(t) /\ BackoffBusy(s)
    BY <1>1, <1>3, <2>2 DEF BackoffBusy, Only
  <2>5. Sending(t)
    BY <2>2, <2>3, <2>4, SameSending DEF TimingInv
  <2>6. /\ t.tx_state = s.tx_state /\ t.pktCTRL = s.pktCTRL /\ t.mhDefer = s.mhDefer
        /\ t.tx_active = s.tx_active /\ t.pktRx = s.pktRx /\ t.mhRecv = s.mhRecv
        /\ t.rx_state = s.rx_state
    BY <1>1, <2>2 DEF Only
  <2>7. Unanswered(t)
    BY <2>6 DEF TimingInv, Unanswered, Hearable, Waiting
  <2> QED BY <2>5, <2>7 DEF TimingInv, t, u
<1>4. CASE ~(is_idle(u) /\ u.paused)
  <2>1. t = u
    BY <1>4 DEF navHandler
  <2>2. Only(s, u, Untimed)
    BY <1>1 DEF Only, Untimed
  <2> QED BY <2>1, <2>2, SameTimely DEF u
<1> QED BY <1>3, <1>4

\* A backoff after a transmission
LEMMA BackOffSound ==
  ASSUME Params, NEW s, NodeTypes(s), Sound(s), s.mhBackoff = Off, ~is_idle(s), NEW r \in Nat
  PROVE  LET t == StartBackoff(s, r, 0) IN Sound(t) /\ (Cleared(t) <=> Cleared(s))
<1> DEFINE t == StartBackoff(s, r, 0)
<1>0. 0 \in Nat /\ s.failed = FALSE
  BY DEF Sound
<1>1. t.failed = FALSE /\ t.mhBackoff # 0
  BY <1>0, BackoffSafe
<1>2. Only(s, t, Backoff)
  BY <1>0, StartBackoffEffect DEF Backoff
<1> HIDE DEF t
<1>3. Durations(t) /\ (Cleared(t) <=> Cleared(s))
  BY <1>2, SamePackets DEF Backoff, Sound
<1> QED BY <1>1, <1>3 DEF Sound, t

\* Giving a packet up starts no timer.
LEMMA GiveUpSound ==
  ASSUME Params, NEW s, NodeTypes(s), s.pktTx # None, Sound(s),
         NEW why \in {"ACKED", "NO_ACK", "NO_CTS", "SENT"}
  PROVE  LET t == GiveUp(s, why) IN Sound(t) /\ ~Cleared(t)
<1> DEFINE t == GiveUp(s, why)
<1>1. Only(s, t, {"pktTx", "over", "cw"}) /\ t.pktTx = None
  BY GiveUpEffect
<1> HIDE DEF t
<1>2. Sound(t) /\ ~Cleared(t)
  BY <1>1 DEF Only, Sound, Durations, Cleared
<1> QED BY <1>2 DEF t

\* RetransmitRTS() starts no timer that is busy.
LEMMA RetransmitRTSSound ==
  ASSUME Params, NEW s, Ended(s), s.tx_state = "RTS", Sound(s), NEW r \in Nat
  PROVE  LET t == RetransmitRTS(s, r) IN Sound(t) /\ ~Cleared(t)
<1>0. NodeTypes(s) /\ s.pktTx # None /\ s.pktRTS # None /\ ~BackoffBusy(s)
  BY DEF Ended, Holding, Contending
<1>1. CASE s.ssrc + 1 >= setup.ShortRetryLimit
  <2> DEFINE u == [s EXCEPT !.pktRTS = None, !.ssrc = 0]
  <2>1. RetransmitRTS(s, r) = GiveUp(u, "NO_CTS")
    BY <1>1 DEF RetransmitRTS
  <2>2. Only(s, u, {"pktRTS", "ssrc"}) /\ u.pktRTS = None /\ u.ssrc = 0
    BY <1>0 DEF Only, NodeTypes, Fields
  <2> HIDE DEF u
  <2>3. IsRTS(u.pktRTS)
    BY <2>2, NoneTypes
  <2>4. NodeTypes(u) /\ u.pktTx # None
    BY <1>0, <2>2, <2>3 DEF Only, NodeTypes
  <2>5. Sound(u)
    BY <2>2 DEF Only, Sound, Durations
  <2> QED BY <2>1, <2>4, <2>5, GiveUpSound
<1>2. CASE ~(s.ssrc + 1 >= setup.ShortRetryLimit)
  <2> DEFINE k == s.ssrc + 1
             u == [s EXCEPT !.ssrc = k]
             v == inc_cw(u)
  <2>1. RetransmitRTS(s, r) = StartBackoff(v, r, 0)
    BY <1>2 DEF RetransmitRTS
  <2>k. k \in Nat
    BY <1>0 DEF NodeTypes
  <2> HIDE DEF k
  <2>2. Only(s, u, {"ssrc"}) /\ u.ssrc = k
    BY <1>0 DEF Only, NodeTypes, Fields
  <2> HIDE DEF u
  <2>3. NodeTypes(u)
    BY <1>0, <2>2, <2>k DEF Only, NodeTypes
  <2>4. NodeTypes(v) /\ Only(u, v, {"cw"})
    BY <2>3, CwEffect
  <2> HIDE DEF v
  <2>5. v.mhBackoff = Off /\ ~is_idle(v)
    BY <1>0, <2>2, <2>4 DEF Only, is_idle, BackoffBusy
  <2>6. Sound(v) /\ ~Cleared(v)
    BY <1>0, <2>2, <2>4 DEF Only, Sound, Durations, Cleared
  <2> QED BY <2>1, <2>4, <2>5, <2>6, BackOffSound
<1> QED BY <1>1, <1>2

\* Nor does RetransmitDATA().
LEMMA RetransmitDATASound ==
  ASSUME Params, NEW s, Ended(s), s.tx_state = "SEND", Sound(s), NEW r \in Nat
  PROVE  LET t == RetransmitDATA(s, r) IN Sound(t) /\ ~Cleared(t)
<1>0. NodeTypes(s) /\ s.pktTx # None /\ s.pktRTS = None /\ ~BackoffBusy(s)
  BY DEF Ended, Contending
<1>n. CountOf(s) \in Nat /\ s[Count(s.pktTx)] = CountOf(s) /\ Limit(s.pktTx) \in Nat
  BY <1>0, CountEffect DEF Limit, Params, Numbers
<1>1. CASE s.pktTx.ra = MAC_BROADCAST
  <2> DEFINE v == GiveUp(s, "SENT")
  <2>1. RetransmitDATA(s, r) = StartBackoff(v, r, 0)
    BY <1>1 DEF RetransmitDATA, GiveUp
  <2>2. NodeTypes(v) /\ Only(s, v, {"pktTx", "over", "cw"}) /\ Sound(v) /\ ~Cleared(v)
    BY <1>0, GiveUpEffect, GiveUpSound
  <2> HIDE DEF v
  <2>3. v.mhBackoff = Off /\ ~is_idle(v)
    BY <1>0, <2>2 DEF Only, is_idle, BackoffBusy
  <2> QED BY <2>1, <2>2, <2>3, BackOffSound
<1>2. CASE s.pktTx.ra # MAC_BROADCAST /\ CountOf(s) + 1 >= Limit(s.pktTx)
  <2> DEFINE u == [s EXCEPT ![Count(s.pktTx)] = 0]
  <2>1. RetransmitDATA(s, r) = GiveUp(u, "NO_ACK")
    BY <1>2, <1>n DEF RetransmitDATA
  <2>2. NodeTypes(u) /\ Only(s, u, {"ssrc", "slrc"})
    BY <1>0, CountEffect
  <2> HIDE DEF u
  <2>3. u.pktTx # None /\ Sound(u)
    BY <1>0, <2>2 DEF Only, Sound, Durations
  <2> QED BY <2>1, <2>2, <2>3, GiveUpSound
<1>3. CASE s.pktTx.ra # MAC_BROADCAST /\ ~(CountOf(s) + 1 >= Limit(s.pktTx))
  <2> DEFINE k == CountOf(s) + 1
             u == [s EXCEPT ![Count(s.pktTx)] = k]
             w == sendRTS(u)
             v == inc_cw(w)
  <2>1. RetransmitDATA(s, r) = StartBackoff(v, r, 0)
    BY <1>3, <1>n DEF RetransmitDATA
  <2>k. k \in Nat
    BY <1>n
  <2> HIDE DEF k
  <2>2. NodeTypes(u) /\ Only(s, u, {"ssrc", "slrc"})
    BY <1>0, <2>k, CountEffect
  <2> HIDE DEF u
  <2>3. u.pktTx # None /\ Sound(u)
    BY <1>0, <2>2 DEF Only, Sound, Durations
  <2>4. Durations(u)
    BY <2>3 DEF Sound
  <2>5. NodeTypes(w) /\ Only(u, w, {"pktRTS"}) /\ Durations(w) /\ ~Cleared(w)
    BY <2>2, <2>3, <2>4, RTSEffect, RTSSafe
  <2> HIDE DEF w
  <2>6. NodeTypes(v) /\ Only(w, v, {"cw"})
    BY <2>5, CwEffect
  <2> HIDE DEF v
  <2>7. v.mhBackoff = Off /\ ~is_idle(v)
    BY <1>0, <2>2, <2>5, <2>6 DEF Only, is_idle, BackoffBusy
  <2>8. Durations(v) /\ ~Cleared(v)
    BY <2>5, <2>6, SamePackets
  <2>9. Sound(v)
    BY <2>3, <2>5, <2>6, <2>8 DEF Only, Sound
  <2> QED BY <2>1, <2>6, <2>7, <2>8, <2>9, BackOffSound
<1> QED BY <1>1, <1>2, <1>3, <1>n

\* tx_resume() leaves a sender whose interface is free, or becomes so now.
LEMMA ResumeTimely ==
  ASSUME Params, setup.bugFix_timer, NEW s, Ready(s), Sound(s), s.mhDefer = Off,
         Cleared(s) => ~BackoffBusy(s),
         Cleared(s) /\ s.pktCTRL # None => s.pktCTRL.type = "ACK",
         s.tx_active <=> s.mhIF # Off, s.tx_active => s.mhIF = 0, NEW r \in Nat
  PROVE  LET t == tx_resume(s, r) IN
         /\ Sending(t) /\ t.tx_active = s.tx_active /\ t.pktCTRL = s.pktCTRL
         /\ t.rx_state = s.rx_state /\ t.pktRx = s.pktRx /\ t.mhRecv = s.mhRecv
         /\ t.tx_state = "IDLE"
         /\ Waiting(t) => Cleared(s) /\ t.mhDefer = setup.SIFS
<1> DEFINE t == tx_resume(s, r)
<1>1. Resumed(s, t)
  BY TxResumeSafe
<1>2. /\ NodeInv(t) /\ t.tx_state = "IDLE"
      /\ Only(s, t, Taking \cup Backoff \cup {"mhDefer", "ifq", "tx_state"})
  BY TxResume
<1> HIDE DEF t
<1>3. /\ t.tx_active = s.tx_active /\ t.mhIF = s.mhIF /\ t.pktCTRL = s.pktCTRL
      /\ t.rx_state = s.rx_state /\ t.pktRx = s.pktRx /\ t.mhRecv = s.mhRecv
  BY <1>2 DEF Only, Taking, Backoff
<1>4. Radio(t) /\ Durations(t)
  BY <1>1, <1>2, <1>3 DEF Resumed, Sound, Radio
<1>5. Clearance(t)
  <2>1. setup.SIFS \in Nat
    BY DEF Params, Numbers
  <2>2. Waiting(t) => Cleared(t) /\ t.mhDefer <= setup.SIFS
    BY <1>1, <2>1 DEF Resumed
  <2>3. Cleared(t) => Cleared(s) /\ ~BackoffBusy(t) /\ (t.pktCTRL = None => Waiting(t))
    BY <1>1 DEF Resumed, Waiting
  <2> QED BY <1>2, <1>3, <2>2, <2>3 DEF Clearance
<1>6. Waiting(t) => Cleared(s) /\ t.mhDefer = setup.SIFS
  BY <1>1 DEF Resumed
<1> QED BY <1>2, <1>3, <1>4, <1>5, <1>6 DEF Sending, t

\* When mhSend_ expires, the interface is free, or becomes so now.  Only after an
\* ACK does a cleared packet wait, and then no frame that asks is almost over.
LEMMA SendTimerTimely ==
  ASSUME Params, setup.bugFix_timer, NEW s, NodeInv(s), Receiving(s), TimingInv(s),
         s.mhSend = 0, NEW r \in Nat
  PROVE  TimingInv(send_timer([s EXCEPT !["mhSend"] = Off], r))
<1> DEFINE x == [s EXCEPT !["mhSend"] = Off]
           u == CASE x.tx_state = "RTS" -> RetransmitRTS(x, r)
                  [] x.tx_state = "SEND" -> RetransmitDATA(x, r)
                  [] x.tx_state \in {"CTS", "ACK"} -> [x EXCEPT !.pktCTRL = None]
                  [] OTHER -> x
           t == tx_resume(u, r)
<1>0. send_timer(x, r) = t
  BY DEF send_timer
<1>1. s.tx_state # "IDLE" /\ NodeTypes(s) /\ s.mhDefer = Off /\ s.mhBackoff = Off
  BY DEF NodeInv, OnAir, Contending, Off
<1>2. Ended(x) /\ Only(s, x, {"mhSend"})
  BY <1>1, EndedOff
<1> HIDE DEF x
<1>3. /\ x.tx_active <=> x.mhIF # Off
      /\ x.tx_active => x.mhIF = 0
      /\ x.failed = FALSE /\ x.mhDefer = Off /\ x.mhBackoff = Off
      /\ x.tx_active = s.tx_active
  <2>1. /\ x.tx_active = s.tx_active /\ x.mhIF = s.mhIF /\ x.failed = s.failed
        /\ x.mhDefer = Off /\ x.mhBackoff = Off
    BY <1>1, <1>2 DEF Only
  <2>2. IsTimer(s.mhIF)
    BY <1>1 DEF NodeTypes
  <2>3. s.tx_active => s.mhIF = 0
    BY <1>1, <2>2 DEF TimingInv, Sending, Radio, IsTimer
  <2> QED BY <2>1, <2>3 DEF TimingInv, Sending, Radio
<1>4. Durations(x) /\ (Cleared(x) <=> Cleared(s)) /\ x.pktCTRL = s.pktCTRL
  BY <1>2, SamePackets DEF TimingInv, Sending
<1>5. Sound(x)
  BY <1>3, <1>4 DEF Sound, Off
<1>6. /\ Ready(u) /\ Sound(u) /\ Only(x, u, Ending \cup {"pktCTRL"})
      /\ Cleared(u) => /\ Cleared(s) /\ s.tx_state = "ACK" /\ u.pktCTRL = None
                       /\ ~BackoffBusy(u)
  <2>1. CASE x.tx_state = "RTS"
    <3>1. u = RetransmitRTS(x, r)
      BY <2>1
    <3> HIDE DEF u
    <3>2. Ready(u) /\ Only(x, u, Ending) /\ Sound(u) /\ ~Cleared(u)
      BY <1>2, <1>5, <2>1, <3>1, RetransmitRTSEffect, RetransmitRTSSound
    <3>3. Only(x, u, Ending \cup {"pktCTRL"})
      BY <3>2 DEF Only, Ending, Backoff
    <3> QED BY <3>2, <3>3
  <2>2. CASE x.tx_state = "SEND"
    <3>1. u = RetransmitDATA(x, r)
      BY <2>2
    <3> HIDE DEF u
    <3>2. Ready(u) /\ Only(x, u, Ending) /\ Sound(u) /\ ~Cleared(u)
      BY <1>2, <1>5, <2>2, <3>1, RetransmitDATAEffect, RetransmitDATASound
    <3>3. Only(x, u, Ending \cup {"pktCTRL"})
      BY <3>2 DEF Only, Ending, Backoff
    <3> QED BY <3>2, <3>3
  <2>3. CASE x.tx_state \in {"CTS", "ACK"}
    <3>1. u = [x EXCEPT !.pktCTRL = None]
      BY <2>3
    <3> HIDE DEF u
    <3>2. Only(x, u, {"pktCTRL"}) /\ u.pktCTRL = None
      BY <1>2, <3>1 DEF Only, Ended, NodeTypes, Fields
    <3>3. IsCTRL(u.pktCTRL)
      BY <3>2, NoneTypes
    <3>4. NodeTypes(u)
      BY <1>2, <3>2, <3>3 DEF Ended, Only, NodeTypes
    <3>5. Only(x, u, Ending \cup {"pktCTRL"})
      BY <3>2 DEF Only
    <3>6. ~(u.paused /\ u.mhBackoff # Off) /\ (u.pktRTS # None => u.pktTx # None)
          /\ u.pktTx = x.pktTx
      BY <1>2, <3>2 DEF Ended, Only, Contending, Holding
    <3>7. Ready(u)
      BY <1>2, <3>4, <3>5, <3>6, EndedReady
    <3>8. Sound(u) /\ (Cleared(u) <=> Cleared(s))
      BY <1>4, <1>5, <3>2 DEF Only, Sound, Durations, Cleared
    <3>9. BackoffBusy(u) <=> BackoffBusy(s)
      BY <1>2, <3>2 DEF Only, BackoffBusy
    <3>10. s.tx_state = x.tx_state
      BY <1>2 DEF Only
    <3>11. Cleared(s) => s.tx_state = "ACK" /\ ~BackoffBusy(s)
      BY <2>3, <3>10 DEF TimingInv, Sending, Clearance
    <3> QED BY <3>2, <3>5, <3>7, <3>8, <3>9, <3>11
  <2>4. x.tx_state \in {"RTS", "SEND", "CTS", "ACK"}
    BY <1>2 DEF Ended, NodeTypes, IsTxState
  <2> QED BY <2>1, <2>2, <2>3, <2>4
<1> HIDE DEF u
<1>7. /\ u.tx_active = x.tx_active /\ u.mhIF = x.mhIF /\ u.mhDefer = Off
      /\ u.rx_state = s.rx_state /\ u.pktRx = s.pktRx /\ u.mhRecv = s.mhRecv
  BY <1>2, <1>3, <1>6 DEF Only, Ending, Backoff
<1>8. /\ Sending(t) /\ t.tx_active = u.tx_active
      /\ t.rx_state = u.rx_state /\ t.pktRx = u.pktRx /\ t.mhRecv = u.mhRecv
      /\ t.tx_state = "IDLE"
      /\ Waiting(t) => Cleared(u) /\ t.mhDefer = setup.SIFS
  <2>1. Cleared(u) => ~BackoffBusy(u)
    BY <1>6
  <2>2. Cleared(u) /\ u.pktCTRL # None => u.pktCTRL.type = "ACK"
    BY <1>6
  <2>3. Ready(u) /\ Sound(u)
    BY <1>6
  <2> QED BY <1>3, <1>7, <2>1, <2>2, <2>3, ResumeTimely
<1> HIDE DEF t
<1>9. Unanswered(t)
  <2>1. Hearable(t) <=> Hearable(s)
    BY <1>7, <1>8 DEF Hearable
  <2>2. Waiting(t) => s.tx_state = "ACK" /\ t.mhDefer = setup.SIFS
    BY <1>6, <1>8
  <2> QED BY <1>3, <1>7, <1>8, <2>1, <2>2 DEF Unanswered, TimingInv
<1> QED BY <1>0, <1>8, <1>9 DEF TimingInv, x

\* sendCTS() and sendACK() make frames of the right durations.
LEMMA ControlSound ==
  ASSUME Params, NEW s, NodeTypes(s), Sound(s), NEW dst \in Nodes, NEW dur \in Nat
  PROVE  /\ dur < 2^16 /\ dur >= 3 * setup.SIFS + setup.cts + setup.ack
              => Sound(sendCTS(s, dst, dur))
         /\ Sound(sendACK(s, dst))
<1>1. ASSUME dur < 2^16, dur >= 3 * setup.SIFS + setup.cts + setup.ack
      PROVE  Sound(sendCTS(s, dst, dur))
  <2> DEFINE t == sendCTS(s, dst, dur)
  <2>1. Only(s, t, {"pktCTRL"}) /\ t.pktCTRL.type = "CTS"
    BY <1>1, CTSEffect
  <2>2. t.pktCTRL.time = setup.cts
    BY DEF sendCTS, Frame, NodeTypes, Fields
  <2> HIDE DEF t
  <2>3. Sound(t)
    BY <2>1, <2>2 DEF Only, Sound, Durations
  <2> QED BY <2>3 DEF t
<1>2. Sound(sendACK(s, dst))
  <2> DEFINE t == sendACK(s, dst)
  <2>1. Only(s, t, {"pktCTRL"}) /\ t.pktCTRL.type = "ACK"
    BY ACKEffect
  <2>2. t.pktCTRL.time = setup.ack
    BY DEF sendACK, Frame, NodeTypes, Fields
  <2> HIDE DEF t
  <2>3. Sound(t)
    BY <2>1, <2>2 DEF Only, Sound, Durations
  <2> QED BY <2>3 DEF t
<1> QED BY <1>1, <1>2

\* A node that may answer: its interface is free and its backoff does not count.
Listens(s) == Sending(s) /\ s.tx_active = FALSE /\ s.mhBackoff = Off

\* It is sound, and mhIF_ does not run.
LEMMA ListensSound == ASSUME NEW s, Listens(s) PROVE Sound(s) /\ s.mhIF = Off
  BY DEF Listens, Sending, Radio, Sound, Off

\* recvRTS() finds mhDefer_ free when it starts it for the CTS.
LEMMA RecvRTSTimely ==
  ASSUME Params, setup.bugFix_timer, NEW s, NodeInv(s), Listens(s), ~Waiting(s),
         NEW p, GoodFrame(p), p.type = "RTS", NEW r \in Nat
  PROVE  Sending(recvRTS(s, p, r))
<1>0. NodeTypes(s) /\ DOMAIN s = Fields /\ Holding(s)
  BY DEF NodeInv, NodeTypes
<1>1. CASE s.tx_state # "IDLE" \/ s.pktCTRL # None
  <2>1. recvRTS(s, p, r) = s
    BY <1>1 DEF recvRTS
  <2> QED BY <2>1 DEF Listens
<1>2. CASE s.tx_state = "IDLE" /\ s.pktCTRL = None
  <2> DEFINE x == sendCTS(s, p.ta, p.dur)
             u == Stop(x, "mhDefer")
             t == tx_resume(u, r)
  <2>1. recvRTS(s, p, r) = t
    BY <1>2 DEF recvRTS
  <2>2. p.ta \in Nodes /\ p.dur \in Nat
    BY DEF GoodFrame, Frames
  <2>3. p.dur < 2^16 /\ p.dur >= 3 * setup.SIFS + setup.cts + setup.ack
    BY DEF GoodFrame, GoodDur
  <2>s. Sound(s) /\ s.mhIF = Off
    BY ListensSound
  <2>4. /\ NodeTypes(x) /\ Only(s, x, {"pktCTRL"}) /\ x.pktCTRL # None
        /\ Sound(x)
    BY <1>0, <2>2, <2>3, <2>s, CTSEffect, ControlSound
  <2> HIDE DEF x
  <2>5. Only(x, u, {"mhDefer"}) /\ u.mhDefer = Off
    BY <2>4 DEF Stop, Only, NodeTypes, Fields
  <2> HIDE DEF u
  <2>6. IsTimer(Off)
    BY DEF IsTimer
  <2>7. NodeTypes(u)
    BY <2>4, <2>5, <2>6 DEF Only, NodeTypes
  <2>8. Holding(u)
    BY <1>0, <2>4, <2>5 DEF Only, Holding
  <2>9. ~(u.paused /\ u.mhBackoff # Off) /\ u.mhSend = Off
    BY <1>2, <2>4, <2>5 DEF Only, NodeInv, Contending, OnAir
  <2>10. Ready(u)
    BY <2>5, <2>7, <2>8, <2>9 DEF Ready
  <2>11. ~Cleared(s)
    BY <1>2 DEF Listens, Sending, Clearance
  <2>12. Sound(u) /\ ~Cleared(u)
    BY <2>4, <2>5, <2>11 DEF Only, Sound, Durations, Cleared
  <2>13. u.tx_active = FALSE /\ u.mhIF = Off
    BY <2>s, <2>4, <2>5 DEF Only, Listens
  <2> QED BY <2>1, <2>5, <2>10, <2>12, <2>13, ResumeTimely
<1> QED BY <1>1, <1>2

\* recvCTS() clears the packet; an ACK may still come first.
LEMMA RecvCTSTimely ==
  ASSUME Params, setup.bugFix_timer, NEW s, NodeInv(s), Listens(s), NEW p, NEW r \in Nat
  PROVE  Sending(recvCTS(s, p, r))
<1>0. NodeTypes(s) /\ DOMAIN s = Fields /\ Holding(s)
  BY DEF NodeInv, NodeTypes
<1>1. CASE s.tx_state # "RTS"
  <2>1. recvCTS(s, p, r) = s
    BY <1>1 DEF recvCTS
  <2> QED BY <2>1 DEF Listens
<1>2. CASE s.tx_state = "RTS"
  <2> DEFINE x == [s EXCEPT !["mhSend"] = Off]
             u == [x EXCEPT !.pktRTS = None, !.ssrc = 0]
             t == tx_resume(u, r)
  <2>1. recvCTS(s, p, r) = t
    BY <1>2 DEF recvCTS, Stop
  <2>2. Ended(x) /\ Only(s, x, {"mhSend"})
    BY <1>2, EndedOff
  <2> HIDE DEF x
  <2>3. Only(x, u, {"pktRTS", "ssrc"}) /\ u.pktRTS = None /\ u.ssrc = 0
    BY <2>2 DEF Ended, Only, NodeTypes, Fields
  <2> HIDE DEF u
  <2>4. IsRTS(u.pktRTS)
    BY <2>3, NoneTypes
  <2>5. NodeTypes(u)
    BY <2>2, <2>3, <2>4 DEF Ended, Only, NodeTypes
  <2>6. Only(x, u, Ending \cup {"pktCTRL"}) /\ u.pktTx = x.pktTx
    BY <2>3 DEF Only, Ending
  <2>7. ~(u.paused /\ u.mhBackoff # Off)
    BY <2>2, <2>3 DEF Ended, Only, Contending
  <2>8. Ready(u)
    BY <2>2, <2>3, <2>5, <2>6, <2>7, EndedReady
  <2>s. Sound(s) /\ s.mhIF = Off
    BY ListensSound
  <2>9. Sound(u)
    BY <2>2, <2>3, <2>s DEF Only, Sound, Durations
  <2>10. u.tx_active = FALSE /\ u.mhIF = Off /\ u.mhDefer = Off /\ u.pktCTRL = s.pktCTRL
    BY <1>2, <2>2, <2>3, <2>s DEF Only, Listens, NodeInv, Contending
  <2>11. ~BackoffBusy(u)
    BY <1>2, <2>2, <2>3 DEF Only, BackoffBusy, NodeInv, Contending
  <2>12. s.pktCTRL # None => s.pktCTRL.type = "ACK"
    <3>1. s.pktCTRL # None => s.pktCTRL.type \in {"CTS", "ACK"}
      BY <1>0 DEF NodeTypes, IsCTRL
    <3>2. s.pktCTRL # None => s.pktCTRL.type # "CTS"
      BY <1>2 DEF Listens, Sending, Clearance
    <3> QED BY <3>1, <3>2
  <2> QED BY <2>1, <2>8, <2>9, <2>10, <2>11, <2>12, ResumeTimely
<1> QED BY <1>1, <1>2

\* recvACK() starts a backoff that was not under way.
LEMMA RecvACKTimely ==
  ASSUME Params, setup.bugFix_timer, NEW s, NodeInv(s), Listens(s), NEW p, NEW r \in Nat
  PROVE  Sending(recvACK(s, p, r))
<1>1. CASE s.tx_state # "SEND"
  <2>1. recvACK(s, p, r) = s
    BY <1>1 DEF recvACK
  <2> QED BY <2>1 DEF Listens
<1>2. CASE s.tx_state = "SEND"
  <2> DEFINE x == [s EXCEPT !["mhSend"] = Off]
             y == [x EXCEPT ![Count(s.pktTx)] = 0]
             v == GiveUp(y, "ACKED")
             u == StartBackoff(v, r, 0)
             t == tx_resume(u, r)
  <2>2. Ended(x) /\ Only(s, x, {"mhSend"})
    BY <1>2, EndedOff
  <2>x. x.pktTx = s.pktTx /\ x.pktTx # None /\ NodeTypes(x) /\ x.tx_state = "SEND"
        /\ ~BackoffBusy(x) /\ x.pktRTS = None
    BY <1>2, <2>2 DEF Only, Ended, Contending
  <2>y. y.pktTx = s.pktTx
    <3>1. s.pktTx.size <= setup.RTSThreshold \/ ~(s.pktTx.size <= setup.RTSThreshold)
      OBVIOUS
    <3>2. Count(s.pktTx) \in {"ssrc", "slrc"}
      BY DEF Count
    <3> HIDE DEF x
    <3> QED BY <2>x, <3>2 DEF NodeTypes, Fields
  <2>1. recvACK(s, p, r) = t
    <3>1. [Stop(s, "mhSend") EXCEPT ![Count(s.pktTx)] = 0, !.pktTx = None,
                     !.over = [id |-> s.pktTx.id, fate |-> "ACKED"]]
          = [y EXCEPT !.pktTx = None, !.over = [id |-> y.pktTx.id, fate |-> "ACKED"]]
      BY <2>y DEF Stop
    <3> HIDE DEF y
    <3> QED BY <1>2, <3>1 DEF recvACK, GiveUp
  <2> HIDE DEF x
  <2>3. NodeTypes(y) /\ Only(x, y, {"ssrc", "slrc"})
    BY <2>x, CountEffect
  <2> HIDE DEF y
  <2>s. Sound(s) /\ s.mhIF = Off
    BY ListensSound
  <2>4. Sound(y)
    BY <2>2, <2>3, <2>s DEF Only, Sound, Durations
  <2>5. /\ NodeTypes(v) /\ Only(y, v, {"pktTx", "over", "cw"}) /\ v.pktTx = None
        /\ Sound(v) /\ ~Cleared(v)
    BY <2>x, <2>y, <2>3, <2>4, GiveUpEffect, GiveUpSound
  <2> HIDE DEF v
  <2>6. v.mhBackoff = Off /\ ~is_idle(v) /\ v.pktRTS = None
    BY <2>x, <2>3, <2>5 DEF Only, is_idle, BackoffBusy
  <2>7. /\ NodeTypes(u) /\ Only(v, u, Backoff) /\ u.paused = TRUE
        /\ u.mhBackoff = v.mhBackoff
    BY <2>5, <2>6, StartBackoffEffect DEF Backoff
  <2>8. Sound(u) /\ ~Cleared(u)
    BY <2>5, <2>6, BackOffSound
  <2> HIDE DEF u
  <2>9. Only(x, u, Ending \cup {"pktCTRL"}) /\ u.pktTx = None /\ u.pktRTS = None
    BY <2>3, <2>5, <2>6, <2>7 DEF Only, Ending, Backoff
  <2>10. Ready(u)
    BY <2>2, <2>6, <2>7, <2>9, EndedReady
  <2>11. u.tx_active = FALSE /\ u.mhIF = Off /\ u.mhDefer = Off
    BY <1>2, <2>2, <2>9, <2>s DEF Only, Ending, Backoff, Listens, NodeInv, Contending
  <2> QED BY <2>1, <2>8, <2>10, <2>11, ResumeTimely
<1> QED BY <1>1, <1>2

\* The duplicate filter does not concern the sender.
LEMMA FilterTimely ==
  ASSUME Params, NEW s, NodeInv(s), Sending(s), NEW p, GoodFrame(p)
  PROVE  Sending(Filter(s, p))
<1> DEFINE t == Filter(s, p)
<1>1. Only(s, t, {"cache", "up"})
  BY FilterInv
<1> HIDE DEF t
<1>2. Only(s, t, {"rx_state", "pktRx", "mhRecv", "mhNav", "mhBackoff", "paused", "left",
                  "cache", "up"})
  BY <1>1 DEF Only
<1>3. t.mhBackoff = s.mhBackoff /\ (BackoffBusy(t) <=> BackoffBusy(s))
  BY <1>1 DEF Only, BackoffBusy
<1> QED BY <1>2, <1>3, SameSending DEF t

\* recvDATA() finds mhDefer_ free when it starts it for the ACK.
LEMMA RecvDATATimely ==
  ASSUME Params, setup.bugFix_timer, NEW s, NodeInv(s), Listens(s), ~Waiting(s),
         NEW p, GoodFrame(p), NEW r \in Nat
  PROVE  Sending(recvDATA(s, p, r))
<1>0. NodeTypes(s) /\ Holding(s) /\ p.ta \in Nodes
  BY DEF NodeInv, GoodFrame, Frames
<1>s. Sound(s) /\ s.mhIF = Off /\ Sending(s) /\ s.tx_active = FALSE
  BY ListensSound DEF Listens
<1>1. CASE p.ra = MAC_BROADCAST
  <2>1. recvDATA(s, p, r) = Filter(s, p)
    BY <1>1 DEF recvDATA
  <2> QED BY <1>s, <2>1, FilterTimely
<1>2. CASE p.ra # MAC_BROADCAST /\ p.size >= setup.RTSThreshold /\ s.tx_state = "CTS"
  <2> DEFINE x == [s EXCEPT !["mhSend"] = Off]
             u == sendACK(x, p.ta)
             y == tx_resume(u, r)
  <2>1. recvDATA(s, p, r) = Filter(y, p)
    BY <1>2 DEF recvDATA, Stop
  <2>2. Ended(x) /\ Only(s, x, {"mhSend"}) /\ NodeTypes(x)
    BY <1>2, EndedOff DEF Ended
  <2> HIDE DEF x
  <2>3. Sound(x)
    BY <1>s, <2>2 DEF Only, Sound, Durations
  <2>4. NodeTypes(u) /\ Only(x, u, {"pktCTRL"})
    BY <1>0, <2>2, ACKEffect
  <2>u. Sound(u)
    <3>1. 0 \in Nat
      OBVIOUS
    <3> QED BY <1>0, <2>2, <2>3, <3>1, ControlSound
  <2> HIDE DEF u
  <2>5. Only(x, u, Ending \cup {"pktCTRL"}) /\ u.pktTx = x.pktTx
    BY <2>4 DEF Only
  <2>6. ~(u.paused /\ u.mhBackoff # Off) /\ (u.pktRTS # None => u.pktTx # None)
    BY <2>2, <2>4 DEF Ended, Only, Contending, Holding
  <2>7. Ready(u)
    BY <2>2, <2>4, <2>5, <2>6, EndedReady
  <2>8. ~Cleared(s)
    BY <1>2, <1>s DEF Sending, Clearance
  <2>9. ~Cleared(u)
    BY <2>2, <2>4, <2>8 DEF Only, Cleared
  <2>10. u.tx_active = FALSE /\ u.mhIF = Off /\ u.mhDefer = Off
    BY <1>2, <1>s, <2>2, <2>4 DEF Only, NodeInv, Contending
  <2>11. NodeInv(y)
    BY <2>7, TxResume
  <2>12. Sending(y)
    BY <2>u, <2>7, <2>9, <2>10, ResumeTimely
  <2> HIDE DEF y
  <2> QED BY <2>1, <2>11, <2>12, FilterTimely
<1>3. CASE /\ p.ra # MAC_BROADCAST
           /\ \/ p.size >= setup.RTSThreshold /\ s.tx_state # "CTS"
              \/ ~(p.size >= setup.RTSThreshold) /\ s.pktCTRL # None
  <2>1. recvDATA(s, p, r) = s
    BY <1>3 DEF recvDATA
  <2> QED BY <1>s, <2>1
<1>4. CASE p.ra # MAC_BROADCAST /\ ~(p.size >= setup.RTSThreshold) /\ s.pktCTRL = None
  <2> DEFINE u == sendACK(s, p.ta)
             y == IF u.mhSend = Off THEN tx_resume(u, r) ELSE u
  <2>1. recvDATA(s, p, r) = Filter(y, p)
    BY <1>4 DEF recvDATA
  <2>2. /\ NodeTypes(u) /\ Only(s, u, {"pktCTRL"}) /\ u.pktCTRL # None
        /\ u.pktCTRL.type = "ACK"
    BY <1>0, ACKEffect
  <2>u. Sound(u)
    <3>1. 0 \in Nat
      OBVIOUS
    <3> QED BY <1>0, <1>s, <3>1, ControlSound
  <2> HIDE DEF u
  <2>3. /\ u.tx_active = FALSE /\ u.mhIF = Off /\ u.mhDefer = Off /\ s.mhDefer = Off
        /\ u.tx_state = s.tx_state /\ (Cleared(u) <=> Cleared(s)) /\ u.mhSend = s.mhSend
        /\ (BackoffBusy(u) <=> BackoffBusy(s))
    BY <1>4, <1>s, <2>2 DEF Only, Waiting, Cleared, BackoffBusy
  <2>4. NodeInv(y) /\ Sending(y)
    <3>1. CASE u.mhSend = Off
      <4>1. y = tx_resume(u, r)
        BY <3>1
      <4>2. s.tx_state = "IDLE"
        BY <2>3, <3>1 DEF NodeInv, OnAir
      <4>3. Holding(u) /\ ~(u.paused /\ u.mhBackoff # Off)
        BY <2>2 DEF Only, NodeInv, Contending, Holding
      <4>4. Ready(u)
        BY <2>2, <3>1, <4>3 DEF Ready
      <4>5. ~Cleared(s)
        BY <1>4, <1>s, <4>2 DEF Sending, Clearance
      <4> HIDE DEF y
      <4>6. NodeInv(y)
        BY <4>1, <4>4, TxResume
      <4>7. Sending(y)
        BY <2>u, <2>3, <4>1, <4>4, <4>5, ResumeTimely
      <4> QED BY <4>6, <4>7
    <3>2. CASE u.mhSend # Off
      <4>1. y = u
        BY <3>2
      <4>2. s.tx_state # "IDLE" /\ s.tx_state \notin {"CTS", "ACK"}
        BY <1>4, <2>2, <3>2 DEF Only, NodeInv, OnAir
      <4>3. Holding(u) /\ OnAir(u)
        BY <2>2, <4>2 DEF Only, NodeInv, Holding, OnAir
      <4>4. Contending(u)
        BY <2>2, <4>2 DEF Only, NodeInv, Contending, is_idle, BackoffBusy
      <4>5. Radio(u) /\ Durations(u)
        BY <2>u, <2>3, <4>2 DEF Sound, Radio
      <4>6. Cleared(s) => s.tx_state = "SEND" /\ ~BackoffBusy(s)
        BY <1>s, <4>2 DEF Sending, Clearance
      <4>7. Clearance(u)
        BY <2>2, <2>3, <4>6 DEF Clearance, Waiting
      <4> QED BY <2>2, <4>1, <4>3, <4>4, <4>5, <4>7 DEF NodeInv, Sending
    <3> QED BY <3>1, <3>2
  <2> HIDE DEF y
  <2> QED BY <2>1, <2>4, FilterTimely
<1> QED BY <1>1, <1>2, <1>3, <1>4

\* Nothing that a frame makes a node do starts a timer that is busy.
LEMMA AcceptTimely ==
  ASSUME Params, setup.bugFix_timer, NEW s, NodeInv(s), Listens(s), NEW p, GoodFrame(p),
         Asks(p) => ~Waiting(s), NEW r \in Nat
  PROVE  Sending(Accept(s, p, r))
<1> DEFINE x == IF p.ra = s.index THEN s ELSE set_nav(s, p.dur)
<1>0. DOMAIN s = Fields
  BY DEF NodeInv, NodeTypes
<1>1. NodeInv(x) /\ Only(s, x, {"mhNav"})
  <2>1. CASE p.ra = s.index
    BY <1>0, <2>1 DEF Only
  <2>2. CASE p.ra # s.index
    <3>1. p.dur \in Nat
      BY DEF GoodFrame, Frames
    <3> QED BY <2>2, <3>1, NavInv
  <2> QED BY <2>1, <2>2
<1>2. Accept(s, p, r) =
        CASE p.ra \notin {s.index, MAC_BROADCAST} -> x
          [] p.ra \in {s.index, MAC_BROADCAST} /\ p.type = "RTS" -> recvRTS(x, p, r)
          [] p.ra \in {s.index, MAC_BROADCAST} /\ p.type = "CTS" -> recvCTS(x, p, r)
          [] p.ra \in {s.index, MAC_BROADCAST} /\ p.type = "ACK" -> recvACK(x, p, r)
          [] OTHER -> recvDATA(x, p, r)
  BY DEF Accept
<1> HIDE DEF x
<1>3. Listens(x)
  <2>1. Only(s, x, {"rx_state", "pktRx", "mhRecv", "mhNav", "mhBackoff", "paused", "left",
                    "cache", "up"})
    BY <1>1 DEF Only
  <2>2. x.mhBackoff = s.mhBackoff /\ (BackoffBusy(x) <=> BackoffBusy(s))
        /\ x.tx_active = s.tx_active
    BY <1>1 DEF Only, BackoffBusy
  <2>3. Sending(x)
    BY <2>1, <2>2, SameSending DEF Listens
  <2> QED BY <2>2, <2>3 DEF Listens
<1>4. Asks(p) => ~Waiting(x)
  BY <1>1 DEF Only, Waiting
<1>5. CASE p.ra \notin {s.index, MAC_BROADCAST}
  BY <1>2, <1>3, <1>5 DEF Listens
<1>6. CASE p.ra \in {s.index, MAC_BROADCAST} /\ p.type = "RTS"
  <2>1. Accept(s, p, r) = recvRTS(x, p, r)
    BY <1>2, <1>6
  <2>2. ~Waiting(x)
    BY <1>4, <1>6 DEF Asks
  <2> QED BY <1>1, <1>3, <1>6, <2>1, <2>2, RecvRTSTimely
<1>7. CASE p.ra \in {s.index, MAC_BROADCAST} /\ p.type = "CTS"
  <2>1. Accept(s, p, r) = recvCTS(x, p, r)
    BY <1>2, <1>7
  <2> QED BY <1>1, <1>3, <2>1, RecvCTSTimely
<1>8. CASE p.ra \in {s.index, MAC_BROADCAST} /\ p.type = "ACK"
  <2>1. Accept(s, p, r) = recvACK(x, p, r)
    BY <1>2, <1>8
  <2> QED BY <1>1, <1>3, <2>1, RecvACKTimely
<1>9. CASE p.ra \in {s.index, MAC_BROADCAST} /\ p.type = "DATA"
  <2>1. Accept(s, p, r) = recvDATA(x, p, r)
    BY <1>2, <1>9
  <2>2. ~Waiting(x)
    BY <1>4, <1>9 DEF Asks
  <2> QED BY <1>1, <1>3, <2>1, <2>2, RecvDATATimely
<1>10. p.type \in {"RTS", "CTS", "ACK", "DATA"}
  BY DEF GoodFrame, Frames
<1> QED BY <1>5, <1>6, <1>7, <1>8, <1>9, <1>10

\* recv_timer() keeps the timers; a frame that asks for an answer ends only when no
\* cleared packet waits.
LEMMA RecvTimerTimely ==
  ASSUME Params, setup.bugFix_timer, NEW s, NodeInv(s), Receiving(s), TimingInv(s),
         s.mhRecv = 0, NEW r \in Nat
  PROVE  TimingInv(recv_timer([s EXCEPT !["mhRecv"] = Off], r))
<1> DEFINE x == [s EXCEPT !["mhRecv"] = Off]
           y == IF x.tx_active THEN x
                ELSE IF x.rx_state = "COLL" \/ x.pktRx.error THEN set_nav(x, usec(EIFS))
                ELSE Accept(x, x.pktRx, r)
           z == [y EXCEPT !.pktRx = None]
           t == setRxState(z, "IDLE")
<1>0. recv_timer(x, r) = t
  BY DEF recv_timer
<1>s. NodeTypes(s) /\ s.pktRx # None /\ s.rx_state # "IDLE" /\ s.mhBackoff = Off
  BY DEF NodeInv, Receiving, Contending, Off
<1>1. Only(s, x, {"mhRecv"}) /\ x.mhRecv = Off
  BY <1>s DEF Only, NodeTypes, Fields
<1> HIDE DEF x
<1>2. NodeTypes(x) /\ GoodFrame(x.pktRx) /\ x.pktRx = s.pktRx
  <2>1. IsTimer(Off)
    BY DEF IsTimer
  <2>2. NodeTypes(x)
    BY <1>1, <1>s, <2>1 DEF NodeTypes, Only
  <2> QED BY <1>1, <1>s, <2>2 DEF NodeTypes, Only, IsFrame
<1>3. NodeInv(x)
  <2>1. Only(s, x, {"pktRx", "mhRecv", "mhIF", "tx_active", "failed"})
    BY <1>1 DEF Only
  <2> QED BY <1>2, <2>1, RxInv
<1>4. /\ Sending(x) /\ x.mhBackoff = Off /\ x.tx_active = s.tx_active
      /\ x.rx_state = s.rx_state /\ (Waiting(x) <=> Waiting(s)) /\ x.tx_active \in BOOLEAN
  <2>1. Only(s, x, {"rx_state", "pktRx", "mhRecv", "mhNav", "mhBackoff", "paused", "left",
                    "cache", "up"})
    BY <1>1 DEF Only
  <2>2. x.mhBackoff = s.mhBackoff /\ (BackoffBusy(x) <=> BackoffBusy(s))
        /\ x.tx_active = s.tx_active /\ x.rx_state = s.rx_state
        /\ (Waiting(x) <=> Waiting(s))
    BY <1>1 DEF Only, BackoffBusy, Waiting
  <2>3. Sending(x)
    BY <2>1, <2>2, SameSending DEF TimingInv
  <2>4. x.tx_active \in BOOLEAN
    BY <1>2 DEF NodeTypes, IsBool
  <2> QED BY <1>s, <2>2, <2>3, <2>4
<1>5. NodeInv(y) /\ Sending(y)
  <2>1. CASE x.tx_active
    <3>1. y = x
      BY <2>1
    <3> QED BY <1>3, <1>4, <3>1
  <2>2. CASE ~x.tx_active /\ (x.rx_state = "COLL" \/ x.pktRx.error)
    <3>1. y = set_nav(x, usec(EIFS))
      BY <2>2
    <3>2. usec(EIFS) \in Nat
      BY DIFSNat, UsecNat
    <3> HIDE DEF y
    <3>3. NodeInv(y) /\ Only(x, y, {"mhNav"})
      BY <1>3, <3>1, <3>2, NavInv
    <3>4. Only(x, y, {"rx_state", "pktRx", "mhRecv", "mhNav", "mhBackoff", "paused", "left",
                      "cache", "up"})
      BY <3>3 DEF Only
    <3>5. y.mhBackoff = x.mhBackoff /\ (BackoffBusy(y) <=> BackoffBusy(x))
      BY <3>3 DEF Only, BackoffBusy
    <3> QED BY <1>4, <3>3, <3>4, <3>5, SameSending
  <2>3. CASE ~x.tx_active /\ ~(x.rx_state = "COLL" \/ x.pktRx.error)
    <3>1. y = Accept(x, x.pktRx, r)
      BY <2>3
    <3> HIDE DEF y
    <3>2. NodeInv(y)
      BY <1>2, <1>3, <3>1, AcceptInv
    <3>3. Hearable(s)
      <4>1. s.rx_state = "RECV"
        BY <1>4, <1>s, <2>3 DEF NodeTypes, IsRxState
      <4>2. s.pktRx.error \in BOOLEAN
        BY <1>2 DEF GoodFrame, Frames
      <4> QED BY <1>2, <2>3, <4>1, <4>2 DEF Hearable
    <3>4. Asks(x.pktRx) => ~Waiting(x)
      <4>1. Waiting(s) => s.mhDefer \in Nat
        BY <1>s DEF Waiting, NodeTypes, IsTimer
      <4>2. Waiting(s) /\ Asks(s.pktRx) => s.mhRecv > s.mhDefer
        BY <3>3 DEF TimingInv, Unanswered
      <4> QED BY <1>2, <1>4, <4>1, <4>2
    <3>5. Listens(x)
      BY <1>4, <2>3 DEF Listens
    <3> QED BY <1>2, <1>3, <3>1, <3>2, <3>4, <3>5, AcceptTimely
  <2> QED BY <2>1, <2>2, <2>3
<1> HIDE DEF y
<1>6. Only(y, z, {"pktRx"}) /\ z.pktRx = None
  BY <1>5 DEF Only, NodeInv, NodeTypes, Fields
<1> HIDE DEF z
<1>7. NodeTypes(z) /\ ~(z.paused /\ z.mhBackoff # Off)
  <2>1. IsFrame(z.pktRx)
    BY <1>6, NoneTypes
  <2>2. NodeTypes(z)
    BY <1>5, <1>6, <2>1 DEF NodeInv, NodeTypes, Only
  <2> QED BY <1>5, <1>6, <2>2 DEF NodeInv, Contending, Only
<1>8. /\ t.rx_state = "IDLE" /\ Only(z, t, {"rx_state", "mhBackoff", "paused", "left"})
      /\ BackoffBusy(t) <=> BackoffBusy(z)
  BY <1>7, SetRxEffect
<1>9. z.mhBackoff # 0 => t.mhBackoff # 0
  BY <1>7, SetSafe
<1> HIDE DEF t
<1>10. Sending(t)
  <2>1. Only(y, t, {"rx_state", "pktRx", "mhRecv", "mhNav", "mhBackoff", "paused", "left",
                    "cache", "up"})
    BY <1>6, <1>8 DEF Only
  <2>2. y.mhBackoff = z.mhBackoff /\ (BackoffBusy(y) <=> BackoffBusy(z))
    BY <1>6 DEF Only, BackoffBusy
  <2> QED BY <1>5, <1>8, <1>9, <2>1, <2>2, SameSending
<1>11. Unanswered(t)
  BY <1>8 DEF Unanswered, Hearable
<1> QED BY <1>0, <1>10, <1>11 DEF TimingInv, x

\* A frame that arrives on a free interface and asks for an answer lasts longer
\* than a cleared packet waits.
LEMMA RecvTimely ==
  ASSUME Params, NEW s, NodeInv(s), Receiving(s), TimingInv(s), NEW p, GoodFrame(p),
         Asks(p) => p.time > setup.SIFS
  PROVE  TimingInv(recv(s, p))
<1> DEFINE e == p.error \/ s.tx_active
           q == [p EXCEPT !.error = e]
<1>0. NodeTypes(s) /\ DOMAIN s = Fields /\ ~(s.paused /\ s.mhBackoff # Off)
  BY DEF NodeInv, NodeTypes, Contending
<1>1. e \in BOOLEAN /\ q = [p EXCEPT !.error = @ \/ s.tx_active]
  OBVIOUS
<1>2. /\ q.time = p.time /\ q.type = p.type /\ (q.error = FALSE => s.tx_active = FALSE)
      /\ p.time \in Nat
  <2>1. s.tx_active \in BOOLEAN
    BY <1>0 DEF NodeTypes, IsBool
  <2>2. p \in Frames
    BY DEF GoodFrame
  <2>3. q.time = p.time /\ q.type = p.type /\ q.error = e
    BY <2>2 DEF Frames
  <2>4. p.time \in Nat
    BY <2>2 DEF Frames
  <2> QED BY <2>1, <2>3, <2>4
<1>p. setup.SIFS \in Nat
  BY DEF Params, Numbers
<1>4. CASE s.rx_state = "IDLE"
  <2> DEFINE x == setRxState(s, "RECV")
             y == [x EXCEPT !.pktRx = q]
             t == Start(y, "mhRecv", q.time)
  <2>1. recv(s, p) = t
    BY <1>4 DEF recv
  <2> HIDE DEF q
  <2>2. /\ NodeTypes(x) /\ x.rx_state = "RECV"
        /\ Only(s, x, {"rx_state", "mhBackoff", "paused", "left"})
        /\ BackoffBusy(x) <=> BackoffBusy(s)
    BY <1>0, SetRxEffect
  <2>3. s.mhBackoff # 0 => x.mhBackoff # 0
    BY <1>0, SetSafe
  <2> HIDE DEF x
  <2>4. Only(x, y, {"pktRx"}) /\ y.pktRx = q
    BY <2>2 DEF Only, NodeTypes, Fields
  <2> HIDE DEF y
  <2>5. Only(y, t, {"mhRecv", "failed"}) /\ t.mhRecv = q.time /\ t.failed = FALSE
    <3>1. DOMAIN y = Fields /\ "mhRecv" \in Timers /\ y.mhRecv = Off /\ y.failed = FALSE
      <4>1. s.mhRecv = Off /\ s.failed = FALSE
        BY <1>4 DEF Receiving, TimingInv, Sending, Radio
      <4> QED BY <2>2, <2>4, <4>1 DEF Only, Timers
    <3>2. ASSUME NEW k
          PROVE  LET u == Start(y, "mhRecv", k) IN
                 Only(y, u, {"mhRecv", "failed"}) /\ u.mhRecv = k /\ u.failed = FALSE
      BY <3>1, StartEffect, StartSafe
    <3> QED BY <3>2
  <2> HIDE DEF t
  <2>6. Only(s, t, {"rx_state", "pktRx", "mhRecv", "mhNav", "mhBackoff", "paused", "left",
                    "cache", "up"})
    <3>1. s.failed = FALSE
      BY DEF TimingInv, Sending, Radio
    <3> QED BY <2>2, <2>4, <2>5, <3>1 DEF Only
  <2>7. Sending(t)
    <3>1. t.mhBackoff = x.mhBackoff /\ (BackoffBusy(t) <=> BackoffBusy(x))
      BY <2>4, <2>5 DEF Only, BackoffBusy
    <3> QED BY <2>2, <2>3, <2>6, <3>1, SameSending DEF TimingInv
  <2>8. /\ t.pktRx = q /\ t.tx_active = s.tx_active /\ t.tx_state = s.tx_state
        /\ t.mhDefer = s.mhDefer /\ (Waiting(t) <=> Waiting(s))
    BY <2>4, <2>5, <2>6 DEF Only, Waiting
  <2>9. Asks(q) <=> Asks(p)
    BY <1>2 DEF Asks
  <2>10. Waiting(s) => s.mhDefer \in Nat /\ s.mhDefer <= setup.SIFS
    BY <1>0 DEF TimingInv, Sending, Clearance, Waiting, NodeTypes, IsTimer
  <2>11. Unanswered(t)
    BY <1>2, <1>p, <2>5, <2>8, <2>9, <2>10 DEF Unanswered, Hearable
  <2> QED BY <2>1, <2>7, <2>11 DEF TimingInv
<1>5. CASE s.rx_state # "IDLE" /\ <<s.index, s.pktRx.ta, q.ta>> \in setup.captures
  <2> DEFINE t == set_nav(s, usec(EIFS + q.time))
  <2>1. recv(s, p) = t
    BY <1>5 DEF recv
  <2> HIDE DEF q
  <2>2. usec(EIFS + q.time) \in Nat
    <3>1. EIFS \in Nat /\ q.time \in Nat
      BY <1>2, DIFSNat
    <3>2. EIFS + q.time \in Nat
      BY <3>1
    <3> QED BY <3>2, UsecNat
  <2>3. Only(s, t, {"mhNav"})
    BY <2>2, NavInv
  <2> HIDE DEF t
  <2>4. Only(s, t, Untimed)
    BY <2>3 DEF Only, Untimed
  <2> QED BY <2>1, <2>4, SameTimely
<1>6. CASE s.rx_state # "IDLE" /\ <<s.index, s.pktRx.ta, q.ta>> \notin setup.captures
  <2> DEFINE x == setRxState(s, "COLL")
             y == [x EXCEPT !.pktRx = q, !.mhRecv = q.time]
             t == IF q.time > x.mhRecv THEN y ELSE x
  <2>1. recv(s, p) = t
    BY <1>6 DEF recv
  <2> HIDE DEF q
  <2>2. /\ NodeTypes(x) /\ x.rx_state = "COLL"
        /\ Only(s, x, {"rx_state", "mhBackoff", "paused", "left"})
        /\ BackoffBusy(x) <=> BackoffBusy(s)
    BY <1>0, SetRxEffect
  <2>3. s.mhBackoff # 0 => x.mhBackoff # 0
    BY <1>0, SetSafe
  <2> HIDE DEF x
  <2>4. Only(x, y, {"pktRx", "mhRecv"})
    BY <2>2 DEF Only, NodeTypes, Fields
  <2> HIDE DEF y
  <2>5. Only(x, t, {"pktRx", "mhRecv"})
    <3>1. Only(x, x, {"pktRx", "mhRecv"})
      BY <2>2 DEF Only
    <3> QED BY <2>4, <3>1
  <2> HIDE DEF t
  <2>6. Only(s, t, {"rx_state", "pktRx", "mhRecv", "mhNav", "mhBackoff", "paused", "left",
                    "cache", "up"})
    BY <2>2, <2>5 DEF Only
  <2>7. /\ t.mhBackoff = x.mhBackoff /\ (BackoffBusy(t) <=> BackoffBusy(x))
        /\ t.rx_state = "COLL"
    BY <2>2, <2>5 DEF Only, BackoffBusy
  <2>8. Sending(t)
    BY <2>2, <2>3, <2>6, <2>7, SameSending DEF TimingInv
  <2>9. Unanswered(t)
    BY <2>7 DEF Unanswered, Hearable
  <2> QED BY <2>1, <2>8, <2>9 DEF TimingInv
<1> QED BY <1>4, <1>5, <1>6

\* Whichever timer expires, its handler keeps the order of the others.
LEMMA HandleTimely ==
  ASSUME Params, setup.bugFix_timer, NEW s, NodeInv(s), Receiving(s), TimingInv(s),
         NEW timer \in Timers, s[timer] = 0, NEW r \in Nat
  PROVE  TimingInv(Handle(timer, [s EXCEPT ![timer] = Off], r))
<1> DEFINE x == [s EXCEPT ![timer] = Off]
<1>1. CASE timer = "mhBackoff"
  <2>1. Handle(timer, x, r) = backoffHandler([s EXCEPT !["mhBackoff"] = Off], r)
    BY <1>1 DEF Handle
  <2> QED BY <1>1, <2>1, BackoffHandlerTimely
<1>2. CASE timer = "mhDefer"
  <2>1. Handle(timer, x, r) = deferHandler([s EXCEPT !["mhDefer"] = Off], r)
    BY <1>2 DEF Handle
  <2> QED BY <1>2, <2>1, DeferHandlerTimely
<1>3. CASE timer = "mhSend"
  <2>1. Handle(timer, x, r) = send_timer([s EXCEPT !["mhSend"] = Off], r)
    BY <1>3 DEF Handle
  <2> QED BY <1>3, <2>1, SendTimerTimely
<1>4. CASE timer = "mhRecv"
  <2>1. Handle(timer, x, r) = recv_timer([s EXCEPT !["mhRecv"] = Off], r)
    BY <1>4 DEF Handle
  <2> QED BY <1>4, <2>1, RecvTimerTimely
<1>5. CASE timer = "mhNav"
  <2>1. Handle(timer, x, r) = navHandler([s EXCEPT !["mhNav"] = Off])
    BY <1>5 DEF Handle
  <2> QED BY <2>1, NavHandlerTimely
<1>6. CASE timer = "mhIF"
  <2>1. Handle(timer, x, r) = txHandler([s EXCEPT !["mhIF"] = Off])
    BY <1>6 DEF Handle
  <2> QED BY <1>6, <2>1, TxHandlerTimely
<1> QED BY <1>1, <1>2, <1>3, <1>4, <1>5, <1>6 DEF Timers

\* What a handler transmits and may be answered lasts longer than SIFS.
LEMMA OutLong ==
  ASSUME Timely(setup), NEW s, NodeTypes(s), s.out = None, Durations(s),
         NEW t, HandlerStep(s, t), t.out # None, Asks(t.out)
  PROVE  t.out.time > setup.SIFS
<1>1. Sends(s, t)
  BY DEF HandlerStep, Unsent
<1>2. (t.out = s.pktRTS /\ s.pktRTS # None) \/ (t.out = s.pktTx /\ s.pktTx # None)
  BY <1>1 DEF Sends, SendsPending, Asks
<1>3. CASE t.out = s.pktRTS /\ s.pktRTS # None
  BY <1>3 DEF Durations, Timely
<1>4. CASE t.out = s.pktTx /\ s.pktTx # None
  BY <1>4 DEF NodeTypes, IsTx, GoodData, Timely
<1> QED BY <1>2, <1>3, <1>4

\* send() of a packet that comes from the queue keeps the timers.
LEMMA SendFirstTimely ==
  ASSUME Params, setup.bugFix_timer, NEW s, NodeInv(s), Receiving(s), TimingInv(s),
         s.callback = FALSE, NEW p \in Packets, NEW r \in Nat
  PROVE  TimingInv(send(s, p, r))
<1> DEFINE t == send(s, p, r)
<1>1. NodeTypes(s) /\ s.pktTx = None /\ s.pktRTS = None /\ s.failed = FALSE /\ Durations(s)
  BY DEF NodeInv, Holding, TimingInv, Sending, Radio
<1>2. /\ t.failed = FALSE /\ Durations(t) /\ ~Cleared(t) /\ t.mhDefer = s.mhDefer
      /\ s.mhBackoff # 0 => t.mhBackoff # 0
  BY <1>1, SendSafe
<1>3. Only(s, t, Taking \cup Backoff \cup {"mhDefer"})
  BY SendInv
<1> HIDE DEF t
<1>4. /\ t.tx_state = s.tx_state /\ t.mhSend = s.mhSend /\ t.mhIF = s.mhIF
      /\ t.tx_active = s.tx_active /\ t.pktCTRL = s.pktCTRL /\ t.mhRecv = s.mhRecv
      /\ t.pktRx = s.pktRx /\ t.rx_state = s.rx_state
  BY <1>3 DEF Only, Taking, Backoff
<1>5. ~Waiting(s) /\ ~Waiting(t)
  <2>1. ~Waiting(s)
    BY <1>1 DEF TimingInv, Sending, Clearance, Cleared
  <2> QED BY <1>2, <1>4, <2>1 DEF Waiting
<1>6. Radio(t)
  BY <1>2, <1>4 DEF TimingInv, Sending, Radio
<1>7. Clearance(t)
  BY <1>2, <1>4, <1>5 DEF TimingInv, Sending, Clearance
<1>8. Unanswered(t)
  BY <1>4, <1>5 DEF TimingInv, Unanswered, Hearable
<1> QED BY <1>2, <1>6, <1>7, <1>8 DEF t, TimingInv, Sending

\* Time keeps the order in which timers expire.
LEMMA LaterTimely ==
  ASSUME Params, NEW s, NodeInv(s), Receiving(s), TimingInv(s), NEW d \in Nat,
         \A t \in Timers : s[t] # 0 /\ (s[t] = Off \/ d <= s[t])
  PROVE  TimingInv(Later(s, d))
<1> DEFINE t == Later(s, d)
<1>1. Only(s, t, Timers)
  BY LaterInv
<1>2. /\ t.mhIF = Sooner(s.mhIF, d) /\ t.mhRecv = Sooner(s.mhRecv, d)
      /\ t.mhSend = Sooner(s.mhSend, d) /\ t.mhDefer = Sooner(s.mhDefer, d)
      /\ t.mhBackoff = Sooner(s.mhBackoff, d)
  BY DEF Later, NodeInv, NodeTypes, Fields, Timers
<1> HIDE DEF t
<1>3. /\ s.mhIF # 0 /\ s.mhSend # 0
      /\ s.mhIF = Off \/ d <= s.mhIF
      /\ s.mhRecv = Off \/ d <= s.mhRecv
      /\ s.mhSend = Off \/ d <= s.mhSend
      /\ s.mhDefer = Off \/ d <= s.mhDefer
      /\ s.mhBackoff = Off \/ d <= s.mhBackoff
  BY DEF Timers
<1>4. /\ IsTimer(s.mhIF) /\ IsTimer(s.mhRecv) /\ IsTimer(s.mhSend)
      /\ IsTimer(s.mhDefer) /\ IsTimer(s.mhBackoff)
  BY DEF NodeInv, NodeTypes
<1>5. /\ t.mhIF = Off <=> s.mhIF = Off
      /\ t.mhDefer = Off <=> s.mhDefer = Off
      /\ t.mhBackoff = Off <=> s.mhBackoff = Off
  BY <1>2, <1>3, <1>4, SoonerTimer
<1>6. /\ t.tx_state = s.tx_state /\ t.tx_active = s.tx_active /\ t.failed = s.failed
      /\ t.pktRTS = s.pktRTS /\ t.pktCTRL = s.pktCTRL /\ t.pktTx = s.pktTx
      /\ t.pktRx = s.pktRx /\ t.rx_state = s.rx_state /\ t.paused = s.paused
  BY <1>1 DEF Only, Timers
<1>7. /\ s.tx_active => s.tx_state # "IDLE"
      /\ s.tx_state = "ACK" => s.tx_active
  BY <1>3 DEF TimingInv, Sending, Radio
<1>8. /\ s.mhIF \in Nat /\ s.mhSend \in Nat /\ s.mhIF <= s.mhSend => t.mhIF <= t.mhSend
      /\ s.mhIF = s.mhSend => t.mhIF = t.mhSend
  BY <1>2, <1>3 DEF Sooner, Off
<1>9. s.tx_state # "IDLE" => s.mhSend \in Nat
  BY <1>4 DEF NodeInv, OnAir, IsTimer
<1>10. s.tx_active => s.mhIF \in Nat
  BY <1>4 DEF TimingInv, Sending, Radio, IsTimer
<1>11. Radio(t)
  BY <1>5, <1>6, <1>7, <1>8, <1>9, <1>10 DEF TimingInv, Sending, Radio
<1>12. Durations(t)
  BY <1>6 DEF TimingInv, Sending, Durations
<1>13. /\ Waiting(t) <=> Waiting(s)
       /\ Cleared(t) <=> Cleared(s)
       /\ BackoffBusy(t) <=> BackoffBusy(s)
       /\ Hearable(t) <=> Hearable(s)
  BY <1>5, <1>6 DEF Waiting, Cleared, BackoffBusy, Hearable
<1>14. Waiting(s) => s.mhDefer \in Nat /\ t.mhDefer = s.mhDefer - d
  BY <1>2, <1>4 DEF Waiting, IsTimer, Sooner
<1>15. Hearable(s) => s.mhRecv \in Nat /\ t.mhRecv = s.mhRecv - d
  BY <1>2, <1>4 DEF Hearable, Receiving, IsTimer, Sooner
<1>16. setup.SIFS \in Nat
  BY DEF Params, Numbers
<1>17. Waiting(s) => t.mhDefer <= setup.SIFS
  BY <1>14, <1>16 DEF TimingInv, Sending, Clearance
<1>18. Clearance(t)
  BY <1>6, <1>13, <1>17 DEF TimingInv, Sending, Clearance
<1>19. Unanswered(t)
  <2>1. Hearable(s) => s.tx_active = FALSE /\ s.tx_state # "ACK"
    BY <1>7 DEF TimingInv, Unanswered
  <2>2. Hearable(s) /\ Waiting(s) /\ Asks(s.pktRx) => t.mhRecv > t.mhDefer
    BY <1>14, <1>15 DEF TimingInv, Unanswered
  <2> QED BY <1>6, <1>13, <2>1, <2>2 DEF Unanswered
<1> QED BY <1>11, <1>12, <1>18, <1>19 DEF t, TimingInv, Sending

\* What holds of a node depends on setup, which never changes.
LEMMA TimingSame ==
  ASSUME UNCHANGED setup, NEW s, TimingInv(s)
  PROVE  TimingInv(s)'
BY DEF TimingInv, Sending, Radio, Durations, Clearance, Unanswered, Waiting, Cleared,
       Hearable, Asks, BackoffBusy, UsesRTS

-------------------------------------------------------------------------------
(* The timers of all nodes *)

\* Frames on the air that a node may answer last longer than SIFS.
Lasting(p) == Asks(p) => p.time > setup.SIFS

\* The inductive invariant
TimersInv ==
  /\ MacInv /\ Timely(setup)
  /\ \A n \in Nodes : TimingInv(mac[n])
  /\ \A n \in Nodes : \A i \in DOMAIN air[n] : Lasting(air[n][i].frame)

\* It holds initially.
LEMMA InitTimers == ASSUME Init, Timely(setup) PROVE TimersInv
<1>1. MacInv
  BY InitInv
<1>2. ASSUME NEW n \in Nodes PROVE TimingInv(mac[n])
  <2> DEFINE s == MacInit(n)
  <2>1. mac[n] = s
    BY DEF Init
  <2>2. /\ s.tx_state = "IDLE" /\ s.rx_state = "IDLE" /\ s.tx_active = FALSE
        /\ s.pktTx = None /\ s.pktRTS = None /\ s.pktCTRL = None
        /\ s.mhIF = Off /\ s.mhDefer = Off /\ s.failed = FALSE
    BY DEF MacInit
  <2> HIDE DEF s
  <2>3. Radio(s) /\ Durations(s) /\ Clearance(s) /\ Unanswered(s)
    BY <2>2 DEF Radio, Durations, Clearance, Unanswered, Waiting, Cleared, Hearable
  <2> QED BY <2>1, <2>3 DEF TimingInv, Sending
<1>3. \A n \in Nodes : air[n] = <<>>
  BY DEF Init
<1> QED BY <1>1, <1>2, <1>3 DEF TimersInv

\* A handler that keeps the timers of its node keeps those of all.
LEMMA BecomesTimely ==
  ASSUME TimersInv, NEW n \in Nodes, NEW s, NodeInv(s), Receiving(s), TimingInv(s),
         Becomes(n, s)
  PROVE  Timely(setup)' /\ \A m \in Nodes : TimingInv(mac[m])'
<1>1. mac' = [mac EXCEPT ![n] = Clean(s)] /\ setup' = setup
  BY DEF Becomes, Clean
<1>2. DOMAIN mac = Nodes
  BY DEF TimersInv, MacInv, NodesInv
<1>3. mac'[n] = Clean(s) /\ \A m \in Nodes : m # n => mac'[m] = mac[m]
  BY <1>1, <1>2
<1>4. Only(s, Clean(s), {"out", "up", "over"})
  BY CleanInv
<1>5. Only(s, Clean(s), Untimed)
  BY <1>4 DEF Only, Untimed
<1>6. TimingInv(Clean(s))
  BY <1>5, SameTimely
<1>7. ASSUME NEW x, TimingInv(x) PROVE TimingInv(x)'
  BY <1>1, <1>7, TimingSame
<1>8. ASSUME NEW m \in Nodes PROVE TimingInv(mac[m])'
  <2>1. TimingInv(mac'[m])
    BY <1>3, <1>6 DEF TimersInv
  <2> QED BY <1>7, <2>1
<1>9. Timely(setup)'
  BY <1>1 DEF TimersInv, Timely
<1> QED BY <1>8, <1>9

\* A node that is handed a packet
LEMMA ArriveTimely ==
  ASSUME TimersInv, NEW n \in Nodes, Arrive(n)
  PROVE  \E t : Becomes(n, t) /\ NodeInv(t) /\ Receiving(t) /\ TimingInv(t)
<1> DEFINE s == mac[n]
           p == [ra |-> setup.traffic[n][given'[n]].ra,
                 size |-> setup.traffic[n][given'[n]].size, id |-> given'[n]]
<1>0. /\ NodeInv(s) /\ Receiving(s) /\ TimingInv(s) /\ Params /\ setup.bugFix_timer
      /\ given \in [Nodes -> Nat]
  BY SetupParams DEF TimersInv, MacInv, NodesInv, Timely
<1>1. given'[n] = given[n] + 1 /\ given[n] < Len(setup.traffic[n]) /\ given[n] \in Nat
  BY <1>0 DEF Arrive
<1>2. p \in Packets
  <2> DEFINE k == given'[n]
  <2>1. setup.traffic[n] \in Seq([ra : Nodes \cup {MAC_BROADCAST}, size : Nat])
    BY <1>0 DEF Params, Traffic
  <2>2. k \in DOMAIN setup.traffic[n] /\ k \in Nat
    BY <1>1, <2>1
  <2> HIDE DEF k
  <2>3. setup.traffic[n][k] \in [ra : Nodes \cup {MAC_BROADCAST}, size : Nat]
    BY <2>1, <2>2, SeqElement
  <2>4. setup.traffic[n][k].size \in DOMAIN setup.data
    BY <1>0, <2>2 DEF Params, Traffic
  <2> QED BY <2>2, <2>3, <2>4 DEF Packets, k
<1>3. IF s.callback THEN Becomes(n, [s EXCEPT !.ifq = Append(@, p)])
      ELSE \E r \in Draws : Becomes(n, send(s, p, r))
  BY DEF Arrive
<1> HIDE DEF p, s
<1>4. CASE s.callback
  <2> DEFINE t == [s EXCEPT !.ifq = Append(@, p)]
  <2>1. Becomes(n, t)
    BY <1>3, <1>4
  <2>2. Only(s, t, {"ifq"}) /\ t.ifq = Append(s.ifq, p)
    BY <1>0 DEF Only, NodeInv, NodeTypes, Fields
  <2> HIDE DEF t
  <2>3. IsQueue(t.ifq)
    BY <1>0, <1>2, <2>2 DEF NodeInv, NodeTypes, IsQueue
  <2>4. NodeTypes(t)
    BY <1>0, <2>2, <2>3 DEF NodeInv, NodeTypes, Only
  <2>5. Holding(t) /\ OnAir(t) /\ Receiving(t)
    BY <1>0, <2>2 DEF NodeInv, Only, Holding, OnAir, Receiving
  <2>6. Contending(t)
    BY <1>0, <2>2 DEF NodeInv, Only, Contending, is_idle, BackoffBusy
  <2>7. Only(s, t, Untimed)
    BY <2>2 DEF Only, Untimed
  <2>8. TimingInv(t)
    BY <1>0, <2>7, SameTimely
  <2> QED BY <2>1, <2>4, <2>5, <2>6, <2>8 DEF NodeInv
<1>5. CASE ~s.callback
  <2>1. PICK r \in Draws : Becomes(n, send(s, p, r))
    BY <1>3, <1>5
  <2> DEFINE t == send(s, p, r)
  <2>2. r \in Nat /\ s.callback = FALSE
    BY <1>0, <1>5, DrawsNat DEF NodeInv, NodeTypes, IsBool
  <2>3. NodeInv(t) /\ Receiving(t)
    BY <1>0, <1>2, <2>2, SendInv
  <2>4. TimingInv(t)
    BY <1>0, <1>2, <2>2, SendFirstTimely
  <2> QED BY <2>1, <2>3, <2>4
<1> QED BY <1>4, <1>5

\* A timer that expires
LEMMA ExpireTimely ==
  ASSUME TimersInv, NEW n \in Nodes, NEW timer \in Timers, Expire(n, timer)
  PROVE  \E t : /\ Becomes(n, t) /\ NodeInv(t) /\ Receiving(t) /\ TimingInv(t)
                /\ air' = Transmitted(n, t) /\ (t.out # None => Lasting(t.out))
<1> DEFINE s == mac[n]
<1>0. /\ NodeInv(s) /\ Receiving(s) /\ TimingInv(s) /\ Params /\ setup.bugFix_timer
      /\ Timely(setup) /\ s.out = None
  BY SetupParams DEF TimersInv, MacInv, NodesInv, AtRest, Timely
<1>1. s[timer] = 0 /\ s[timer] # Off
  BY DEF Expire, Off
<1>2. PICK r \in Draws :
        LET t == Handle(timer, [s EXCEPT ![timer] = Off], r)
        IN Becomes(n, t) /\ air' = Transmitted(n, t)
  BY DEF Expire
<1>3. r \in Nat
  BY <1>0, DrawsNat
<1> HIDE DEF s
<1> DEFINE t == Handle(timer, [s EXCEPT ![timer] = Off], r)
<1>4. HandlerStep(s, t)
  BY <1>0, <1>1, <1>3, HandleStep
<1>5. TimingInv(t)
  BY <1>0, <1>1, <1>3, HandleTimely
<1>6. Becomes(n, t) /\ air' = Transmitted(n, t)
  BY <1>2
<1> HIDE DEF t
<1>7. t.out # None => Lasting(t.out)
  <2>1. NodeTypes(s) /\ Durations(s)
    BY <1>0 DEF NodeInv, TimingInv, Sending
  <2> QED BY <1>0, <1>4, <2>1, OutLong DEF Lasting
<1> QED BY <1>4, <1>5, <1>6, <1>7 DEF HandlerStep

\* A frame that reaches a node
LEMMA ReachTimely ==
  ASSUME TimersInv, NEW n \in Nodes, Reach(n)
  PROVE  \E t : Becomes(n, t) /\ NodeInv(t) /\ Receiving(t) /\ TimingInv(t)
<1> DEFINE s == mac[n]
           p == Head(air[n]).frame
<1>0. NodeInv(s) /\ Receiving(s) /\ TimingInv(s) /\ Params
  BY SetupParams DEF TimersInv, MacInv, NodesInv
<1>1. air[n] \in Seq(InAir) /\ air[n] # <<>>
  BY DEF TimersInv, MacInv, Reach
<1>2. Head(air[n]) = air[n][1] /\ 1 \in DOMAIN air[n] /\ Head(air[n]) \in InAir
  BY <1>1
<1>3. GoodFrame(p) /\ Lasting(p)
  BY <1>2 DEF InAir, TimersInv
<1>4. GoodFrame([p EXCEPT !.error = TRUE])
  BY <1>3, FrameExcept
<1>5. \/ Becomes(n, recv(s, p))
      \/ Becomes(n, recv(s, [p EXCEPT !.error = TRUE]))
  BY DEF Reach
<1> HIDE DEF s, p
<1>6. Lasting([p EXCEPT !.error = TRUE])
  BY <1>3 DEF Lasting, Asks, GoodFrame, Frames
<1>7. ASSUME NEW q, GoodFrame(q), Lasting(q), Becomes(n, recv(s, q))
      PROVE  \E t : Becomes(n, t) /\ NodeInv(t) /\ Receiving(t) /\ TimingInv(t)
  <2>1. NodeInv(recv(s, q)) /\ Receiving(recv(s, q))
    BY <1>0, <1>7, RecvInv
  <2>2. TimingInv(recv(s, q))
    <3>1. Asks(q) => q.time > setup.SIFS
      BY <1>7 DEF Lasting
    <3> QED BY <1>0, <1>7, <3>1, RecvTimely
  <2> QED BY <1>7, <2>1, <2>2
<1>8. CASE Becomes(n, recv(s, p))
  BY <1>3, <1>7, <1>8
<1>9. CASE Becomes(n, recv(s, [p EXCEPT !.error = TRUE]))
  BY <1>4, <1>6, <1>7, <1>9
<1> QED BY <1>5, <1>8, <1>9

\* When time passes, no timer has expired: what is due goes first.
LEMMA TickTimely ==
  ASSUME TimersInv, Tick, NEW n \in Nodes
  PROVE  TimingInv(mac'[n])
<1>0. MacInv /\ NodeInv(mac[n]) /\ Receiving(mac[n]) /\ TimingInv(mac[n]) /\ Params
  BY SetupParams DEF TimersInv, MacInv, NodesInv
<1>1. PICK d \in Nat :
        /\ mac' = [m \in Nodes |-> Later(mac[m], d)]
        /\ \A m \in Nodes : \A t \in Timers : mac[m][t] = Off \/ d <= mac[m][t]
  BY <1>0, TickStep
<1>2. ASSUME NEW t \in Timers PROVE mac[n][t] # 0
  <2>1. 0 \notin Pending /\ 0 # Off
    BY DEF Tick, Off
  <2>2. mac[n][t] \in DueAt(n)
    BY DEF DueAt
  <2> QED BY <2>1, <2>2, PendingIsDue
<1>3. \A t \in Timers : mac[n][t] # 0 /\ (mac[n][t] = Off \/ d <= mac[n][t])
  BY <1>1, <1>2
<1>4. TimingInv(Later(mac[n], d))
  BY <1>0, <1>3, LaterTimely
<1> QED BY <1>1, <1>4

\* Frames on the air stay as they are, and what is transmitted joins them.
LEMMA AirLasting ==
  ASSUME TimersInv, [Next]_vars, NEW m \in Nodes, NEW i \in DOMAIN air'[m]
  PROVE  Lasting(air'[m][i].frame)
<1>0. air[m] \in Seq(InAir) /\ DOMAIN air = Nodes
  BY DEF TimersInv, MacInv
<1>1. \A j \in DOMAIN air[m] : Lasting(air[m][j].frame)
  BY DEF TimersInv
<1>2. CASE air'[m] = air[m]
  BY <1>1, <1>2
<1>3. CASE Tick
  <2>1. PICK d \in Nat : air' = [n \in Nodes |-> [j \in DOMAIN air[n] |->
                                   [air[n][j] EXCEPT !.left = @ - d]]]
    BY <1>3, TickStep DEF TimersInv
  <2>2. i \in DOMAIN air[m] /\ air'[m][i] = [air[m][i] EXCEPT !.left = @ - d]
    BY <2>1
  <2>3. air[m][i] \in InAir
    BY <1>0, <2>2, SeqElement
  <2>4. air'[m][i].frame = air[m][i].frame
    BY <2>2, <2>3 DEF InAir
  <2> QED BY <1>1, <2>2, <2>4
<1>4. CASE \E n \in Nodes : Arrive(n)
  <2>1. air' = air
    BY <1>4 DEF Arrive
  <2> QED BY <1>2, <2>1
<1>5. CASE \E n \in Nodes : Reach(n)
  <2>1. PICK n \in Nodes : air[n] # <<>> /\ air' = [air EXCEPT ![n] = Tail(@)]
    BY <1>5 DEF Reach
  <2>2. CASE n = m
    <3>1. air'[m] = Tail(air[m]) /\ air[m] # <<>>
      BY <1>0, <2>1, <2>2
    <3>2. i + 1 \in DOMAIN air[m] /\ air'[m][i] = air[m][i + 1]
      BY <1>0, <3>1
    <3> QED BY <1>1, <3>2
  <2>3. CASE n # m
    BY <1>0, <1>2, <2>1, <2>3
  <2> QED BY <2>2, <2>3
<1>6. CASE \E n \in Nodes : \E timer \in Timers : Expire(n, timer)
  <2>0. PICK n \in Nodes, timer \in Timers : Expire(n, timer)
    BY <1>6
  <2>1. PICK t : air' = Transmitted(n, t) /\ (t.out # None => Lasting(t.out))
    BY <2>0, ExpireTimely
  <2> DEFINE x == [frame |-> t.out, left |-> setup.propagation]
  <2>2. air'[m] = IF t.out # None /\ m \in Hearers(n) THEN Append(air[m], x) ELSE air[m]
    BY <2>1 DEF Transmitted
  <2>3. x.frame = t.out
    OBVIOUS
  <2> HIDE DEF x
  <2>4. CASE t.out # None /\ m \in Hearers(n)
    <3>1. air'[m] = Append(air[m], x)
      BY <2>2, <2>4
    <3>2. (i \in DOMAIN air[m] /\ air'[m][i] = air[m][i]) \/ air'[m][i] = x
      BY <1>0, <3>1
    <3> QED BY <1>1, <2>1, <2>3, <2>4, <3>2
  <2>5. CASE ~(t.out # None /\ m \in Hearers(n))
    BY <1>2, <2>2, <2>5
  <2> QED BY <2>4, <2>5
<1>7. CASE UNCHANGED vars
  BY <1>2, <1>7 DEF vars
<1> QED BY <1>3, <1>4, <1>5, <1>6, <1>7 DEF Next

\* Every step keeps the invariant.
LEMMA NextTimers ==
  ASSUME TimersInv, [Next]_vars
  PROVE  TimersInv'
<1>1. MacInv'
  BY NextInv DEF TimersInv
<1>2. setup' = setup
  <2>1. ASSUME NEW n, NEW s, Becomes(n, s) PROVE setup' = setup
    BY <2>1 DEF Becomes
  <2>2. ASSUME NEW n \in Nodes, Arrive(n) PROVE setup' = setup
    BY <2>1, <2>2 DEF Arrive
  <2>3. ASSUME NEW n \in Nodes, Reach(n) PROVE setup' = setup
    BY <2>1, <2>3 DEF Reach
  <2>4. ASSUME NEW n \in Nodes, NEW t \in Timers, Expire(n, t) PROVE setup' = setup
    BY <2>1, <2>4 DEF Expire
  <2>5. Tick => setup' = setup
    BY DEF Tick
  <2> QED BY <2>2, <2>3, <2>4, <2>5 DEF Next, vars
<1>3. Timely(setup)'
  BY <1>2 DEF TimersInv, Timely
<1>4. ASSUME NEW x, TimingInv(x) PROVE TimingInv(x)'
  BY <1>2, <1>4, TimingSame
<1>5. ASSUME NEW m \in Nodes PROVE TimingInv(mac[m])'
  <2>1. CASE Tick
    <3>1. TimingInv(mac'[m])
      BY <2>1, TickTimely
    <3> QED BY <1>4, <3>1
  <2>2. CASE \E n \in Nodes : Arrive(n)
    BY <2>2, ArriveTimely, BecomesTimely
  <2>3. CASE \E n \in Nodes : Reach(n)
    BY <2>3, ReachTimely, BecomesTimely
  <2>4. CASE \E n \in Nodes : \E timer \in Timers : Expire(n, timer)
    BY <2>4, ExpireTimely, BecomesTimely
  <2>5. CASE UNCHANGED vars
    <3>1. TimingInv(mac'[m])
      BY <2>5 DEF vars, TimersInv
    <3> QED BY <1>4, <3>1
  <2> QED BY <2>1, <2>2, <2>3, <2>4, <2>5 DEF Next
<1>6. ASSUME NEW m \in Nodes, NEW i \in DOMAIN air'[m] PROVE Lasting(air[m][i].frame)'
  <2>1. Lasting(air'[m][i].frame)
    BY AirLasting
  <2> QED BY <1>2, <2>1 DEF Lasting, Asks
<1> QED BY <1>1, <1>3, <1>5, <1>6 DEF TimersInv

(***************************************************************************)
(* No handler starts a timer that is busy, whatever the order of the       *)
(* events of one instant: the assert()s of tx_resume(), RetransmitRTS(),   *)
(* RetransmitDATA() and recvACK() hold and Scheduler::schedule() does not  *)
(* abort.  This is so if bugFix_timer_ is true and no RTS and no data      *)
(* frame is as short as SIFS.  Without bugFix_timer_ the first attempt     *)
(* waits in mhDefer_, and tx_resume() may start that while it is busy.     *)
(***************************************************************************)
THEOREM NoTimerStartedTwice == Spec /\ Timely(setup) => []NoTimerTwice
<1>1. Init /\ Timely(setup) => TimersInv
  BY InitTimers
<1>2. TimersInv /\ [Next]_vars => TimersInv'
  BY NextTimers
<1>3. TimersInv => NoTimerTwice
  BY DEF TimersInv, TimingInv, Sending, Radio, NoTimerTwice
<1> QED BY <1>1, <1>2, <1>3, PTL DEF Spec
================================================================================
