------------------------------- MODULE Mac802_11 -------------------------------
(***************************************************************************)
(* Mac/802_11 in ad hoc mode: the distributed coordination function with   *)
(* its RTS/CTS exchange, acknowledgements, retransmission, NAV, backoff    *)
(* and duplicate filter, on the nodes of one channel.  A node is a record  *)
(* with the fields of the class, under their names; a handler maps the     *)
(* record to the record it leaves, with the frame it gave the interface in *)
(* out, the packet it passed up in up and the packet it is done with in    *)
(* over.                                                                   *)
(*                                                                         *)
(* Time is counted in microseconds and jumps to the next event.  Events of *)
(* one instant come in any order.  A handler makes at most one draw,       *)
(* Random::random(), which is its parameter r.  NDEBUG is defined: a       *)
(* failing assert() stops nothing.                                         *)
(***************************************************************************)
EXTENDS Integers, Sequences, FiniteSets, FiniteSetsExt

CONSTANTS
  Nodes,
  MAC_BROADCAST,
  None,          \* the null pointer
  Setups         \* the channels, traffics and parameters checked, see below

\* links: who hears whom; captures: <<n, a, b>> when n gets a frame of a so
\* much stronger than one of b that it does not notice the latter; traffic: the
\* packets LL hands down; errors: a bound on frames received in error; wrap:
\* the number of sequence numbers, 2^16 in the code; the other fields
\* are the parameters of the MIBs, ack_plcp the time of an ACK at the PLCP rate
\* and duration the time of RTS, CTS, ACK and of data of each size.
SetupRecords ==
  [links : SUBSET (Nodes \X Nodes),
   captures : SUBSET (Nodes \X Nodes \X Nodes),
   traffic : [Nodes -> Seq([ra : Nodes \cup {MAC_BROADCAST}, size : Nat])],
   errors : Nat, wrap : Nat \ {0, 1}, bugFix_timer : BOOLEAN,
   RTSThreshold : Nat, ShortRetryLimit : Nat \ {0}, LongRetryLimit : Nat \ {0},
   CWMin : Nat \ {0}, CWMax : Nat \ {0}, SlotTime : Nat \ {0}, SIFS : Nat \ {0},
   ack_plcp : Nat, propagation : Nat, MaxPropagation : Nat,
   rts : Nat, cts : Nat, ack : Nat, data : Seq(Nat)]

Frames ==
  [type : {"RTS", "CTS", "ACK", "DATA"}, ta : Nodes, ra : Nodes \cup {MAC_BROADCAST},
   dur : Nat, time : Nat, size : Nat, seq : Nat, id : Nat, error : BOOLEAN]

\* What a handler says of a packet it is done with
Overs == [id : Nat, fate : {"ACKED", "NO_ACK", "NO_CTS", "SENT"}]

\* With a frame that needs an RTS the exchange fits the duration field, which
\* has 16 bits.
ASSUME MacAssumption ==
  /\ MAC_BROADCAST \notin Nodes /\ None \notin Nodes \cup Frames \cup Overs
  /\ \A s \in Setups :
       /\ s \in SetupRecords
       /\ s.CWMin <= s.CWMax
       /\ \A n \in Nodes : \A i \in DOMAIN s.traffic[n] :
            s.traffic[n][i].size \in DOMAIN s.data
       /\ \A i \in DOMAIN s.data :
            i >= s.RTSThreshold => 3 * s.SIFS + s.cts + s.data[i] + s.ack < 2^16

VARIABLES
  setup,       \* one of Setups, which never changes
  mac,         \* mac[n]: the fields of node n
  air,         \* air[n]: frames on their way to n, with the time they need
  given,       \* given[n]: how many packets of its traffic n was handed
  errors,      \* frames received in error
  (* History, which no action reads: *)
  passed,      \* passed[n]: the packets n passed up, <<sender, number>>
  fate,        \* fate[n][i]: what became of packet i of n
  tries        \* tries[n][i]: how often packet i of n was transmitted

vars == <<setup, mac, air, given, errors, passed, fate, tries>>

Off == -1      \* a timer that is not busy

DIFS == setup.SIFS + 2 * setup.SlotTime
EIFS == setup.SIFS + DIFS + setup.ack_plcp

\* usec() truncates to a u_int16_t.
usec(t) == t % 2^16

Timers == {"mhIF", "mhNav", "mhRecv", "mhSend", "mhDefer", "mhBackoff"}

\* left and paused are the backoff timer's rtime, in slots, and paused_;
\* failed: a timer was started while busy, which aborts the simulator.
MacInit(n) ==
  [index |-> n, tx_state |-> "IDLE", rx_state |-> "IDLE", tx_active |-> FALSE,
   pktTx |-> None, pktRTS |-> None, pktCTRL |-> None, pktRx |-> None,
   mhIF |-> Off, mhNav |-> Off, mhRecv |-> Off, mhSend |-> Off,
   mhDefer |-> Off, mhBackoff |-> Off, left |-> 0, paused |-> FALSE,
   cw |-> setup.CWMin, ssrc |-> 0, slrc |-> 0, sta_seqno |-> 1,
   cache |-> [m \in Nodes |-> 0], callback |-> FALSE, ifq |-> <<>>,
   failed |-> FALSE, out |-> None, up |-> None, over |-> None]

Init ==
  /\ setup \in Setups
  /\ mac = [n \in Nodes |-> MacInit(n)]
  /\ air = [n \in Nodes |-> <<>>]
  /\ given = [n \in Nodes |-> 0]
  /\ errors = 0
  /\ passed = [n \in Nodes |-> <<>>]
  /\ fate = [n \in Nodes |-> [i \in DOMAIN setup.traffic[n] |-> "NONE"]]
  /\ tries = [n \in Nodes |-> [i \in DOMAIN setup.traffic[n] |-> 0]]

-------------------------------------------------------------------------------
(* Timers *)

Start(s, timer, t) ==
  [s EXCEPT ![timer] = t, !.failed = @ \/ s[timer] # Off]

Stop(s, timer) == [s EXCEPT ![timer] = Off]

is_idle(s) == s.rx_state = "IDLE" /\ s.tx_state = "IDLE" /\ s.mhNav <= 0

BackoffBusy(s) == s.paused \/ s.mhBackoff # Off

\* BackoffTimer::start draws the slots and, on a busy medium, waits.
StartBackoff(s, r, difs) ==
  LET k == r % s.cw
  IN IF is_idle(s)
       THEN [Start(s, "mhBackoff", k * setup.SlotTime + difs)
               EXCEPT !.left = k, !.paused = FALSE]
       ELSE [s EXCEPT !.left = k, !.paused = TRUE, !.failed = @ \/ s.mhBackoff # Off]

\* BackoffTimer::resume
ResumeBackoff(s) ==
  [s EXCEPT !.paused = FALSE, !.mhBackoff = s.left * setup.SlotTime + DIFS]

\* Mutant: a slot that has begun counts as over.
PauseBackoffEarly(s) ==
  LET gone == s.left * setup.SlotTime - s.mhBackoff
      slots == IF gone < 0 THEN 0 ELSE gone \div setup.SlotTime + 1
  IN [s EXCEPT !.paused = TRUE, !.mhBackoff = Off, !.left = @ - slots]

\* BackoffTimer::pause keeps the slots that are not over.
PauseBackoff(s) ==
  LET gone == s.left * setup.SlotTime - s.mhBackoff
      slots == IF gone < 0 THEN 0 ELSE gone \div setup.SlotTime
  IN [s EXCEPT !.paused = TRUE, !.mhBackoff = Off, !.left = @ - slots]

checkBackoffTimer(s) ==
  IF is_idle(s) /\ s.paused THEN ResumeBackoff(s)
  ELSE IF ~is_idle(s) /\ BackoffBusy(s) /\ ~s.paused THEN PauseBackoff(s)
  ELSE s

setRxState(s, v) == checkBackoffTimer([s EXCEPT !.rx_state = v])
setTxState(s, v) == checkBackoffTimer([s EXCEPT !.tx_state = v])

set_nav(s, us) == IF us > s.mhNav THEN [s EXCEPT !.mhNav = us] ELSE s

inc_cw(s) == [s EXCEPT !.cw = Min({2 * @ + 1, setup.CWMax})]
rst_cw(s) == [s EXCEPT !.cw = setup.CWMin]

-------------------------------------------------------------------------------
(* Sending *)

Frame(type, ta, ra, dur, time) ==
  [type |-> type, ta |-> ta, ra |-> ra, dur |-> dur, time |-> time,
   size |-> 0, seq |-> 0, id |-> 0, error |-> FALSE]

UsesRTS(p) == p.size >= setup.RTSThreshold /\ p.ra # MAC_BROADCAST

sendRTS(s) ==
  IF UsesRTS(s.pktTx)
    THEN [s EXCEPT !.pktRTS =
            Frame("RTS", s.index, s.pktTx.ra,
                  usec(3 * setup.SIFS + setup.cts + s.pktTx.time + setup.ack), setup.rts)]
    ELSE s

sendCTS(s, dst, dur) ==
  [s EXCEPT !.pktCTRL =
     Frame("CTS", s.index, dst, usec(dur - setup.SIFS - setup.cts), setup.cts)]

sendACK(s, dst) == [s EXCEPT !.pktCTRL = Frame("ACK", s.index, dst, 0, setup.ack)]

\* transmit(): a frame that is being received is lost.
transmit(s, p, timeout) ==
  LET t == [s EXCEPT !.tx_active = TRUE, !.out = p,
                     !.pktRx = IF s.rx_state = "IDLE" THEN @ ELSE [@ EXCEPT !.error = TRUE]]
  IN Start(Start(t, "mhSend", timeout), "mhIF", p.time)

\* Wait to transmit what is pending: DIFS and a random number of slots
Contend(s, r) ==
  IF setup.bugFix_timer THEN StartBackoff(s, r, DIFS)
  ELSE Start(s, "mhDefer", DIFS + (r % s.cw) * setup.SlotTime)

\* Mutant: a backoff under way is not noticed.
sendAnew(s, p, r) ==
  LET data == [Frame("DATA", s.index, p.ra,
                     IF p.ra = MAC_BROADCAST THEN 0 ELSE usec(setup.ack + setup.SIFS),
                     setup.data[p.size])
                 EXCEPT !.size = p.size, !.seq = s.sta_seqno, !.id = p.id]
      t == sendRTS([s EXCEPT !.callback = TRUE, !.pktTx = data,
                             !.sta_seqno = (@ + 1) % setup.wrap])
  IN IF ~is_idle(t) THEN StartBackoff(t, r, 0)
     ELSE IF t.mhDefer = Off THEN Contend(t, r) ELSE t

\* Mac802_11::send, with the part of sendDATA that builds the frame
send(s, p, r) ==
  LET data == [Frame("DATA", s.index, p.ra,
                     IF p.ra = MAC_BROADCAST THEN 0 ELSE usec(setup.ack + setup.SIFS),
                     setup.data[p.size])
                 EXCEPT !.size = p.size, !.seq = s.sta_seqno, !.id = p.id]
      t == sendRTS([s EXCEPT !.callback = TRUE, !.pktTx = data,
                             !.sta_seqno = (@ + 1) % setup.wrap])
  IN IF BackoffBusy(t) THEN t
     ELSE IF ~is_idle(t) THEN StartBackoff(t, r, 0)
     ELSE IF t.mhDefer = Off THEN Contend(t, r) ELSE t

\* Mutant: an empty queue stays blocked.
resumeBlocked(s, r) ==
  IF s.ifq = <<>> THEN s
  ELSE send([s EXCEPT !.ifq = Tail(@)], Head(s.ifq), r)

\* callback_: the interface queue, Queue::resume, sends its next packet.
resume(s, r) ==
  IF s.ifq = <<>> THEN [s EXCEPT !.callback = FALSE]
  ELSE send([s EXCEPT !.ifq = Tail(@)], Head(s.ifq), r)

tx_resume(s, r) ==
  LET t == CASE s.pktCTRL # None -> Start(s, "mhDefer", setup.SIFS)
             [] s.pktCTRL = None /\ s.pktRTS # None ->
                  IF BackoffBusy(s) THEN s ELSE Contend(s, r)
             [] s.pktCTRL = None /\ s.pktRTS = None /\ s.pktTx # None ->
                  IF BackoffBusy(s) THEN s
                  ELSE IF UsesRTS(s.pktTx) THEN Start(s, "mhDefer", setup.SIFS)
                  ELSE Contend(s, r)
             [] OTHER -> IF s.callback THEN resume(s, r) ELSE s
  IN setTxState(t, "IDLE")

CtsTimeout(p) ==
  setup.cts + 2 * setup.MaxPropagation + p.dur - setup.SIFS - setup.ack
RtsTimeout == setup.rts + 2 * setup.MaxPropagation + setup.SIFS + setup.cts
DataTimeout(p) ==
  IF p.ra = MAC_BROADCAST THEN p.time
  ELSE p.time + 2 * setup.MaxPropagation + setup.SIFS + setup.ack

\* check_pktCTRL() has something to send, and is not -1.
CtrlReady(s) == s.pktCTRL # None /\ s.tx_state \notin {"CTS", "ACK"}

check_pktCTRL(s) ==
  IF s.pktCTRL.type = "ACK"
    THEN transmit(setTxState(s, "ACK"), s.pktCTRL, setup.ack)
  ELSE IF is_idle(s)
    THEN transmit(setTxState(s, "CTS"), s.pktCTRL, CtsTimeout(s.pktCTRL))
  ELSE [s EXCEPT !.pktCTRL = None]

check_pktRTS(s, r) ==
  IF is_idle(s) THEN transmit(setTxState(s, "RTS"), s.pktRTS, RtsTimeout)
  ELSE StartBackoff(inc_cw(s), r, 0)

check_pktTx(s, r) ==
  IF is_idle(s) THEN transmit(setTxState(s, "SEND"), s.pktTx, DataTimeout(s.pktTx))
  ELSE StartBackoff(inc_cw(sendRTS(s)), r, 0)

\* check_pktRTS() and, when it is -1, check_pktTx()
SendPending(s, r) ==
  IF s.pktRTS # None THEN check_pktRTS(s, r)
  ELSE IF s.pktTx # None THEN check_pktTx(s, r)
  ELSE s

-------------------------------------------------------------------------------
(* Retransmission *)

\* The packet is given up, for the reason why.
GiveUp(s, why) ==
  rst_cw([s EXCEPT !.pktTx = None, !.over = [id |-> s.pktTx.id, fate |-> why]])

RetransmitRTS(s, r) ==
  IF s.ssrc + 1 >= setup.ShortRetryLimit
    THEN GiveUp([s EXCEPT !.pktRTS = None, !.ssrc = 0], "NO_CTS")
    ELSE StartBackoff(inc_cw([s EXCEPT !.ssrc = @ + 1]), r, 0)

\* The retry count of a packet, and its limit
Count(p) == IF p.size <= setup.RTSThreshold THEN "ssrc" ELSE "slrc"
Limit(p) == IF p.size <= setup.RTSThreshold THEN setup.ShortRetryLimit
            ELSE setup.LongRetryLimit

RetransmitDATA(s, r) ==
  IF s.pktTx.ra = MAC_BROADCAST
    THEN StartBackoff(rst_cw([s EXCEPT !.pktTx = None,
                                       !.over = [id |-> s.pktTx.id, fate |-> "SENT"]]), r, 0)
  ELSE IF s[Count(s.pktTx)] + 1 >= Limit(s.pktTx)
    THEN GiveUp([s EXCEPT ![Count(s.pktTx)] = 0], "NO_ACK")
  ELSE StartBackoff(inc_cw(sendRTS([s EXCEPT ![Count(s.pktTx)] = @ + 1])), r, 0)

send_timer(s, r) ==
  tx_resume(CASE s.tx_state = "RTS" -> RetransmitRTS(s, r)
              [] s.tx_state = "SEND" -> RetransmitDATA(s, r)
              [] s.tx_state \in {"CTS", "ACK"} -> [s EXCEPT !.pktCTRL = None]
              [] OTHER -> s, r)
-------------------------------------------------------------------------------
(* Receiving *)

\* The first bit of a frame p arrives: Mac802_11::recv, with capture() and
\* collision(), in which the frame that lasts longer is kept.
recv(s, p) ==
  LET q == [p EXCEPT !.error = @ \/ s.tx_active]
  IN IF s.rx_state = "IDLE"
       THEN Start([setRxState(s, "RECV") EXCEPT !.pktRx = q], "mhRecv", q.time)
     ELSE IF <<s.index, s.pktRx.ta, q.ta>> \in setup.captures
       THEN set_nav(s, usec(EIFS + q.time))
     ELSE LET t == setRxState(s, "COLL")
          IN IF q.time > t.mhRecv THEN [t EXCEPT !.pktRx = q, !.mhRecv = q.time] ELSE t

recvRTS(s, p, r) ==
  IF s.tx_state # "IDLE" \/ s.pktCTRL # None THEN s
  ELSE tx_resume(Stop(sendCTS(s, p.ta, p.dur), "mhDefer"), r)

\* Mutant: mhSend_ goes on.
recvCTSRunning(s, p, r) ==
  IF s.tx_state # "RTS" THEN s
  ELSE tx_resume([s EXCEPT !.pktRTS = None, !.ssrc = 0], r)

recvCTS(s, p, r) ==
  IF s.tx_state # "RTS" THEN s
  ELSE tx_resume([Stop(s, "mhSend") EXCEPT !.pktRTS = None, !.ssrc = 0], r)

\* Mutant: the retry count is kept for the next packet.
recvACKCounted(s, p, r) ==
  IF s.tx_state # "SEND" THEN s
  ELSE tx_resume(
         StartBackoff(
           rst_cw([Stop(s, "mhSend") EXCEPT
                     !.pktTx = None,
                     !.over = [id |-> s.pktTx.id, fate |-> "ACKED"]]), r, 0), r)

recvACK(s, p, r) ==
  IF s.tx_state # "SEND" THEN s
  ELSE tx_resume(
         StartBackoff(
           rst_cw([Stop(s, "mhSend") EXCEPT
                     ![Count(s.pktTx)] = 0, !.pktTx = None,
                     !.over = [id |-> s.pktTx.id, fate |-> "ACKED"]]), r, 0), r)

\* Mutant: a packet is a duplicate of the last one of any sender.
FilterShared(s, p) ==
  IF p.ra = MAC_BROADCAST THEN [s EXCEPT !.up = p]
  ELSE IF \E m \in Nodes : s.cache[m] # 0 /\ s.cache[m] = p.seq THEN s
  ELSE [s EXCEPT !.cache[p.ta] = p.seq, !.up = p]

\* Mutant: the last number is kept only if it is new.
FilterFirst(s, p) ==
  IF p.ra = MAC_BROADCAST THEN [s EXCEPT !.up = p]
  ELSE IF s.cache[p.ta] # 0 /\ s.cache[p.ta] = p.seq THEN s
  ELSE [s EXCEPT !.cache[p.ta] = IF @ = 0 THEN p.seq ELSE @, !.up = p]

\* The duplicate filter; number 0 means that nothing was received yet.  cache_
\* has an entry for each node: of a sender beyond cache_node_count_ the code
\* only warns, and passes its packets up unfiltered, which a scenario meets that
\* sets the size of the cache too small.
Filter(s, p) ==
  IF p.ra = MAC_BROADCAST THEN [s EXCEPT !.up = p]
  ELSE IF s.cache[p.ta] # 0 /\ s.cache[p.ta] = p.seq THEN s
  ELSE [s EXCEPT !.cache[p.ta] = p.seq, !.up = p]

recvDATA(s, p, r) ==
  IF p.ra = MAC_BROADCAST THEN Filter(s, p)
  ELSE IF p.size >= setup.RTSThreshold
    THEN IF s.tx_state = "CTS"
           THEN Filter(tx_resume(sendACK(Stop(s, "mhSend"), p.ta), r), p)
           ELSE s
  ELSE IF s.pktCTRL # None THEN s
  ELSE LET t == sendACK(s, p.ta)
       IN Filter(IF t.mhSend = Off THEN tx_resume(t, r) ELSE t, p)

\* A frame without error, from its last bit on
Accept(s, p, r) ==
  LET t == IF p.ra = s.index THEN s ELSE set_nav(s, p.dur)
  IN CASE p.ra \notin {s.index, MAC_BROADCAST} -> t
       [] p.ra \in {s.index, MAC_BROADCAST} /\ p.type = "RTS" -> recvRTS(t, p, r)
       [] p.ra \in {s.index, MAC_BROADCAST} /\ p.type = "CTS" -> recvCTS(t, p, r)
       [] p.ra \in {s.index, MAC_BROADCAST} /\ p.type = "ACK" -> recvACK(t, p, r)
       [] OTHER -> recvDATA(t, p, r)

\* recv_timer(), with rx_resume()
recv_timer(s, r) ==
  LET t == IF s.tx_active THEN s
           ELSE IF s.rx_state = "COLL" \/ s.pktRx.error THEN set_nav(s, usec(EIFS))
           ELSE Accept(s, s.pktRx, r)
  IN setRxState([t EXCEPT !.pktRx = None], "IDLE")

-------------------------------------------------------------------------------
(* Timers that expire *)

backoffHandler(s, r) == IF s.pktCTRL # None THEN s ELSE SendPending(s, r)

deferHandler(s, r) == IF CtrlReady(s) THEN check_pktCTRL(s) ELSE SendPending(s, r)

\* Mutant: the end of the NAV is not noticed.
navHandlerDeaf(s) == s

navHandler(s) == IF is_idle(s) /\ s.paused THEN ResumeBackoff(s) ELSE s

txHandler(s) == [s EXCEPT !.tx_active = FALSE]

Handle(timer, s, r) ==
  CASE timer = "mhBackoff" -> backoffHandler(s, r)
    [] timer = "mhDefer" -> deferHandler(s, r)
    [] timer = "mhSend" -> send_timer(s, r)
    [] timer = "mhRecv" -> recv_timer(s, r)
    [] timer = "mhNav" -> navHandler(s)
    [] timer = "mhIF" -> txHandler(s)

-------------------------------------------------------------------------------
(* The nodes and the channel *)

Hearers(n) == {m \in Nodes : <<n, m>> \in setup.links}

\* Node n has handled an event and is left with the fields of s.
Becomes(n, s) ==
  /\ mac' = [mac EXCEPT ![n] = [s EXCEPT !.out = None, !.up = None, !.over = None]]
  /\ passed' = IF s.up = None THEN passed
               ELSE [passed EXCEPT ![n] = Append(@, <<s.up.ta, s.up.id>>)]
  /\ fate' = IF s.over = None THEN fate
             ELSE [fate EXCEPT ![n][s.over.id] = s.over.fate]
  /\ tries' = IF s.out # None /\ s.out.type = "DATA"
                THEN [tries EXCEPT ![n][s.out.id] = @ + 1] ELSE tries
  /\ UNCHANGED setup

Transmitted(n, s) ==
  [m \in Nodes |-> IF s.out # None /\ m \in Hearers(n)
                     THEN Append(air[m], [frame |-> s.out, left |-> setup.propagation])
                     ELSE air[m]]

Draws == 0 .. setup.CWMax - 1

\* LL hands down a packet: Queue::recv sends it or keeps it.
Arrive(n) ==
  /\ given[n] < Len(setup.traffic[n])
  /\ given' = [given EXCEPT ![n] = @ + 1]
  /\ LET p == [ra |-> setup.traffic[n][given'[n]].ra,
                size |-> setup.traffic[n][given'[n]].size, id |-> given'[n]]
     IN IF mac[n].callback
          THEN Becomes(n, [mac[n] EXCEPT !.ifq = Append(@, p)])
          ELSE \E r \in Draws : Becomes(n, send(mac[n], p, r))
  /\ UNCHANGED <<air, errors>>

Expire(n, timer) ==
  /\ mac[n][timer] = 0
  /\ \E r \in Draws :
       LET s == Handle(timer, [mac[n] EXCEPT ![timer] = Off], r)
       IN Becomes(n, s) /\ air' = Transmitted(n, s)
  /\ UNCHANGED <<given, errors>>

\* The first bit of a frame reaches n; too weak a frame is in error.
Reach(n) ==
  /\ air[n] # <<>> /\ Head(air[n]).left = 0
  /\ air' = [air EXCEPT ![n] = Tail(@)]
  /\ \/ Becomes(n, recv(mac[n], Head(air[n]).frame)) /\ UNCHANGED errors
     \/ /\ errors < setup.errors
        /\ errors' = errors + 1
        /\ Becomes(n, recv(mac[n], [Head(air[n]).frame EXCEPT !.error = TRUE]))
  /\ UNCHANGED given

\* The times until the next events
Pending ==
  (UNION {{mac[n][t] : t \in Timers} \cup {air[n][i].left : i \in DOMAIN air[n]} :
            n \in Nodes}) \ {Off}

Sooner(t, d) == IF t = Off THEN Off ELSE t - d

\* Time passes to the next event.
Tick ==
  /\ 0 \notin Pending
  /\ \E d \in Pending :
       /\ \A e \in Pending : d <= e
       /\ mac' = [n \in Nodes |-> [f \in DOMAIN mac[n] |->
                    IF f \in Timers THEN Sooner(mac[n][f], d) ELSE mac[n][f]]]
       /\ air' = [n \in Nodes |-> [i \in DOMAIN air[n] |->
                    [air[n][i] EXCEPT !.left = @ - d]]]
  /\ UNCHANGED <<setup, given, errors, passed, fate, tries>>

Next ==
  \/ Tick
  \/ \E n \in Nodes : Arrive(n) \/ Reach(n) \/ \E t \in Timers : Expire(n, t)

Spec == Init /\ [][Next]_vars

\* Every event the scheduler holds is dispatched: time passes to the next
\* event, and events that are due do not wait for ever.
FairSpec ==
  /\ Spec /\ WF_vars(Tick)
  /\ []<>(0 \notin Pending) \/ []<><<TRUE>>_vars
-------------------------------------------------------------------------------
(* Properties *)

TypeOK ==
  /\ setup \in Setups
  /\ \A n \in Nodes : LET s == mac[n] IN
       /\ s.tx_state \in {"IDLE", "RTS", "CTS", "SEND", "ACK"}
       /\ s.rx_state \in {"IDLE", "RECV", "COLL"}
       /\ s.tx_active \in BOOLEAN /\ s.paused \in BOOLEAN /\ s.callback \in BOOLEAN
       /\ {s.pktTx, s.pktRTS, s.pktCTRL, s.pktRx} \subseteq Frames \cup {None}
       /\ \A t \in Timers : s[t] \in Nat \cup {Off}
       /\ s.left \in 0 .. setup.CWMax - 1 /\ s.cw \in setup.CWMin .. setup.CWMax
       /\ s.ssrc \in Nat /\ s.slrc \in Nat
       /\ s.cache \in [Nodes -> 0 .. setup.wrap - 1]
       /\ s.out = None /\ s.up = None /\ s.over = None
       /\ \A i \in DOMAIN air[n] : air[n][i].frame \in Frames /\ air[n][i].left \in Nat
  /\ errors \in 0 .. setup.errors

(***************************************************************************)
(* No handler starts a timer that is busy: tx_resume() asserts that        *)
(* mhSend_ and mhDefer_ are not, Retransmit*() and recvACK() that          *)
(* mhBackoff_ is not, and Scheduler::schedule() aborts on an event that is *)
(* scheduled already.                                                      *)
(***************************************************************************)
NoTimerTwice == \A n \in Nodes : ~mac[n].failed

(***************************************************************************)
(* tx_state_ tells which packet is on the air: what send_timer(),          *)
(* recvCTS() and recvACK() then take for granted, and dereference, is      *)
(* there.                                                                  *)
(***************************************************************************)
StateMatchesPackets ==
  \A n \in Nodes : LET s == mac[n] IN
    /\ s.tx_state = "RTS" => s.pktRTS # None /\ s.pktTx # None
    /\ s.tx_state = "SEND" => s.pktTx # None /\ s.pktRTS = None
    /\ s.tx_state \in {"CTS", "ACK"} => s.pktCTRL # None /\ s.pktCTRL.type = s.tx_state
    /\ s.tx_state # "IDLE" <=> s.mhSend # Off
    /\ s.rx_state # "IDLE" <=> s.mhRecv # Off
    /\ s.rx_state # "IDLE" <=> s.pktRx # None
    /\ s.pktTx # None => s.callback

(***************************************************************************)
(* A node whose backoff is paused finds the medium busy, so that a change  *)
(* of rx_state_ or tx_state_ or the end of the NAV is still to come, which *)
(* resumes it (checkBackoffTimer(), navHandler()).                         *)
(***************************************************************************)
PausedWhileBusy ==
  \A n \in Nodes : mac[n].paused /\ mac[n].mhNav # 0 => ~is_idle(mac[n])

(***************************************************************************)
(* The packets of a sender are passed up in the order it sent them, and    *)
(* none twice, however many acknowledgements are lost (recvDATA(),         *)
(* cache_), except that the packet whose number is 0 when dh_scontrol      *)
(* wraps may be passed up again: 0 in cache_ means that there is none yet. *)
(***************************************************************************)
InOrderOnce ==
  \A n \in Nodes : \A i, j \in DOMAIN passed[n] :
    i < j /\ passed[n][i][1] = passed[n][j][1] =>
      \/ passed[n][i][2] < passed[n][j][2]
      \/ passed[n][i][2] = passed[n][j][2] /\ passed[n][j][2] % setup.wrap = 0

(***************************************************************************)
(* An acknowledged packet has reached its receiver (recvACK(), which does  *)
(* not look at who sent the ACK and for what).                             *)
(***************************************************************************)
AckedIsPassed ==
  \A n \in Nodes : \A i \in DOMAIN fate[n] :
    fate[n][i] = "ACKED" =>
      \E k \in DOMAIN passed[setup.traffic[n][i].ra] :
        passed[setup.traffic[n][i].ra][k] = <<n, i>>

(***************************************************************************)
(* No packet is transmitted more often than its retry limit allows, and    *)
(* one that is given up for want of an ACK has been transmitted that often *)
(* unless slrc_ was left over: RetransmitRTS() gives a packet up without   *)
(* clearing it.  A packet of exactly RTSThreshold bytes has no limit: each *)
(* CTS clears the count, ssrc_, in which RetransmitDATA() counts it.       *)
(***************************************************************************)
FullRetries ==
  \A n \in Nodes : \A i \in DOMAIN tries[n] : LET p == setup.traffic[n][i] IN
    p.size # setup.RTSThreshold =>
      /\ tries[n][i] <= Limit(p)
      /\ fate[n][i] = "NO_ACK" /\ tries[n][i] < Limit(p) =>
           \E j \in 1 .. i - 1 : fate[n][j] = "NO_CTS"

(***************************************************************************)
(* A node with a packet to send waits for something: when no event is      *)
(* pending on any node, no packet is left and no interface queue blocked.  *)
(* send() takes this for granted when a timer is busy: "If we are already  *)
(* deferring, there is no need to reset the Defer timer."                  *)
(***************************************************************************)
NothingLeft == Pending = {} => \A n \in Nodes : mac[n].pktTx = None /\ ~mac[n].callback

(***************************************************************************)
(* Every packet handed to the MAC is done with, and the interface queue    *)
(* gets its callback (tx_resume()).                                        *)
(***************************************************************************)
EveryPacketOver ==
  \A n \in Nodes : mac[n].callback ~> ~mac[n].callback
================================================================================
