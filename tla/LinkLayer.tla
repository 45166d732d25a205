------------------------------- MODULE LinkLayer -------------------------------
(***************************************************************************)
(* The layers between an agent and the channel on a wireless node: LL,     *)
(* its ARPTable, the interface queue Queue/DropTail/PriQueue and the base  *)
(* Mac.  A packet for a node whose address is not known waits in the ARP   *)
(* entry, which holds one packet; the queue holds what the Mac, busy with  *)
(* a transmission, cannot take.                                            *)
(*                                                                         *)
(* A packet is a record: type ("IP", "RTR" for a routing protocol's,       *)
(* "REQ" and "REP" of ARP), src, dst (a node or Everyone), seq, its number *)
(* among the IP packets of src, target, the node a REQ asks for, and       *)
(* error.  Reception starts with a packet's first bit, so what the Mac     *)
(* sends is at once under way to the receivers' LL; a receiver may get     *)
(* nothing (Pr < CSThresh_) or a packet in error (Pr < RXThresh_).         *)
(***************************************************************************)
EXTENDS Integers, Sequences, SequencesExt, FiniteSets

CONSTANTS
  Nodes,
  Reader,        \* the node of the RFID reader
  Everyone,      \* IP_BROADCAST, MAC_BROADCAST
  None,          \* no packet
  Setups         \* how the nodes may be set up, see below

\* A set-up: do nodes send only what the RFID agents send; limit_ and
\* drop_front_ of the queues; ARP_MAX_REQUEST_COUNT; and bounds on the IP packets of each node, on a
\* routing protocol's packets, on receptions that fail and on resets.
SetupRecords ==
  [rfid : BOOLEAN, limit : Nat, drop_front : BOOLEAN, requests : Nat,
   sent : [Nodes -> Nat], routing : Nat, faults : Nat, resets : Nat]

ASSUME LinkAssumption ==
  /\ IsFiniteSet(Nodes) /\ Reader \in Nodes /\ Everyone \notin Nodes
  /\ Setups \subseteq SetupRecords

VARIABLES
  setup,     \* one of Setups, which never changes
  arp,       \* arp[n][d]: the ARPEntry of n for d
  sched,     \* packets scheduled for the queue of a node, in order of arrival
  ifq,       \* the interface queue
  blocked,   \* blocked_: the Mac is sending a packet of this queue
  rx,        \* rx[n][m]: packets of m under way to the LL of n
  seqno,     \* the number of IP packets a node has sent
  routing, faults, resets,
  (* History, which only the guards of RFID traffic read: *)
  sent,      \* the number of the packet a channel was given last
  got,       \* the number of the packet a channel delivered last
  dropped    \* has a queue overflowed, or ARP given up?

vars == <<setup, arp, sched, ifq, blocked, rx, seqno, routing, faults, resets,
          sent, got, dropped>>

\* Unicast and broadcast packets are channels apart, except in RFID traffic,
\* where a tag must get its reader's acknowledgements and queries in order.
Channels == {c \in Nodes \X Nodes \X {"UNI", "ALL", "RFID"} : c[1] # c[2]}

Cast(p) == IF setup.rfid THEN "RFID" ELSE IF p.dst = Everyone THEN "ALL" ELSE "UNI"

\* The channels that packet p of an agent goes through
Uses(p, c) == p.type = "IP" /\ c[1] = p.src /\ c[3] = Cast(p) /\ p.dst \in {c[2], Everyone}

NoEntry == [up |-> FALSE, hold |-> None, count |-> 0]

Init ==
  /\ setup \in Setups
  /\ arp = [n \in Nodes |-> [d \in Nodes |-> NoEntry]]
  /\ sched = [n \in Nodes |-> <<>>]
  /\ ifq = [n \in Nodes |-> <<>>]
  /\ blocked = [n \in Nodes |-> FALSE]
  /\ rx = [n \in Nodes |-> [m \in Nodes |-> <<>>]]
  /\ seqno = [n \in Nodes |-> 0]
  /\ routing = 0 /\ faults = 0 /\ resets = 0 /\ dropped = FALSE
  /\ sent = [c \in Channels |-> 0]
  /\ got = [c \in Channels |-> 0]

Packet(type, src, dst, seq, target) ==
  [type |-> type, src |-> src, dst |-> dst, seq |-> seq, target |-> target,
   error |-> FALSE]

-------------------------------------------------------------------------------
\* Scheduling for the queue.  LL's delay_ is 25us and ARPTable's 5us: what ARP
\* schedules may overtake what LL has scheduled, not what ARP has, and LL's
\* next packet comes after both.

LLSchedules(n, p) == Append(sched[n], [pkt |-> p, byArp |-> FALSE])

ArpSchedules(n, ps) ==
  {SubSeq(sched[n], 1, i)
     \o [j \in 1 .. Len(ps) |-> [pkt |-> ps[j], byArp |-> TRUE]]
     \o SubSeq(sched[n], i + 1, Len(sched[n])) :
       i \in {i \in 0 .. Len(sched[n]) : \A j \in i + 1 .. Len(sched[n]) : ~sched[n][j].byArp}}

\* Mutant: ARP never gives up.
ResolveEndless(n, p) ==
  LET e == arp[n][p.dst]
  IN \/ /\ e.up
        /\ sched' = [sched EXCEPT ![n] = LLSchedules(n, p)]
        /\ UNCHANGED <<arp, dropped>>
     \/ /\ ~e.up
        /\ arp' = [arp EXCEPT ![n][p.dst].count = @ + 1, ![n][p.dst].hold = p]
        /\ \E s \in ArpSchedules(n, <<Packet("REQ", n, Everyone, 0, p.dst)>>) :
             sched' = [sched EXCEPT ![n] = s]
        /\ UNCHANGED dropped

\* Mutant: the packet held first is kept.
ResolveKeeps(n, p) ==
  LET e == arp[n][p.dst]
  IN \/ /\ e.up
        /\ sched' = [sched EXCEPT ![n] = LLSchedules(n, p)]
        /\ UNCHANGED <<arp, dropped>>
     \/ /\ ~e.up /\ e.count >= setup.requests
        /\ arp' = [arp EXCEPT ![n][p.dst].count = 0, ![n][p.dst].hold = None]
        /\ dropped' = TRUE
        /\ UNCHANGED sched
     \/ /\ ~e.up /\ e.count < setup.requests
        /\ arp' = [arp EXCEPT ![n][p.dst].count = @ + 1,
                        ![n][p.dst].hold = IF @ = None THEN p ELSE @]
        /\ \E s \in ArpSchedules(n, <<Packet("REQ", n, Everyone, 0, p.dst)>>) :
             sched' = [sched EXCEPT ![n] = s]
        /\ UNCHANGED dropped

\* ARPTable::arpresolve
Resolve(n, p) ==
  LET e == arp[n][p.dst]
  IN \/ /\ e.up
        /\ sched' = [sched EXCEPT ![n] = LLSchedules(n, p)]
        /\ UNCHANGED <<arp, dropped>>
     \/ /\ ~e.up /\ e.count >= setup.requests
        /\ arp' = [arp EXCEPT ![n][p.dst].count = 0, ![n][p.dst].hold = None]
        /\ dropped' = TRUE
        /\ UNCHANGED sched
     \/ /\ ~e.up /\ e.count < setup.requests
        /\ arp' = [arp EXCEPT ![n][p.dst].count = @ + 1, ![n][p.dst].hold = p]
        /\ \E s \in ArpSchedules(n, <<Packet("REQ", n, Everyone, 0, p.dst)>>) :
             sched' = [sched EXCEPT ![n] = s]
        /\ UNCHANGED dropped

\* What the RFID agents send: a reader queries, and acknowledges a tag that
\* has answered; a tag answers a reader that has queried.
RfidSends(n, d) ==
  \/ n = Reader /\ d = Everyone
  \/ n = Reader /\ d \in Nodes /\ got[<<d, Reader, "RFID">>] > 0
  \/ n # Reader /\ d = Reader /\ got[<<Reader, n, "RFID">>] > 0

\* LL::sendDown of an agent's packet
Send(n, d) ==
  LET p == Packet("IP", n, d, seqno[n] + 1, None)
  IN /\ seqno[n] < setup.sent[n]
     /\ setup.rfid => RfidSends(n, d)
     /\ seqno' = [seqno EXCEPT ![n] = @ + 1]
     /\ sent' = [c \in Channels |-> IF Uses(p, c) THEN p.seq ELSE sent[c]]
     /\ IF d = Everyone
          THEN /\ sched' = [sched EXCEPT ![n] = LLSchedules(n, p)]
               /\ UNCHANGED <<arp, dropped>>
          ELSE Resolve(n, p)
     /\ UNCHANGED <<setup, ifq, blocked, rx, routing, faults, resets, got>>

\* A routing protocol broadcasts.
SendRouting(n) ==
  /\ ~setup.rfid /\ routing < setup.routing
  /\ routing' = routing + 1
  /\ sched' = [sched EXCEPT ![n] = LLSchedules(n, Packet("RTR", n, Everyone, 0, None))]
  /\ UNCHANGED <<setup, arp, ifq, blocked, rx, seqno, faults, resets, sent, got, dropped>>

-------------------------------------------------------------------------------
\* PriQueue::recv: a routing packet goes to the head and may push out the
\* last one; another packet is refused, or pushes out the first one, when the
\* queue would reach its limit (DropTail::enque).
Full(n) == Len(ifq[n]) + 1 >= setup.limit

Enque(n, p) ==
  IF p.type = "RTR" THEN IF Full(n) THEN Front(<<p>> \o ifq[n]) ELSE <<p>> \o ifq[n]
  ELSE IF ~Full(n) THEN Append(ifq[n], p)
  ELSE IF setup.drop_front THEN Tail(Append(ifq[n], p))
  ELSE ifq[n]

\* Mac::sendDown, the channel and WirelessPhy::sendUp: each receiver that the
\* Mac's address filter lets have the packet gets it, gets it in error, or not.
Transmit(n, p) ==
  \E outcome \in [Nodes -> {"ok", "error", "none"}] :
    LET receivers == IF p.dst = Everyone THEN Nodes \ {n} ELSE {p.dst}
    IN /\ \A m \in Nodes \ receivers : outcome[m] = "none"
       /\ faults' = faults + Cardinality({m \in receivers : outcome[m] # "ok"})
       /\ faults' <= setup.faults
       /\ rx' = [m \in Nodes |->
                   IF outcome[m] = "none" THEN rx[m]
                   ELSE [rx[m] EXCEPT ![n] =
                           Append(@, [p EXCEPT !.error = (outcome[m] = "error")])]]

\* Queue::recv and PriQueue::recvHighPriority: a packet reaches the queue,
\* which, unless the Mac is busy, hands the first one on.
ToQueue(n) ==
  /\ sched[n] # <<>>
  /\ LET q == Enque(n, Head(sched[n]).pkt)
     IN /\ dropped' = (dropped \/ Full(n))
        /\ IF blocked[n] \/ q = <<>>
             THEN /\ ifq' = [ifq EXCEPT ![n] = q]
                  /\ UNCHANGED <<blocked, rx, faults>>
             ELSE /\ Transmit(n, Head(q))
                  /\ ifq' = [ifq EXCEPT ![n] = Tail(q)]
                  /\ blocked' = [blocked EXCEPT ![n] = TRUE]
  /\ sched' = [sched EXCEPT ![n] = Tail(@)]
  /\ UNCHANGED <<setup, arp, seqno, routing, resets, sent, got>>

\* Mutant: the queue unblocks without looking for the next packet.
ResumeIdle(n) ==
  /\ blocked[n]
  /\ blocked' = [blocked EXCEPT ![n] = FALSE]
  /\ UNCHANGED <<ifq, rx, faults>>
  /\ UNCHANGED <<setup, arp, sched, seqno, routing, resets, sent, got, dropped>>

\* Mac::resume and Queue::resume: a transmission has ended.
Resume(n) ==
  /\ blocked[n]
  /\ IF ifq[n] = <<>>
       THEN blocked' = [blocked EXCEPT ![n] = FALSE] /\ UNCHANGED <<ifq, rx, faults>>
       ELSE /\ Transmit(n, Head(ifq[n]))
            /\ ifq' = [ifq EXCEPT ![n] = Tail(@)]
            /\ UNCHANGED blocked
  /\ UNCHANGED <<setup, arp, sched, seqno, routing, resets, sent, got, dropped>>

-------------------------------------------------------------------------------
Arrives(n, m) == rx[n][m] # <<>> /\ rx' = [rx EXCEPT ![n][m] = Tail(@)]

\* LL::sendUp: a packet in error is dropped.
ReceiveUp(n, m) ==
  /\ Arrives(n, m)
  /\ LET p == Head(rx[n][m])
     IN /\ p.type \in {"IP", "RTR"}
        /\ got' = [c \in Channels |->
                     IF Uses(p, c) /\ c[2] = n /\ ~p.error THEN p.seq ELSE got[c]]
  /\ UNCHANGED <<setup, arp, sched, ifq, blocked, seqno, routing, faults, resets, sent,
                 dropped>>

\* Mutant: a node that has no packet for the sender does not note its address.
ReceiveArpForgetful(n, m) ==
  /\ Arrives(n, m)
  /\ LET p == Head(rx[n][m])
         held == IF arp[n][m].hold = None THEN <<>> ELSE <<arp[n][m].hold>>
         reply == IF p.type = "REQ" /\ p.target = n
                    THEN <<Packet("REP", n, m, 0, None)>> ELSE <<>>
     IN /\ p.type \in {"REQ", "REP"}
        /\ arp' = [arp EXCEPT ![n][m].up = held # <<>>, ![n][m].hold = None]
        /\ \E s \in ArpSchedules(n, held \o reply) : sched' = [sched EXCEPT ![n] = s]
  /\ UNCHANGED <<setup, ifq, blocked, seqno, routing, faults, resets, sent, got, dropped>>

\* Mutant: the reply names its receiver as its sender (arp_spa, arp_tpa not swapped).
ReceiveArpUnswapped(n, m) ==
  /\ Arrives(n, m)
  /\ LET p == Head(rx[n][m])
         from == IF p.type = "REQ" THEN m ELSE n
         held == IF arp[n][from].hold = None THEN <<>> ELSE <<arp[n][from].hold>>
         reply == IF p.type = "REQ" /\ p.target = n
                    THEN <<Packet("REP", n, m, 0, None)>> ELSE <<>>
     IN /\ p.type \in {"REQ", "REP"}
        /\ arp' = [arp EXCEPT ![n][from].up = TRUE, ![n][from].hold = None]
        /\ \E s \in ArpSchedules(n, held \o reply) : sched' = [sched EXCEPT ![n] = s]
  /\ UNCHANGED <<setup, ifq, blocked, seqno, routing, faults, resets, sent, got, dropped>>

\* ARPTable::arpinput, of packets in error too: the sender's address is known
\* now, the packet held for it leaves, and a request for n is answered.
ReceiveArp(n, m) ==
  /\ Arrives(n, m)
  /\ LET p == Head(rx[n][m])
         held == IF arp[n][m].hold = None THEN <<>> ELSE <<arp[n][m].hold>>
         reply == IF p.type = "REQ" /\ p.target = n
                    THEN <<Packet("REP", n, m, 0, None)>> ELSE <<>>
     IN /\ p.type \in {"REQ", "REP"}
        /\ arp' = [arp EXCEPT ![n][m].up = TRUE, ![n][m].hold = None]
        /\ \E s \in ArpSchedules(n, held \o reply) : sched' = [sched EXCEPT ![n] = s]
  /\ UNCHANGED <<setup, ifq, blocked, seqno, routing, faults, resets, sent, got, dropped>>

\* ARPTable::Terminate and PriQueue::Terminate, on the reset of a node
Reset(n) ==
  /\ resets < setup.resets
  /\ resets' = resets + 1
  /\ arp' = [arp EXCEPT ![n] = [d \in Nodes |-> [@[d] EXCEPT !.hold = None]]]
  /\ ifq' = [ifq EXCEPT ![n] = <<>>]
  /\ UNCHANGED <<setup, sched, blocked, rx, seqno, routing, faults, sent, got, dropped>>

Next ==
  \E n \in Nodes :
    \/ \E d \in (Nodes \cup {Everyone}) \ {n} : Send(n, d)
    \/ SendRouting(n) \/ ToQueue(n) \/ Resume(n) \/ Reset(n)
    \/ \E m \in Nodes \ {n} : ReceiveUp(n, m) \/ ReceiveArp(n, m)

Spec == Init /\ [][Next]_vars

\* The scheduler dispatches every event it holds.
FairSpec ==
  /\ Spec
  /\ \A n \in Nodes :
       /\ WF_vars(ToQueue(n)) /\ WF_vars(Resume(n))
       /\ \A m \in Nodes \ {n} : WF_vars(ReceiveUp(n, m)) /\ WF_vars(ReceiveArp(n, m))

-------------------------------------------------------------------------------
Packets ==
  [type : {"IP", "RTR", "REQ", "REP"}, src : Nodes, dst : Nodes \cup {Everyone},
   seq : Nat, target : Nodes \cup {None}, error : BOOLEAN]

TypeOK ==
  /\ setup \in Setups
  /\ arp \in [Nodes -> [Nodes -> [up : BOOLEAN, hold : Packets \cup {None},
                                  count : 0 .. setup.requests]]]
  /\ sched \in [Nodes -> Seq([pkt : Packets, byArp : BOOLEAN])]
  /\ ifq \in [Nodes -> Seq(Packets)]
  /\ blocked \in [Nodes -> BOOLEAN]
  /\ rx \in [Nodes -> [Nodes -> Seq(Packets)]]
  /\ seqno \in [Nodes -> Nat] /\ \A n \in Nodes : seqno[n] <= setup.sent[n]
  /\ sent \in [Channels -> Nat] /\ got \in [Channels -> Nat]
  /\ faults \in 0 .. setup.faults /\ resets \in 0 .. setup.resets
  /\ routing \in 0 .. setup.routing /\ dropped \in BOOLEAN

\* The packets of node s, in the queue or before it
Queued(s) == ToSet(ifq[s]) \cup {e.pkt : e \in ToSet(sched[s])}

\* The packets of node s that have not reached the LL of node n
UnderWay(s, n) == ToSet(rx[n][s]) \cup Queued(s) \cup ({arp[s][n].hold} \ {None})

transit ==
  [c \in Channels |->
     {p.seq : p \in {q \in UnderWay(c[1], c[2]) : Uses(q, c) /\ ~q.error}}]

Fifo == INSTANCE LossyFifo

(***************************************************************************)
(* The layers implement a lossy FIFO channel: between two nodes no packet  *)
(* of an agent is delivered twice or overtakes another, whatever ARP holds *)
(* back, the queue drops or the channel loses.  With RFID traffic this     *)
(* includes a reader's acknowledgements and queries to a tag, which is     *)
(* what RfidInventory assumes of the link (arp.cc, ll.cc, priqueue.cc).    *)
(***************************************************************************)
ImplementsFifo == Fifo!Spec

(***************************************************************************)
(* A packet that ARP holds is on its way to being sent: as long as nothing *)
(* was lost, a request for its destination or the answer to one is under   *)
(* way, since ARP has no timer to send a second request (arp.cc:188).      *)
(***************************************************************************)
HeldAwaitsArp ==
  faults = 0 /\ resets = 0 /\ ~dropped =>
    \A n, d \in Nodes :
      arp[n][d].hold # None =>
        \/ \E p \in UnderWay(n, d) : p.type = "REQ" /\ p.target = d
        \/ \E p \in UnderWay(d, n) : p.type = "REP" /\ p.dst = n

(***************************************************************************)
(* The queue never waits for a transmission that is not there: if packets  *)
(* are queued, the Mac is busy and will resume the queue; and no packet is *)
(* held for a node whose address is known (queue.cc, blocked_; arp.cc).    *)
(***************************************************************************)
NothingStranded ==
  \A n \in Nodes :
    /\ ifq[n] # <<>> => blocked[n]
    /\ \A d \in Nodes : arp[n][d].up => arp[n][d].hold = None

(***************************************************************************)
(* When nothing was lost, the last packet sent to a node gets there: one   *)
(* held by ARP may be replaced by a newer one, but not left behind.        *)
(***************************************************************************)
LastPacketArrives ==
  <>[](faults = 0 /\ resets = 0 /\ ~dropped => \A c \in Channels : got[c] = sent[c])
================================================================================
