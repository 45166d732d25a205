# A TLA+ model of the RFID module for ns-2

`ns-2_rfid` is ns-2.35 with two agents added in `ns-2.35/apps/`: a reader
(`rfidReader.cc`) and a tag (`rfidTag.cc`), which exchange the header of
`rfidPacket.h`. A scenario (a Tcl script) places readers and many passive tags
on wireless nodes and orders a reader to take an *inventory* (to find out which
tags are there although all of them share the channel) or to *track* tags (to
notice which reader a tag is near to). These modules model the agents and the
parts of the simulator they run on, from the event queue to the MAC, and check
that each part keeps what the next one above relies on.

## Inventory of the system

| Part | State | Operations | Why it is hard |
|---|---|---|---|
| Reader agent (`rfidReader.{cc,h}`) | Q or frame size, slot numbers, `counter_` (answers in the slot), `tagEPC_` (last answer), slot statistics, two timers | Tcl commands `standard-query-tags`, `standard-with-estimation`, `edfsa-query`, `estimation-dfsa-query`, `query-tags`; `recv`; `rs_timer_` and `col_timer_` expiring | it decides by time-outs about answers that may still be under way; commands restart it without resetting everything; one handler sends two packets |
| Tag agent (`rfidTag.{cc,h}`) | `state_`, `slot_`, `memory2_`, `id_` | `recv` for each service; random slots (`updateSlot`, `updateSlot2`) | it obeys stale packets like fresh ones, and every reader; it stays acknowledged across sessions |
| Packet header (`rfidPacket.h`) | - | - | one field set serves five procedures |
| Link (`ll.cc`, `arp.cc`, `priqueue.cc`, `queue.cc`, `mac.cc`) | ARP entries with one held packet, interface queue, `blocked_` | send down, ARP request and reply, resume, delivery, loss | ARP has no timer; a blocked queue waits for a callback; routing packets and ARP jump the queue |
| 802.11 MAC (`mac-802_11.{cc,h}`, `mac-timers.cc`) | `tx_state_`, `rx_state_`, three pending packets, six timers, contention window, retry counts, duplicate cache | send, first bit and last bit of a frame, expiry of each timer | hidden senders, lost ACKs, several timers per node, handlers that start and stop each other's timers |
| Timers (`timer-handler.cc`) | idle, pending, handling | `sched`, `resched`, `cancel`, `handle` | all of them may be called inside `expire()` |
| Event scheduler (`scheduler.cc`, `splay-scheduler.cc`, `scheduler-map.cc`) | the queue, `clock_`, `uid_`, `halted_` | schedule, cancel, dispatch, halt, resume | six queues must agree on the order of events of one time; the calendar moves its events while it runs |
| Trace (`cmu-trace.cc`), Tcl defaults and scenarios | - | formatting, configuration | - |
| `mac-rfid`, `macRfid-timers`, `rfid-phy` | - | - | renamed copies of ns-2's 802.11 MAC and PHY that the Makefile does not build |
| The rest of ns-2.35 | - | - | upstream simulator |

How they interact: a command or a timer makes the reader send at most one
acknowledgement to one tag and then at most one broadcast. Packets go down
through LL and ARP, wait in the interface queue while the MAC is busy, and
reach the receivers' agents through their MACs and LLs. Each tag handles a
packet at once and may answer with one packet. The reader counts answers until
its timer expires, and then decides: idle slot, success, or collision. Every
step is an event of the scheduler.

What makes the parts correct:

* an inventory that ends by its own rule has read every tag, except those
  whose packets the link lost or delayed (`NoSilentMiss`), also when several
  readers disturb each other (`NoTagLeftOut`), and it ends (`Terminates`);
* the reader's idea of a slot is what happened in it: `counter_` counts the
  answers that come in it and the tags that have drawn it (`IdleSlot`,
  `CountTellsSlot`, `EmptySlot`), and the successes it reports are the tags it
  read (`SuccessCount`);
* a tracked tag is silent only to a reader that has heard it, and every reader
  goes on hearing of it (`SilentOnlyWhenHeard`, `HeardOncePerVisit`,
  `EachReaderTracks`);
* the link is a lossy FIFO and forgets no packet (`ImplementsFifo`,
  `HeldAwaitsArp`, `NothingStranded`, `LastPacketArrives`);
* the MAC passes up packets once and in order, believes only acknowledgements
  that mean something, and is done with every packet (`InOrderOnce`,
  `AckedIsPassed`, `FullRetries`, `EveryPacketOver`), without starting a busy
  timer or losing a wake-up (`NoTimerTwice`, `PausedWhileBusy`);
* timers expire when asked (`ExpiresWhenAsked`, `PendingIffQueued`,
  `PendingExpires`), and events are dispatched in order whichever queue holds
  them (`InOrder`, `NotBackwards`, `ImplementsEventQueue`).

`PROJECT.json` lists what can go wrong, line by line, under `hazards`.

## Modules

| Module | Models |
|---|---|
| `RfidPacket` | the header's fields and the enumerations |
| `RfidTag` | `RfidTagAgent::recv` as an operator from a tag's fields and a packet to the set of outcomes (new fields, answer); `DrawSlot` is `updateSlot()`, `DrawSlot2` is `updateSlot2()` |
| `RfidReader` | the methods of `RfidReaderAgent`, each an operator on the record of its fields; where rounding or `eomlee()` leaves the result open it is a set |
| `RfidInventory` | one reader, its tags and FIFO links: one action per event (the four commands, `RsTimeout`, `ColTimeout`, `TagReceives`, `ReaderReceives`, the losses) |
| `RfidTermination`, `MCRfidTermination` | fairness and termination of an inventory |
| `RfidReaders` | several readers with the Q algorithm on the same tags, composed of `RfidReader` and `RfidTag` |
| `RfidTracking` | `query-tags`: queries, answers at once or after a random time, confirmations |
| `LossyFifo` | the abstract link that `RfidInventory` assumes |
| `LinkLayer` | LL, ARP, interface queue and base `Mac`; refines `LossyFifo` |
| `Mac802_11` | `Mac/802_11` in ad hoc mode on the nodes of one channel |
| `EventQueue` | the abstract scheduler |
| `ListScheduler`, `HeapScheduler`, `SplayScheduler`, `MapScheduler`, `CalendarScheduler` | the queues as operators |
| `Scheduler` | the scheduler with each of these queues, and the real-time clock; refines `EventQueue` |
| `TimerHandler` | `TimerHandler` on `EventQueue` |
| `RfidAgentProofs` | lemmas about the agents' methods, which the next two use |
| `RfidInventoryProofs`, `RfidReadersProofs` | theorems about `RfidInventory` and `RfidReaders` and their proofs |
| `TrackingProofs`, `LinkProofs` | about `RfidTracking` and `LinkLayer` |
| `MacProofs`, `MacDeliveryProofs` | about `Mac802_11`: a node by itself, and the packets between nodes |
| `TimerProofs` | about `EventQueue` and `TimerHandler` |
| `MC...` | the instances for TLC |

A module of several set-ups (`LinkLayer`, `Scheduler`, `Mac802_11`) has a
variable `setup` that Init chooses and no action changes, so that one run
covers them all.

### Correspondence and abstraction

**RFID.** `rd.x` is the field `x_`. Left out are fields that only reach the
trace file (`slotCounter_`, `total_`, `bigQ_`, `session_`, `rng16_`, `suc_`,
and `idle_` outside the estimation). `memory_` of a tag is written immediately
before its only use. `tagIP_` is the address of the tag in `tagEPC_`. `Qfp_`
and `c_` are integers in units of `1/Unit`; when the exact value of `Qfp_` is
halfway between two integers, its accumulated rounding error decides, so
`RoundQ` gives both. `exact` remembers whether the double `Qfp_` equals its own
rounding to float, which is what the comparison with the float `finalQ_`
depends on. `eomlee()` is the interval of frame sizes it can return (at least
two slots per collision, at most `MaxRatio`). `CommandEstimation` requires
`estMethod_` other than 3, because only `estimation-dfsa-query` prepares the
slot counter for operation 4. A scenario sets `service_` to match its command,
which the guards on `Service` say. A timer that expires while packets are under
way models a `t2_` too short for the load of the queue; `late` counts such
expiries. `answered` and `disturbed` are history: the tags whose answers have
come since the last command or expiry, and the tags that a loss or a delay
excuses.

In `RfidTracking` a tag out of range is a tag whose packets are lost; `patient`
readers query only when their last query is settled. In `RfidReaders` a tag's
`served` is seen from the reader at hand: it says that `id_` is this reader's.

**Link.** Reception starts with the first bit, so what the Mac sends is at once
under way to the receivers. The refinement mapping takes for the packets under
way on a channel those that are held by ARP, scheduled, queued or in the air
(`UnderWay`), and a packet that ARP or the queue drops for a loss. A channel of
`LossyFifo` is the set of its packets' numbers: a packet delivered is newer than
those before it, older ones still under way are then lost, and any may be lost
earlier. In RFID set-ups unicast and
broadcast packets of a reader are one channel, because a tag must get
acknowledgements and queries in order: a reader acknowledges only a tag that
has answered, whose address ARP has thus learned. With other traffic they are
two, since ARP may hold the unicast packet back.

**802.11.** A node is a record with the fields of the class; a handler maps it
to the record it leaves, with the frame transmitted in `out`, the packet passed
up in `up` and the packet done with in `over`. A timer is the time it has left,
in microseconds. Time jumps to the next event, and events of one instant come
in any order. Packets arrive from LL at instants at which something else
happens or while nothing is pending. Received power is abstracted to `links`,
`captures` and frames received in error. `usec()` keeps its 16 bits. The
duplicate filter has an entry for each node; left out is its branch for a sender
beyond `cache_node_count_`, which passes packets up unfiltered and which only a
scenario meets that sets the cache too small.
`MacAssumption` asks of a set-up that retry limits and slots are at least 1,
that packets have a size with a known duration, and that the exchange of a
frame that needs an RTS fits the 16 bits of the duration field; otherwise the
subtraction in `sendCTS()` could wrap. Data without RTS may last longer than
2^16 us, as some scenarios have it.

**Scheduler.** Event times are naturals. A queue's operation is the set of its
possible results; the calendar's bucket width after a dynamic adjustment is any
of `Widths`, since it depends on gaps and search lengths of the past. Whether an
event's time counts as a new one (`stat_qsize_`, `count_`) is decided by the
comparisons of the code with the neighbours in the circular list: the event
before in `insert`, the one after in `insert2` and `deque`, both in `cancel`.
`MapScheduler::deque` reads the iterator it has erased, which with the build's
allocator still holds the event.

## Runs

| Run | Instance | What it asks |
|---|---|---|
| `dfsa` | 3 tags, all five estimation methods, a second command at any moment, one late expiry | does DFSA miss a tag or misread a slot? do leftovers of a session harm the next? |
| `q_algorithm` | 3 tags, Q up to 3, both values of `mechanism_`, 2 sessions, one lost packet | does the Q algorithm miss a tag? |
| `estimation` | 3 tags, Q up to 2, both commands, one lost packet | are estimation, DFSA, sub-frames and the interrupted frame kept apart? |
| `termination` | 2 tags, DFSA with a lost and a late packet, Q algorithm with a lost one | does an inventory end? |
| `q_readers` | 2 readers, 2 tags, both values of `mechanism_` | do readers that disturb each other leave a tag out? |
| `tracking` | 2 readers, one with random answer times, 1 tag, 2 lost packets | does each reader go on hearing of the tag, and when is the tag silent? |
| `link` | reader and tag; RFID traffic, two senders, and one with routing packets, `drop_front_` and a reset | is the link a lossy FIFO, and is a packet ever left behind? |
| `mac` | seven set-ups of two and three nodes, see below | is every packet done with, once, in order? |
| `timers` | 2 timers, 4 events, delays 0 to 2 | does a timer set inside an expiry expire, once and then? |
| `schedulers` | list, heap, splay tree, map, calendar, real-time calendar | do they all implement `EventQueue`? |
| `est_slots` | 2 tags, perfect link | violated: an empty slot of the estimation counts as a success |
| `mac_middle` | 3 nodes, the middle one with a packet of its own | violated: a packet is left with no timer pending |

The set-ups of `mac`: `Pair` (two nodes, no RTS, sequence numbers that wrap at
3), `SlowAck` (the slow rates of `cenarios/sbrc2013`: an ACK longer than a
packet and a broadcast longer than 2^16 us), `PairRts`, `Hidden` and
`HiddenSmall` (senders that do not hear each other, with and without RTS),
`Louder` (one of them captured), `Retry` (errors until packets are given up).
None of them has a third node between two senders with an RTS packet of its
own, the situation of `mac_middle`.

Why the bounds are enough. Two tags collide or do not; the third is the one
that is bystander to the others' collision, loss or acknowledgement. One lost
and one late packet already reach each branch in which the reader and a tag
disagree about who has been read. Q needs only to shrink to -1, to grow, and
to meet its limit, so `MaxQ` is 2 or 3 instead of 15 (`WrapQ` follows it).
`MaxRatio = 3` lets Eom-Lee frames be larger than the minimum. For DFSA the
theorems remove the bounds altogether. In the link the queue limit is small
enough to overflow. In the MAC the window (1 to 3) lets draws coincide or not,
the retry limits of 2 are reached with the errors allowed, and errors hit any
frame. The calendar's scripts are such that it grows and shrinks, has events of
one time, and one overlong bucket; the heap has three full levels.

Deadlock is not an error in most runs: a reader that has ended its last
inventory, or a MAC that has sent all its packets, has nothing more to do.

What holds only under conditions, and why:

* `NoSilentMiss` speaks of tags that are not `disturbed`: a tag is disturbed
  when one of its packets is lost, or under way when a timer expires, and is
  so until the next query that makes all tags draw. A lost answer makes a tag
  be missed by design of the protocol; the property says that nobody else is.
* `CountTellsSlot` compares `counter_` with the tags that have drawn the slot.
  That none of them without a loss or delay of its own is missing holds always.
  That `counter_` is not too large holds only while no packet was late and no
  session was cut short: an answer that comes after the expiry counts in the next
  slot, and `edfsa-query` starts with the `counter_` that the session before it
  has left (the hazards at `rfidReader.cc:654` and `rfidReader.cc:144`; TLC finds
  both when the condition is dropped). Such a surplus makes an idle slot a success
  of a tag heard before, or a success a collision; no tag is missed by it.
* In the Q algorithm late packets are kept out (`MaxLate = 0`). A late
  `TC_REPLY` can clear the count of the last slot, after which the reader stops
  (the hazard at `rfidReader.cc:495`; TLC finds it with `MaxLate = 1`).
* An inventory that stops at Q = 15, or a DFSA with a frame of no slots, is not
  `Concluded`.
* `HeardOncePerVisit` needs patient readers and no loss, as it says.
* `FullRetries` excepts packets of exactly `RTSThreshold` bytes, whose retries
  no count limits, and `InOrderOnce` the packet with number 0 after a wrap.
* `NoTimerTwice` is checked and proved with `bugFix_timer_` true, the default.
  With false and a larger window TLC finds `mhDefer_` started while busy.

### Findings

`est_slots`: `start_est()` never resets `counter_` within a group, so each slot
of the group is classified by the sum of the answers so far.

`mac_middle`: `send()` starts no timer when `mhDefer_` is busy, but `mhDefer_`
may be waiting to send a CTS. If the medium is busy when it expires,
`check_pktCTRL()` drops the CTS and returns 0, and `deferHandler()` does not go
on to the packet. The packet and the queue behind it then wait until some other
frame that the node answers comes along.

## Fairness

`RfidTermination` assumes weak fairness of time-outs and of both kinds of
reception: the scheduler of ns-2 dispatches every event it holds (which is
`PendingExpires` and `ImplementsEventQueue`). Draws are random, so what ends an
inventory is luck that comes with probability one. It is stated as strong
fairness of `LuckyDraw`: if again and again the last tag to draw in a frame
could draw a slot that lets a tag be read, then it sometimes does. Losses are
bounded and not fair. `RfidTracking` adds that a scenario repeats its queries,
`LinkLayer` and `TimerHandler` that scheduled events are dispatched and that
`expire()` returns, and `Mac802_11` that time passes and due events do not wait
for ever; draws, errors and arrivals are not fair there.

## Refinement

* `ImplementsFifo`: `LinkLayer` implements `LossyFifo`, the link of
  `RfidInventory`.
* `ImplementsEventQueue`: `Scheduler`, with each of its queues, implements
  `EventQueue`, on which `TimerHandler` is built and about which
  `TimerProofs` proves.

## Proofs

All theorems hold for every value of the constants that the named assumptions
of the modules allow. An invariant that TLC checks is seldom inductive; the
inductive invariants below were checked by TLC on small instances, and then
proved: it holds initially, every action keeps it, it implies the property.

**`RfidInventoryProofs`** (`RfidInventory`)

* `TypeCorrect`: `Spec => []TypeOK`, for all services. `TypeOK` is inductive;
  the proof has a lemma per method, and one per action.
* With `Service = "EDFSA"`, for any number of tags, sessions, losses and late
  packets: `DfsaMissesNoTag` (`NoSilentMiss`), `DfsaIdleSlots` (`IdleSlot`),
  `DfsaCountsSlots` (`CountTellsSlot`), `DfsaCountsTags` (`SuccessCount`). Tags
  are finitely many (`TagsAssumption`), as counting them needs.

They rest on `DfsaInv`. `NoSilentMiss` alone says nothing before the reader
stops, so `CoverInv` says what is kept until then: while a frame is under way,
each undisturbed tag is read, or has yet to draw in it (`WillDraw`), or hears
the slot under way (`Hears`: the poll is still coming to it, or it has answered
if the slot is its own) and has its slot now or later (`Upcoming`) unless the
frame has a collision, after which another frame will follow. `LinkInv` says
which packets DFSA puts on the links, `CountInv` that `counter_` is at least the
number of tags that have answered since the slot began (it may be larger) and
that a count of 1 is of the tag in `tagEPC_`, `ReaderInv` that the reader is in
DFSA. `Hears` and `CountInv` give the lower bound of `CountTellsSlot`. Its upper
bound needs `ExactInv`: with nothing late and no session cut short the links are
empty when a slot begins, so all packets and answers are of this slot, and each
tag answers at most once and only in its own (`Exact`). `DfsaSlot` sums up `start_edfsa()` and
`calculate_next_Q()`: the next slot is polled, or a new frame opened, or the
inventory ends. `DfsaCountsTags` takes from `ExactInv` that a tag which has
answered is not read yet, so that each success counts a new one (`SuccessInv`).

* With `Service = "STANDARD"`, both values of `mechanism_`, any number of tags,
  sessions and losses, and any limit of Q: `QMissesNoTag` (`NoSilentMiss`), when
  a command comes only between inventories and no packet is late, and
  `QCountsTags` (`SuccessCount`, which speaks of a first session without losses
  and late packets).

`QMissesNoTag` cannot do without its conditions: a `TC_REPLY` that is late for
its slot, or left over from an inventory that a second command cut short, clears
`counter_` in the last slot, and the reader stops (`rfidReader.cc:495`). It
rests on `QInv`. What is under way belongs either to a slot that a query or an
adjustment opens (`QOpened`: no `TC_REPLY` is among the answers), or to one that
only repeats `RC_QUERYREPLY` (`QClosed`). `QCoverInv` says of each undisturbed
tag that it is read or the reader will not stop (`QCovers`): Q is not at its
end, or the timer runs in an opened slot and the tag has a packet under way, or
has been counted, alone or with others. At Q = -1 an opened slot is one in which
every tag that is not read answers, so this is kept until the timer expires.
`QSuccessInv` of `QCountsTags` says that while `counter_` is 1 the tag in
`tagEPC_` is not read yet (`QSoleIsNew`), so that the next acknowledgement counts
a new tag; it follows the packets of a link one by one (`QLink`).

**`RfidReadersProofs`** (`RfidReaders`): `ReadersTypeCorrect` (`TypeOK`), and
`ReadersMissNoTag` (`NoTagLeftOut`) with `Service = "STANDARD"`, for any number
of readers and tags and both values of `mechanism_`. Readers overwrite one
another's slot and acknowledgement in a tag, so that no reader can promise that
it will find the tag. The invariant therefore gives the promise to all of them:
`CoverInv` says that a tag is read or *some* reader will not stop without it,
and `SlotInv` that each reader's packets are of an opened or a closed slot. The
step that matters is the last slot of a reader in which another reader's
acknowledgement keeps the tag silent: the tag then is read.

**`TrackingProofs`** (`RfidTracking`): `TrackingTypeCorrect` (`TypeOK`),
`SilentTagsWereHeard` (`SilentOnlyWhenHeard`), `TagsHeardOncePerVisit`
(`HeardOncePerVisit`), for any number of readers, tags and losses. `TrackInv`
adds that a confirmation under way is for a tag its reader has heard
(`AckedIsKnown`), that the answers of a reader's query stay within bounds
(`Bounded`), and that with patient readers and no loss at most one of query,
answer and confirmation of a reader and a tag is under way (`OneAtATime`).

**`LinkProofs`** (`LinkLayer`): `LinkTypeCorrect` (`TypeOK`),
`NoPacketStranded` (`NothingStranded`), `HeldPacketsAwaitArp` (`HeldAwaitsArp`)
and `LinkImplementsFifo` (`Spec => ImplementsFifo`, the refinement of
`LossyFifo`), for any finite number of nodes, any queue length and drop policy.
`LinkInv` follows the way of a packet: what is scheduled, queued and in the air
is in order on each channel (`Ordered`), nothing leaves for an address that ARP
does not know and nothing is held for one it knows (`Resolved`), so the packets
that ARP sends ahead overtake none of their channel.

**`MacProofs`** (`Mac802_11`): `MacTypeCorrect` (`TypeOK`), `StatesMatchPackets`
(`StateMatchesPackets`), `BackoffPausedWhileBusy` (`PausedWhileBusy`), for any
number of nodes, any channel, traffic, retry limits, durations and number of
sequence numbers that `MacAssumption` allows, both values of `bugFix_timer_`, and any order of the events of
one instant. `MacInv` says of each node what its handlers rely on: `Holding`
(an RTS only for a packet, a packet only while the queue awaits the callback),
`OnAir` (`tx_state_` names the packet on the air, and `mhSend_` runs with it),
`Receiving` (`rx_state_`, `pktRx_` and `mhRecv_` agree), `Contending` (defer and
backoff exclude each other but for a CTS or an ACK, a backoff counts only on a
node that is silent, and is paused only on a busy medium). There is a lemma per
handler, which says that it keeps the node's invariant and what it changes
(`Only`, `Settles`, `Sends`, `Accepted`).

`NoTimerStartedTwice` (`NoTimerTwice`) is in `MacProofs` as well, for every setup
that is `Timely`: `bugFix_timer_` is true, as in `ns-default.tcl`, and no RTS and
no data frame is as short as SIFS, which the PLCP preamble alone rules out.
`MacInv` does not imply it, because whether a timer is busy when a handler
starts it depends on which of two timers expires first. `TimingInv` orders them:
`mhIF_` never outlasts `mhSend_`, so the interface is free when the next frame is
sent (`Radio`); with no CTS or ACK to send, `mhDefer_` runs only for a packet
that a CTS has cleared, and for SIFS at most (`Clearance`); and a frame that
would be answered with a CTS or an ACK began after the last transmission and is
not over before that packet is sent (`Unanswered`). Time keeps these because the
scheduler lets it pass only when nothing is due. With `bugFix_timer_` false the
property is false, see above.

**`MacDeliveryProofs`** (`Mac802_11`): `RetriesAreFull` (`FullRetries`) and
`DeliveredInOrderOnce` (`InOrderOnce`), from what the handlers change.
`SendersInv`: the current packet and those of the queue follow one another with
the sequence numbers of their places, and `ssrc_` and `slrc_` count the
transmissions of the current one, but for what `slrc_` has left over of a packet
given up for want of a CTS. `ReceiversInv`: frames on their way to a node are in
the order of their packets and behind what was passed up, and a packet that was
passed up and may come again is in the duplicate filter, `cache_`.

**`TimerProofs`** (`EventQueue`, `TimerHandler`): of the queue by itself,
`QueueTypeCorrect` (`TypeOK`), `ClockNotBackwards` (`NotBackwards`),
`DispatchInOrder` (`InOrder`). `NotBackwards` needs `Fresh`, that `uid_` is
larger than every uid given out, which orders events of one time. Of the timers
on it, `PendingTimersAreQueued`
(`PendingIffQueued`), `TimersExpireWhenAsked` (`ExpiresWhenAsked`),
`TimersKeepTheClock` (`TypeOK`, `NotBackwards`) and `TimersDispatchInOrder`
(`InOrder`), for any number of timers and any delays. `TimerAssumption` says
that "no timer" is not a timer.

Only model-checked:

* liveness (`Terminates`, `EachReaderTracks`, `PendingExpires`,
  `LastPacketArrives`, `EveryPacketOver`): fairness and ENABLED are beyond the
  prover;
* the properties of `Scheduler` (`CancelFinds`, `CountsDistinctTimes`,
  `CalendarPosition`, `ImplementsEventQueue`): the heap and the splay tree are
  recursive, and the prover does not work in a module that reaches a recursive
  operator;
* `AckedIsPassed` of the MAC, which depends on how long frames and interframe
  spaces last: an ACK means the packet it should mean only as long as timeouts
  are longer than the answers they wait for;
* `NoSilentMiss` and `SuccessCount` of the estimation and operation 4.

## Not modelled

* The infrastructure mode of `Mac/802_11` (beacons, probing, authentication,
  association, handoff): the scenarios use ad hoc mode.
* Received power, antennas, energy and mobility: floating-point physics, which
  the models take as any set of links, captures and errors.
* Routing protocols (AODV, DSDV, DSR, TORA): the RFID scenarios use
  `DumbAgent`, which has no state.
* The convergence of `eomlee()` (a floating-point iteration, which for some
  frame sizes alternates between two values and does not return), the floating
  point of the calendar's hash, and 32-bit overflow of `2^Q` for the Q = 128
  that some scenarios give the estimation.
* The MAC and PHY copies, which are not built; the trace; the Tcl layer.
* The rest of ns-2.35 (TCP, SCTP, satellites, 802.15.4, diffusion, ...):
  third-party code that the RFID agents do not use. It is most of the
  repository's lines.

## Plan

1. Done: the RFID agents with all services, several readers, termination, the
   link and its refinement, the 802.11 MAC in ad hoc mode, timers, the event
   scheduler and its refinement; theorems about types, DFSA, the Q algorithm
   with one and with several readers, tracking, the link and its refinement, the
   MAC, the event queue and the timers.
2. Proofs to come: that the queue of `ListScheduler`, which needs no recursion,
   keeps what `EventQueue` asks of it; `AckedIsPassed`, from the timeouts.
3. Further models: two sessions of `estimation-dfsa-query`; infrastructure mode
   of the MAC if a scenario comes to use it.
