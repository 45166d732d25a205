----------------------------- MODULE RfidInventory -----------------------------
(***************************************************************************)
(* One reader taking the inventory of a set of tags.  Between them are the *)
(* LL/ARP, the queue, the MAC and the channel of ns-2: packets between the *)
(* reader and one tag keep their order, packets of different tags do not,  *)
(* and any packet may be lost (a tag out of range, a full queue, a packet  *)
(* held for ARP that a later one replaces).  rs_timer_ may expire while    *)
(* packets are still under way.                                            *)
(***************************************************************************)
EXTENDS RfidTag, RfidReader, Sequences, FiniteSets

CONSTANTS
  MaxSessions,   \* bound on the commands the scenario gives
  Overlap,       \* may a command come before the previous one is finished?
  MaxLost,       \* bound on lost packets
  MaxLate        \* bound on expiries with packets under way

ASSUME BoundsAssumption ==
  /\ MaxSessions \in Nat /\ MaxLost \in Nat /\ MaxLate \in Nat
  /\ Overlap \in BOOLEAN

\* A scenario creates finitely many nodes.
ASSUME TagsAssumption == IsFiniteSet(Tags)

VARIABLES
  rd,          \* the reader's fields
  tag,         \* the tags' fields
  down, up,    \* the packets under way to and from each tag
  sessions, lost, late,
  (* History, which no action reads: *)
  answered,    \* tags whose answer the reader got since the slot began, that
               \* is, since the last command or expiry
  disturbed    \* tags with a lost or late packet since they last drew a slot

vars == <<rd, tag, down, up, sessions, lost, late, answered, disturbed>>

Init ==
  /\ rd \in ReaderInits
  /\ tag = [t \in Tags |-> TagInit]
  /\ down = [t \in Tags |-> <<>>]
  /\ up = [t \in Tags |-> <<>>]
  /\ sessions = 0 /\ lost = 0 /\ late = 0
  /\ answered = {} /\ disturbed = {}

-------------------------------------------------------------------------------
InFlight == {t \in Tags : down[t] # <<>> \/ up[t] # <<>>}

\* The packets r has sent reach the link, the acknowledgement first.
Sent(r, t) ==
  LET d == IF r.uni.command # "NONE" /\ r.uni.tagEPC = t
             THEN Append(down[t], r.uni) ELSE down[t]
  IN IF r.bcast.command # "NONE" THEN Append(d, r.bcast) ELSE d

Emit(r) ==
  /\ rd' = [r EXCEPT !.uni = NoHeader, !.bcast = NoHeader]
  /\ down' = [t \in Tags |-> Sent(r, t)]

\* A query to all tags, or an adjustment, makes every tag draw afresh.
OpensFrame(r) ==
  r.bcast.command \in {"RC_QUERY", "RC_QUERYADJUST"} /\ r.bcast.reply = 0

Running == rd.rs = "PENDING" \/ rd.col = "PENDING"

MayCommand ==
  /\ sessions < MaxSessions
  /\ Overlap \/ (~Running /\ InFlight = {})

\* The scenario gives a command, which the reader obeys with the fields r.
Command(r) ==
  /\ MayCommand
  /\ Emit(r)
  /\ sessions' = sessions + 1
  /\ disturbed' = IF OpensFrame(r) THEN {} ELSE disturbed
  /\ answered' = {}
  /\ UNCHANGED <<tag, up, lost, late>>

\* A scenario pairs service_ with its commands, and keeps estMethod_ 3, which
\* makes an estimation go on as operation 4, for estimation-dfsa-query.
CommandStandard == Service = "STANDARD" /\ Command(StandardQueryTags(rd))
CommandEstimation ==
  Service = "EBTSA" /\ rd.estMethod # 3 /\ Command(StandardWithEstimation(rd))
CommandEdfsa == Service = "EDFSA" /\ Command(EdfsaQuery(rd))
CommandEstimationDfsa == Service = "EBTSA" /\ Command(EstimationDfsaQuery(rd))

\* A timer expires, and the reader goes on with one of the fields in results;
\* late counts the expiries that did not wait for a packet.
Timeout(results) ==
  /\ InFlight # {} => late < MaxLate
  /\ late' = IF InFlight # {} THEN late + 1 ELSE late
  /\ \E r \in results :
       /\ Emit(r)
       /\ disturbed' = IF OpensFrame(r) THEN {} ELSE disturbed \cup InFlight
  /\ answered' = {}
  /\ UNCHANGED <<tag, up, sessions, lost>>

RsTimeout == rd.rs = "PENDING" /\ Timeout(Expire(rd))
ColTimeout == rd.col = "PENDING" /\ Timeout(ExpireCol(rd))

\* A packet of the reader reaches tag t.
TagReceives(t) ==
  /\ down[t] # <<>>
  /\ \E o \in TagRecv(t, tag[t], Head(down[t])) :
       /\ tag' = [tag EXCEPT ![t] = o.tag]
       /\ up' = IF o.reply = "NONE" THEN up
                ELSE [up EXCEPT ![t] = Append(@,
                        [command |-> o.reply, service |-> Head(down[t]).service])]
  /\ down' = [down EXCEPT ![t] = Tail(@)]
  /\ UNCHANGED <<rd, sessions, lost, late, answered, disturbed>>

\* A packet of tag t reaches the reader.
ReaderReceives(t) ==
  /\ up[t] # <<>>
  /\ rd' = Recv(rd, t, Head(up[t]))
  /\ answered' = IF Counted(Head(up[t])) THEN answered \cup {t} ELSE answered
  /\ up' = [up EXCEPT ![t] = Tail(@)]
  /\ UNCHANGED <<tag, down, sessions, lost, late, disturbed>>

\* The oldest packet under way to, or from, tag t is lost.
LoseDown(t) ==
  /\ down[t] # <<>> /\ lost < MaxLost
  /\ down' = [down EXCEPT ![t] = Tail(@)]
  /\ lost' = lost + 1
  /\ disturbed' = disturbed \cup {t}
  /\ UNCHANGED <<rd, tag, up, sessions, late, answered>>

LoseUp(t) ==
  /\ up[t] # <<>> /\ lost < MaxLost
  /\ up' = [up EXCEPT ![t] = Tail(@)]
  /\ lost' = lost + 1
  /\ disturbed' = disturbed \cup {t}
  /\ UNCHANGED <<rd, tag, down, sessions, late, answered>>

Next ==
  \/ CommandStandard \/ CommandEstimation
  \/ CommandEdfsa \/ CommandEstimationDfsa
  \/ RsTimeout \/ ColTimeout
  \/ \E t \in Tags :
       TagReceives(t) \/ ReaderReceives(t) \/ LoseDown(t) \/ LoseUp(t)

Spec == Init /\ [][Next]_vars

-------------------------------------------------------------------------------
TypeOK ==
  /\ rd \in ReaderRecords
  /\ tag \in [Tags -> TagRecords]
  /\ down \in [Tags -> Seq(Headers)]
  /\ up \in [Tags -> Seq(Replies)]
  /\ sessions \in 0 .. MaxSessions
  /\ lost \in 0 .. MaxLost
  /\ late \in 0 .. MaxLate
  /\ answered \subseteq Tags
  /\ disturbed \subseteq Tags

AckPending(t) ==
  \E i \in 1 .. Len(down[t]) :
    /\ down[t][i].command = "RC_QUERYREPLY" /\ down[t][i].tagEPC = t
    /\ down[t][i].service # "EBTSA"

\* The tag knows, or is about to learn, that the reader has read it.
Read(t) == Acknowledged(tag[t]) \/ AckPending(t)

\* The reader has ended an inventory by its own rule: a DFSA frame without
\* collisions left, or an idle slot of the Q algorithm at Q = -1.
Concluded ==
  /\ sessions > 0 /\ ~Running
  /\ \/ rd.operation = 0 /\ rd.qValue = -1
     \/ rd.operation \in {2, 4} /\ rd.qValue >= 1

(***************************************************************************)
(* When the reader ends an inventory, it has read every tag that had no    *)
(* packet lost or late since the tag last drew a slot: whatever happened   *)
(* to the other tags, in earlier frames, or to sessions cut short by a new *)
(* command, makes no tag be missed (start_sing, start_edfsa and            *)
(* calculate_next_Q on one side, RfidTagAgent::recv on the other).         *)
(***************************************************************************)
NoSilentMiss == Concluded => \A t \in Tags \ disturbed : Read(t)

(***************************************************************************)
(* An answer received since the slot began is never lost from the count:   *)
(* counter_ = 0, which the reader takes for an idle slot, means that it    *)
(* got none.                                                               *)
(***************************************************************************)
IdleSlot == rd.counter = 0 => answered = {}

\* The tags a DFSA slot is for: they have drawn it and are still to be read.
InSlot == {t \in Tags : tag[t].slot = rd.uniqCounter /\ ~Acknowledged(tag[t])}

\* A DFSA slot is about to end, and nothing is on its way any more.
SlotOver == rd.operation = 2 /\ rd.rs = "PENDING" /\ InFlight = {}

\* No command has cut a session short.
Uncut == sessions <= 1 \/ ~Overlap

(***************************************************************************)
(* At the end of a DFSA slot counter_ tells how many tags have drawn it.   *)
(*                                                                         *)
(* It is never too small: whatever was lost or late before, and whatever a *)
(* session cut short left behind, each tag of the slot without a lost or   *)
(* late packet of its own is counted, and when the reader sees a success,  *)
(* the tag in tagEPC_, which it acknowledges, is the only such tag.        *)
(*                                                                         *)
(* It is never too large while no packet was late and no session was cut   *)
(* short, and then a success is of a tag of the slot.  Otherwise it may    *)
(* be: an answer to the slot before counts in this one (start_edfsa()      *)
(* resets counter_ when the timer expires, rfidReader.cc:661, 671), and    *)
(* edfsa-query does not reset it at all (rfidReader.cc:130-147).           *)
(***************************************************************************)
CountTellsSlot ==
  SlotOver =>
    /\ Cardinality(InSlot \ disturbed) <= rd.counter
    /\ rd.counter = 1 => InSlot \ disturbed \subseteq {rd.tagEPC}
    /\ late = 0 /\ Uncut =>
         /\ rd.counter <= Cardinality(InSlot)
         /\ rd.counter = 1 => rd.tagEPC \in InSlot

(***************************************************************************)
(* When a slot in which no tag has answered comes to its end, the reader   *)
(* counts it as idle (start_est(), "if (counter_==0) { //idle").           *)
(***************************************************************************)
EmptySlot == Running /\ InFlight = {} /\ answered = {} => rd.counter = 0

(***************************************************************************)
(* In a first session on a link that neither loses nor delays packets,     *)
(* success_, which the trace reports as the tags identified, is exactly    *)
(* the number of tags read.                                                *)
(***************************************************************************)
SuccessCount ==
  lost = 0 /\ late = 0 /\ sessions = 1 /\ rd.operation \in {0, 2, 4} =>
    rd.success = Cardinality({t \in Tags : Read(t)})
================================================================================
