-------------------------- MODULE RfidInventoryProofs --------------------------
(***************************************************************************)
(* The inventory of one reader: every field of the reader, of the tags and *)
(* of the packets keeps its type, and neither DFSA nor the Q algorithm     *)
(* misses a tag or counts one twice.                                       *)
(***************************************************************************)
EXTENDS RfidInventory, RfidAgentProofs, SequenceTheorems, FiniteSetTheorems

-------------------------------------------------------------------------------
\* Types.

LEMMA InitType == Init => TypeOK
<1> SUFFICES ASSUME Init PROVE TypeOK
  OBVIOUS
<1>1. TagInit \in TagRecords
  BY DEF TagInit, TagRecords, TagStates
<1> QED
  BY <1>1, ReaderInitsType, BoundsAssumption DEF Init, TypeOK

LEMMA EmitType ==
  ASSUME TypeOK, NEW r \in ReaderRecords, Emit(r)
  PROVE  rd' \in ReaderRecords /\ down' \in [Tags -> Seq(Headers)]
<1>1. rd' \in ReaderRecords
  BY NoHeaderType, UpdateLinkType DEF Emit
<1>2. r.uni \in Headers /\ r.bcast \in Headers
  BY DEF ReaderRecords
<1>3. \A t \in Tags : Sent(r, t) \in Seq(Headers)
  BY <1>2 DEF Sent, TypeOK
<1> QED
  BY <1>1, <1>3 DEF Emit

LEMMA CommandStepType ==
  ASSUME TypeOK, NEW r \in ReaderRecords, Command(r)
  PROVE  TypeOK'
BY EmitType, BoundsAssumption DEF Command, MayCommand, TypeOK

LEMMA TimeoutStepType ==
  ASSUME TypeOK, NEW results \in SUBSET ReaderRecords, Timeout(results)
  PROVE  TypeOK'
<1>1. PICK r \in results :
        /\ Emit(r)
        /\ disturbed' = IF OpensFrame(r) THEN {} ELSE disturbed \cup InFlight
  BY DEF Timeout
<1>2. rd' \in ReaderRecords /\ down' \in [Tags -> Seq(Headers)]
  BY <1>1, EmitType
<1>3. disturbed' \subseteq Tags /\ answered' \subseteq Tags
  BY <1>1 DEF Timeout, TypeOK, InFlight
<1>4. late' \in 0 .. MaxLate
  BY BoundsAssumption DEF Timeout, TypeOK
<1> QED
  BY <1>2, <1>3, <1>4 DEF Timeout, TypeOK

LEMMA TagReceivesType ==
  ASSUME TypeOK, NEW t \in Tags, TagReceives(t)
  PROVE  TypeOK'
<1> DEFINE hdr == Head(down[t])
<1>1. hdr \in Headers /\ Tail(down[t]) \in Seq(Headers)
  BY DEF TypeOK, TagReceives
<1>2. PICK o \in TagRecv(t, tag[t], hdr) :
        /\ tag' = [tag EXCEPT ![t] = o.tag]
        /\ up' = IF o.reply = "NONE" THEN up
                 ELSE [up EXCEPT ![t] = Append(@,
                         [command |-> o.reply, service |-> hdr.service])]
  BY DEF TagReceives
<1>3. o.tag \in TagRecords /\ o.reply \in TagCommands \cup {"NONE"}
  BY <1>1, TagRecvType DEF TypeOK, Outcomes
<1>4. tag' \in [Tags -> TagRecords]
  BY <1>2, <1>3 DEF TypeOK
<1>5. up' \in [Tags -> Seq(Replies)]
  <2>1. ASSUME o.reply # "NONE"
        PROVE  [command |-> o.reply, service |-> hdr.service] \in Replies
    BY <1>1, <1>3, <2>1 DEF Replies, Headers
  <2> QED
    BY <1>2, <2>1 DEF TypeOK
<1>6. down' \in [Tags -> Seq(Headers)]
  BY <1>1 DEF TagReceives, TypeOK
<1> QED
  BY <1>4, <1>5, <1>6 DEF TagReceives, TypeOK

LEMMA ReaderReceivesType ==
  ASSUME TypeOK, NEW t \in Tags, ReaderReceives(t)
  PROVE  TypeOK'
<1>1. Head(up[t]) \in Replies /\ Tail(up[t]) \in Seq(Replies)
  BY DEF TypeOK, ReaderReceives
<1>2. rd' \in ReaderRecords
  BY <1>1, RecvType DEF ReaderReceives, TypeOK
<1> QED
  BY <1>1, <1>2 DEF ReaderReceives, TypeOK

LEMMA LoseType ==
  ASSUME TypeOK, NEW t \in Tags, LoseDown(t) \/ LoseUp(t)
  PROVE  TypeOK'
<1>1. CASE LoseDown(t)
  <2>1. Tail(down[t]) \in Seq(Headers)
    BY <1>1 DEF LoseDown, TypeOK
  <2> QED
    BY <1>1, <2>1, BoundsAssumption DEF LoseDown, TypeOK
<1>2. CASE LoseUp(t)
  <2>1. Tail(up[t]) \in Seq(Replies)
    BY <1>2 DEF LoseUp, TypeOK
  <2> QED
    BY <1>2, <2>1, BoundsAssumption DEF LoseUp, TypeOK
<1> QED
  BY <1>1, <1>2

LEMMA StepType == TypeOK /\ [Next]_vars => TypeOK'
<1> SUFFICES ASSUME TypeOK, [Next]_vars PROVE TypeOK'
  OBVIOUS
<1>1. rd \in ReaderRecords
  BY DEF TypeOK
<1>2. ASSUME \/ CommandStandard \/ CommandEstimation
             \/ CommandEdfsa \/ CommandEstimationDfsa
      PROVE  TypeOK'
  BY <1>1, <1>2, CommandType, CommandStepType
  DEF CommandStandard, CommandEstimation, CommandEdfsa, CommandEstimationDfsa
<1>3. ASSUME RsTimeout \/ ColTimeout
      PROVE  TypeOK'
  BY <1>1, <1>3, ExpireType, TimeoutStepType DEF RsTimeout, ColTimeout
<1>4. ASSUME NEW t \in Tags,
             TagReceives(t) \/ ReaderReceives(t) \/ LoseDown(t) \/ LoseUp(t)
      PROVE  TypeOK'
  BY <1>4, TagReceivesType, ReaderReceivesType, LoseType
<1>5. CASE UNCHANGED vars
  BY <1>5 DEF vars, TypeOK
<1> QED
  BY <1>2, <1>3, <1>4, <1>5 DEF Next

\* Every variable keeps its type, whatever the scenario, the tags' draws and
\* the link do: recv() and the timers' handlers never store in a field, nor
\* send in a packet, a value that field cannot have.
THEOREM TypeCorrect == Spec => []TypeOK
BY InitType, StepType, PTL DEF Spec

-------------------------------------------------------------------------------
(***************************************************************************)
(* DFSA (edfsa-query) misses no tag, for any number of tags, sessions,     *)
(* lost packets and late packets, and any frame sizes.                     *)
(*                                                                         *)
(* NoSilentMiss looks at the reader once it has stopped; what has to be    *)
(* kept until then is Covered: as long as a frame is under way, each tag   *)
(* without a lost or late packet is read, or will take part in a slot that *)
(* is still to come, or shares the fate of a frame with a collision, which *)
(* another frame follows.  That is inductive together with what the links  *)
(* carry and with the meaning of counter_.                                 *)
(***************************************************************************)

\* The fields of a reader that takes DFSA inventories, between two events
DfsaReader(r) ==
  /\ r.service = "EDFSA" /\ r.col = "IDLE"
  /\ r.qValue >= 1 /\ r.uniqCounter >= 1
  /\ r.uni = NoHeader /\ r.bcast = NoHeader

ReaderInv ==
  /\ DfsaReader(rd)
  /\ sessions = 0 => rd.rs = "IDLE"
  /\ sessions > 0 => rd.operation = 2

\* What the reader sends to tag t, and what a tag sends, in DFSA
ToTag(t) ==
  {h \in Headers :
     /\ h.service = "EDFSA" /\ h.reply = 0 /\ h.qValue >= 1
     /\ h.command \in {"RC_QUERY", "RC_SING", "RC_QUERYREPLY"}
     /\ h.command = "RC_QUERYREPLY" => h.tagEPC = t}

FromTag == {a \in Replies : a.service = "EDFSA" /\ a.command = "TC_REPLY"}

LinkInv ==
  \A t \in Tags : down[t] \in Seq(ToTag(t)) /\ up[t] \in Seq(FromTag)

\* Every answer of the slot is counted; counter_ may be larger, because of
\* answers to an earlier slot or left over from a session cut short.
CountInv ==
  /\ IsFiniteSet(answered) /\ Cardinality(answered) <= rd.counter
  /\ rd.counter = 1 => answered \subseteq {rd.tagEPC}

\* Tag t has still to draw a slot in the frame under way.
WillDraw(t) ==
  /\ down[t] # <<>> /\ rd.uniqCounter = 1
  /\ LET h == down[t][Len(down[t])]
     IN h.command = "RC_QUERY" /\ h.qValue = rd.qValue /\ h.slotNumber = 1

\* Tag t takes part in the slot under way if it is the one t has drawn.
Hears(t) ==
  \/ /\ down[t] = <<>>
     /\ tag[t].slot # rd.uniqCounter \/ up[t] # <<>> \/ t \in answered
  \/ /\ Len(down[t]) = 1
     /\ down[t][1].command = "RC_SING"
     /\ down[t][1].slotNumber = rd.uniqCounter

\* The slot tag t has drawn is polled now or later.
Upcoming(t) == tag[t].slot >= rd.uniqCounter /\ tag[t].slot <= rd.qValue

Covered(t) ==
  \/ Read(t) \/ WillDraw(t)
  \/ Hears(t) /\ (rd.collisions > 0 \/ Upcoming(t))

CoverInv ==
  \A t \in Tags \ disturbed :
    /\ rd.rs = "PENDING" => Covered(t)
    /\ rd.rs = "IDLE" /\ sessions > 0 => Read(t)

DfsaInv == TypeOK /\ ReaderInv /\ LinkInv /\ CountInv /\ CoverInv

-------------------------------------------------------------------------------
(***************************************************************************)
(* What the end of a slot does to the reader: the new fields s follow r,   *)
(* and the next slot is polled, or a new frame opened, or the inventory is *)
(* over.                                                                   *)
(***************************************************************************)
Acks(r, s) ==
  IF r.counter = 1
    THEN /\ s.uni \in Headers /\ s.uni.service = "EDFSA" /\ s.uni.reply = 0
         /\ s.uni.qValue >= 1
         /\ s.uni.command = "RC_QUERYREPLY" /\ s.uni.tagEPC = r.tagEPC
    ELSE s.uni = NoHeader

Calls(s) ==
  /\ s.rs = "PENDING" /\ s.qValue >= 1
  /\ s.bcast \in Headers /\ s.bcast.service = "EDFSA" /\ s.bcast.reply = 0
  /\ s.bcast.qValue = s.qValue /\ s.bcast.slotNumber = s.uniqCounter

PollsNext(r, s) ==
  /\ Calls(s) /\ s.bcast.command = "RC_SING"
  /\ s.qValue = r.qValue
  /\ s.uniqCounter = r.uniqCounter + 1 /\ s.uniqCounter <= s.qValue
  /\ s.collisions >= r.collisions
  /\ r.counter > 1 => s.collisions > 0

Opens(s) ==
  Calls(s) /\ s.bcast.command = "RC_QUERY" /\ s.uniqCounter = 1

Ends(r, s) ==
  /\ s.rs = "IDLE" /\ s.qValue = r.qValue /\ s.uniqCounter = 1
  /\ s.bcast = NoHeader
  /\ r.uniqCounter >= r.qValue /\ r.collisions = 0 /\ r.counter <= 1

Follows(r, s) ==
  /\ s.service = "EDFSA" /\ s.col = "IDLE" /\ s.operation = r.operation
  /\ s.counter = 0
  /\ Acks(r, s)
  /\ PollsNext(r, s) \/ Opens(s) \/ Ends(r, s)

LEMMA NextFrameSize ==
  ASSUME NEW col \in Nat, col > 0, NEW method \in Methods,
         NEW q \in NextFrame(col, method)
  PROVE  q \in Int /\ q >= 1
BY MaxRatioAssumption DEF NextFrame, EomLee, Methods

LEMMA CountSlotFields ==
  ASSUME NEW r \in ReaderRecords, DfsaReader(r)
  PROVE  LET c == CountSlot(r)
         IN /\ c \in ReaderRecords
            /\ c.service = "EDFSA" /\ c.col = "IDLE" /\ c.bcast = NoHeader
            /\ c.operation = r.operation /\ c.rs = r.rs
            /\ c.qValue = r.qValue /\ c.uniqCounter = r.uniqCounter
            /\ c.estMethod = r.estMethod
            /\ c.collisions = IF r.counter > 1 THEN r.collisions + 1
                                               ELSE r.collisions
            /\ Acks(r, c)
<1>1. CountSlot(r) \in ReaderRecords
  BY CountSlotType
<1>2. CASE r.counter = 0
  BY <1>1, <1>2 DEF CountSlot, DfsaReader, Acks
<1>3. CASE r.counter = 1
  <2> DEFINE g == [r EXCEPT !.success = @ + 1]
             h == Header(g, "RC_QUERYREPLY", g.tagEPC, 0, 0)
  <2>1. g \in ReaderRecords
    BY IncrementType, UpdateNatType
  <2>2. /\ g.service = "EDFSA" /\ g.qValue = r.qValue
        /\ g.tagEPC = r.tagEPC
    BY DEF DfsaReader, ReaderRecords
  <2>3. h \in Headers
    <3>1. g.tagEPC \in Tags \cup {Broadcast, NoTag} /\ 0 \in Int
      BY <2>1, FieldType
    <3>2. "RC_QUERYREPLY" \in ReaderCommands
      BY DEF ReaderCommands
    <3> HIDE DEF g
    <3> QED
      BY <2>1, <3>1, <3>2, HeaderType
  <2>4. /\ h.service = "EDFSA" /\ h.reply = 0 /\ h.qValue >= 1
        /\ h.command = "RC_QUERYREPLY" /\ h.tagEPC = r.tagEPC
    BY <2>2 DEF Header, DfsaReader
  <2>5. CountSlot(r) = [g EXCEPT !.uni = h]
    BY <1>3 DEF CountSlot, SendQueryReply
  <2> HIDE DEF h
  <2> QED
    BY <1>1, <1>3, <2>3, <2>4, <2>5 DEF DfsaReader, Acks, ReaderRecords
<1>4. CASE r.counter > 1
  BY <1>1, <1>4 DEF CountSlot, DfsaReader, Acks, ReaderRecords
<1> QED
  BY <1>2, <1>3, <1>4, FieldType

\* A packet the reader broadcasts with its own frame size
LEMMA CallFields ==
  ASSUME NEW r \in ReaderRecords, r.service = "EDFSA", r.qValue >= 1,
         NEW command \in {"RC_QUERY", "RC_SING"}
  PROVE  LET s == Resched(Query(r, command, r.uniqCounter, 0))
         IN /\ Calls(s) /\ s.bcast.command = command
            /\ s.service = "EDFSA" /\ s.col = r.col
            /\ s.operation = r.operation /\ s.counter = r.counter
            /\ s.qValue = r.qValue /\ s.uniqCounter = r.uniqCounter
            /\ s.collisions = r.collisions /\ s.uni = r.uni
<1> DEFINE h == Header(r, command, Broadcast, r.uniqCounter, 0)
           s == Resched(Query(r, command, r.uniqCounter, 0))
<1>1. h \in Headers
  BY FieldType DEF Header, Headers, ReaderCommands
<1>2. /\ h.service = "EDFSA" /\ h.reply = 0 /\ h.qValue = r.qValue
      /\ h.slotNumber = r.uniqCounter /\ h.command = command
  BY DEF Header
<1>3. s = [r EXCEPT !.bcast = h, !.rs = "PENDING"]
  BY DEF Resched, Query
<1> HIDE DEF h, s
<1>4. /\ s.bcast = h /\ s.rs = "PENDING"
      /\ s.service = "EDFSA" /\ s.col = r.col
      /\ s.operation = r.operation /\ s.counter = r.counter
      /\ s.qValue = r.qValue /\ s.uniqCounter = r.uniqCounter
      /\ s.collisions = r.collisions /\ s.uni = r.uni
  BY <1>3 DEF ReaderRecords
<1> QED
  BY <1>1, <1>2, <1>4 DEF Calls, s

LEMMA DfsaSlot ==
  ASSUME NEW r \in ReaderRecords, DfsaReader(r), r.rs = "IDLE",
         NEW s \in StartEdfsa(r)
  PROVE  Follows(r, s)
<1> DEFINE n == [r EXCEPT !.uniqCounter = @ + 1]
           c == CountSlot(n)
           polled == [c EXCEPT !.counter = 0]
           framed == [c EXCEPT !.collisions = 0, !.counter = 0,
                               !.uniqCounter = 1]
<1>1. n \in ReaderRecords
  BY IncrementType, UpdateIntType
<1>2. /\ DfsaReader(n) /\ n.uniqCounter = r.uniqCounter + 1
      /\ n.counter = r.counter /\ n.collisions = r.collisions
      /\ n.qValue = r.qValue /\ n.operation = r.operation
      /\ n.rs = "IDLE" /\ n.tagEPC = r.tagEPC
  BY FieldType DEF DfsaReader, ReaderRecords
<1> HIDE DEF n
<1>3. /\ c \in ReaderRecords
      /\ c.service = "EDFSA" /\ c.col = "IDLE" /\ c.bcast = NoHeader
      /\ c.operation = r.operation /\ c.rs = "IDLE"
      /\ c.qValue = r.qValue /\ c.uniqCounter = r.uniqCounter + 1
      /\ c.collisions = IF r.counter > 1 THEN r.collisions + 1
                                         ELSE r.collisions
      /\ Acks(r, c)
  BY <1>1, <1>2, CountSlotFields DEF Acks
<1>4. IF c.uniqCounter <= c.qValue
        THEN s = Resched(Query(polled, "RC_SING", c.uniqCounter, 0))
        ELSE s \in CalculateNextQ(framed, c.collisions, 0)
  BY DEF StartEdfsa, n
<1> HIDE DEF c
<1>5. CASE c.uniqCounter <= c.qValue
  <2>1. polled \in ReaderRecords
    BY <1>3, UpdateNatType
  <2>2. /\ polled.service = "EDFSA" /\ polled.qValue = c.qValue
        /\ polled.uniqCounter = c.uniqCounter /\ polled.counter = 0
        /\ polled.collisions = c.collisions /\ polled.uni = c.uni
        /\ polled.col = "IDLE" /\ polled.operation = c.operation
    BY <1>3 DEF ReaderRecords
  <2> HIDE DEF polled
  <2>3. s = Resched(Query(polled, "RC_SING", polled.uniqCounter, 0))
    BY <1>4, <1>5, <2>2
  <2>4. /\ Calls(s) /\ s.bcast.command = "RC_SING"
        /\ s.service = "EDFSA" /\ s.col = "IDLE"
        /\ s.operation = c.operation /\ s.counter = 0
        /\ s.qValue = c.qValue /\ s.uniqCounter = c.uniqCounter
        /\ s.collisions = c.collisions /\ s.uni = c.uni
    BY <1>3, <2>1, <2>2, <2>3, CallFields DEF DfsaReader
  <2>5. PollsNext(r, s)
    BY <1>3, <1>5, <2>4, FieldType DEF PollsNext
  <2>6. Acks(r, s)
    BY <1>3, <2>4 DEF Acks
  <2> QED
    BY <1>3, <2>4, <2>5, <2>6 DEF Follows
<1>6. CASE ~(c.uniqCounter <= c.qValue)
  <2>1. framed \in ReaderRecords
    <3>1. [c EXCEPT !.collisions = 0, !.counter = 0] \in ReaderRecords
      BY <1>3, UpdateNatType
    <3>2. 1 \in Int
      OBVIOUS
    <3> QED
      BY <3>1, <3>2, UpdateIntType, Zenon
  <2>2. /\ framed.service = "EDFSA" /\ framed.col = "IDLE"
        /\ framed.operation = c.operation /\ framed.counter = 0
        /\ framed.uniqCounter = 1 /\ framed.qValue = c.qValue
        /\ framed.uni = c.uni /\ framed.bcast = NoHeader
        /\ framed.rs = "IDLE"
    BY <1>3 DEF ReaderRecords
  <2> HIDE DEF framed
  <2>3. c.collisions \in Nat /\ framed.estMethod \in Methods
    BY <1>3, <2>1, FieldType
  <2>4. CASE c.collisions > 0
    <3>1. PICK q \in NextFrame(c.collisions, framed.estMethod) :
            s = Resched(Query([framed EXCEPT !.qValue = q],
                              "RC_QUERY", framed.uniqCounter, 0))
      BY <1>4, <1>6, <2>4 DEF CalculateNextQ
    <3>2. q \in Int /\ q >= 1
      BY <2>3, <2>4, NextFrameSize
    <3> DEFINE g == [framed EXCEPT !.qValue = q]
    <3>3. g \in ReaderRecords
      BY <2>1, <3>2, UpdateIntType
    <3>4. /\ g.service = "EDFSA" /\ g.col = "IDLE"
          /\ g.operation = c.operation /\ g.counter = 0
          /\ g.uniqCounter = 1 /\ g.qValue = q /\ g.uni = c.uni
      BY <2>1, <2>2 DEF ReaderRecords
    <3>5. s = Resched(Query(g, "RC_QUERY", g.uniqCounter, 0))
      BY <2>2, <3>1, <3>4
    <3> HIDE DEF g
    <3>6. /\ Calls(s) /\ s.bcast.command = "RC_QUERY"
          /\ s.service = "EDFSA" /\ s.col = "IDLE"
          /\ s.operation = c.operation /\ s.counter = 0
          /\ s.uniqCounter = 1 /\ s.uni = c.uni
      BY <3>2, <3>3, <3>4, <3>5, CallFields
    <3> QED
      BY <1>3, <3>6 DEF Follows, Opens, Acks
  <2>5. CASE ~(c.collisions > 0)
    <3>1. s = framed
      BY <1>4, <1>6, <2>5 DEF CalculateNextQ
    <3>2. Ends(r, s)
      BY <1>3, <1>6, <2>2, <2>3, <2>5, <3>1, FieldType DEF Ends
    <3> QED
      BY <1>3, <2>2, <3>1, <3>2 DEF Follows, Acks
  <2> QED
    BY <2>4, <2>5
<1> QED
  BY <1>5, <1>6

-------------------------------------------------------------------------------
\* What a tag does with a packet of DFSA.
LEMMA DfsaTag ==
  ASSUME NEW t \in Tags, NEW tg \in TagRecords, NEW hdr \in ToTag(t),
         NEW o \in TagRecv(t, tg, hdr)
  PROVE  /\ o.reply \in {"NONE", "TC_REPLY"}
         /\ Acknowledged(tg) => Acknowledged(o.tag)
         /\ hdr.command = "RC_QUERYREPLY" => Acknowledged(o.tag)
         /\ hdr.command = "RC_QUERY" /\ ~Acknowledged(tg) =>
              /\ o.tag.slot >= 1 /\ o.tag.slot <= hdr.qValue
              /\ o.tag.slot = hdr.slotNumber => o.reply = "TC_REPLY"
         /\ hdr.command = "RC_SING" =>
              /\ o.tag.slot = tg.slot
              /\ tg.slot = hdr.slotNumber /\ ~Acknowledged(tg) =>
                   o.reply = "TC_REPLY"
<1>1. /\ hdr.service = "EDFSA" /\ hdr.reply = 0
      /\ hdr.qValue \in Int /\ hdr.qValue >= 1
      /\ hdr.command \in {"RC_QUERY", "RC_SING", "RC_QUERYREPLY"}
  BY DEF ToTag, Headers
<1>2. o \in RecvEdfsa(tg, hdr)
  BY <1>1 DEF TagRecv
<1>3. CASE Acknowledged(tg)
  BY <1>2, <1>3 DEF RecvEdfsa, Silent
<1>4. CASE ~Acknowledged(tg) /\ hdr.command = "RC_QUERY"
  <2>1. PICK s \in DrawSlot2(hdr.qValue) :
          o = Poll(tg, s, hdr.slotNumber, "TC_REPLY")
    BY <1>1, <1>2, <1>4 DEF RecvEdfsa, Addressed
  <2>2. s \in Int /\ s >= 1 /\ s <= hdr.qValue
    BY <1>1 DEF DrawSlot2
  <2>3. o.tag.slot = s
    BY <2>1 DEF Poll, Silent, TagRecords
  <2>4. o.reply = IF s = hdr.slotNumber THEN "TC_REPLY" ELSE "NONE"
    BY <2>1 DEF Poll, Silent
  <2> QED
    BY <1>4, <2>2, <2>3, <2>4
<1>5. CASE ~Acknowledged(tg) /\ hdr.command = "RC_SING"
  BY <1>1, <1>2, <1>5 DEF RecvEdfsa, Silent, TagRecords
<1>6. CASE ~Acknowledged(tg) /\ hdr.command = "RC_QUERYREPLY"
  BY <1>1, <1>2, <1>6 DEF RecvEdfsa, Silent, TagRecords, Acknowledged
<1> QED
  BY <1>1, <1>3, <1>4, <1>5, <1>6

-------------------------------------------------------------------------------
\* What the packets the reader sends do to the link to tag t.
LEMMA EmitDown ==
  ASSUME LinkInv, NEW s, Emit(s), NEW t \in Tags,
         s.uni = NoHeader \/ (s.uni.tagEPC = t => s.uni \in ToTag(t)),
         s.bcast = NoHeader \/ s.bcast \in ToTag(t)
  PROVE  /\ down'[t] \in Seq(ToTag(t))
         /\ AckPending(t) => AckPending(t)'
         /\ s.uni.command = "RC_QUERYREPLY" /\ s.uni.tagEPC = t => AckPending(t)'
         /\ s.bcast # NoHeader =>
              down'[t] # <<>> /\ down'[t][Len(down'[t])] = s.bcast
         /\ (/\ down[t] = <<>> /\ s.bcast # NoHeader
             /\ s.uni = NoHeader \/ s.uni.tagEPC # t)
            => Len(down'[t]) = 1 /\ down'[t][1] = s.bcast
<1> DEFINE d == IF s.uni.command # "NONE" /\ s.uni.tagEPC = t
                  THEN Append(down[t], s.uni) ELSE down[t]
<1>1. down[t] \in Seq(ToTag(t))
  BY DEF LinkInv
<1>2. NoHeader.command = "NONE"
  BY DEF NoHeader
<1>3. \A h \in ToTag(t) : h.command # "NONE" /\ h.service # "EBTSA"
  BY DEF ToTag
<1>4. /\ d \in Seq(ToTag(t))
      /\ \A i \in 1 .. Len(down[t]) : i \in 1 .. Len(d) /\ d[i] = down[t][i]
      /\ s.uni.command = "RC_QUERYREPLY" /\ s.uni.tagEPC = t =>
           \E i \in 1 .. Len(d) : d[i] = s.uni
      /\ s.uni = NoHeader \/ s.uni.tagEPC # t => d = down[t]
  <2>1. CASE s.uni.command # "NONE" /\ s.uni.tagEPC = t
    <3>1. s.uni \in ToTag(t) /\ d = Append(down[t], s.uni)
      BY <1>2, <2>1
    <3>2. /\ d \in Seq(ToTag(t)) /\ Len(d) = Len(down[t]) + 1
          /\ \A i \in 1 .. Len(down[t]) : d[i] = down[t][i]
          /\ d[Len(down[t]) + 1] = s.uni
      BY <1>1, <3>1, AppendProperties
    <3>3. Len(down[t]) \in Nat
      BY <1>1, LenProperties
    <3> HIDE DEF d
    <3> QED
      BY <1>2, <2>1, <3>2, <3>3
  <2>2. CASE ~(s.uni.command # "NONE" /\ s.uni.tagEPC = t)
    BY <1>1, <2>2
  <2> QED
    BY <2>1, <2>2
<1>5. down'[t] = IF s.bcast.command # "NONE" THEN Append(d, s.bcast) ELSE d
  BY DEF Emit, Sent
<1> HIDE DEF d
<1>6. /\ down'[t] \in Seq(ToTag(t))
      /\ \A i \in 1 .. Len(d) : i \in 1 .. Len(down'[t]) /\ down'[t][i] = d[i]
      /\ s.bcast # NoHeader =>
           /\ down'[t] # <<>> /\ down'[t][Len(down'[t])] = s.bcast
           /\ Len(down'[t]) = Len(d) + 1
  <2>1. CASE s.bcast = NoHeader
    BY <1>2, <1>4, <1>5, <2>1
  <2>2. CASE s.bcast # NoHeader
    <3>1. s.bcast \in ToTag(t) /\ down'[t] = Append(d, s.bcast)
      BY <1>3, <1>5, <2>2
    <3>2. /\ down'[t] \in Seq(ToTag(t)) /\ Len(down'[t]) = Len(d) + 1
          /\ down'[t] # <<>>
          /\ \A i \in 1 .. Len(d) : down'[t][i] = d[i]
          /\ down'[t][Len(d) + 1] = s.bcast
      BY <1>4, <3>1, AppendProperties
    <3>3. Len(d) \in Nat
      BY <1>4, LenProperties
    <3> QED
      BY <3>2, <3>3
  <2> QED
    BY <2>1, <2>2
<1>7. \A i \in 1 .. Len(down[t]) :
        i \in 1 .. Len(down'[t]) /\ down'[t][i] = down[t][i]
  BY <1>4, <1>6
<1>8. AckPending(t) => AckPending(t)'
  BY <1>7 DEF AckPending
<1>9. ASSUME s.uni.command = "RC_QUERYREPLY", s.uni.tagEPC = t
      PROVE  AckPending(t)'
  <2>1. PICK i \in 1 .. Len(d) : d[i] = s.uni
    BY <1>4, <1>9
  <2>2. i \in 1 .. Len(down'[t]) /\ down'[t][i] = s.uni
    BY <1>6, <2>1
  <2>3. s.uni.service # "EBTSA"
    BY <1>2, <1>3, <1>9
  <2> QED
    BY <1>9, <2>2, <2>3 DEF AckPending
<1>10. ASSUME down[t] = <<>>, s.bcast # NoHeader,
              s.uni = NoHeader \/ s.uni.tagEPC # t
       PROVE  Len(down'[t]) = 1 /\ down'[t][1] = s.bcast
  <2>1. d = <<>>
    BY <1>4, <1>10
  <2>2. Len(down'[t]) = 1
    BY <1>6, <1>10, <2>1
  <2> QED
    BY <1>6, <1>10, <2>2
<1> QED
  BY <1>6, <1>8, <1>9, <1>10

LEMMA EmitReader ==
  ASSUME NEW s \in ReaderRecords, Emit(s)
  PROVE  /\ rd'.uni = NoHeader /\ rd'.bcast = NoHeader
         /\ rd'.service = s.service /\ rd'.operation = s.operation
         /\ rd'.qValue = s.qValue /\ rd'.uniqCounter = s.uniqCounter
         /\ rd'.counter = s.counter /\ rd'.tagEPC = s.tagEPC
         /\ rd'.collisions = s.collisions
         /\ rd'.rs = s.rs /\ rd'.col = s.col
BY DEF Emit, ReaderRecords

\* Both packets of an event suit the link they are sent on.
LEMMA CallsToTag ==
  ASSUME NEW s, Calls(s), s.bcast.command \in {"RC_QUERY", "RC_SING"},
         NEW t \in Tags
  PROVE  s.bcast \in ToTag(t) /\ s.bcast # NoHeader
<1>1. NoHeader.command = "NONE"
  BY DEF NoHeader
<1> QED
  BY <1>1 DEF Calls, ToTag

LEMMA AcksToTag ==
  ASSUME NEW r, NEW s, Acks(r, s), NEW t \in Tags
  PROVE  s.uni = NoHeader \/ (s.uni.tagEPC = t => s.uni \in ToTag(t))
BY DEF Acks, ToTag

\* A query to all tags: every tag will draw a slot of the new frame.
LEMMA OpenStep ==
  ASSUME LinkInv, NEW s \in ReaderRecords, Emit(s), Opens(s),
         \A t \in Tags : s.uni = NoHeader \/ (s.uni.tagEPC = t => s.uni \in ToTag(t)),
         UNCHANGED up
  PROVE  LinkInv' /\ rd'.rs = "PENDING" /\ \A t \in Tags : WillDraw(t)'
<1>1. /\ Calls(s) /\ s.bcast.command = "RC_QUERY" /\ s.uniqCounter = 1
      /\ s.rs = "PENDING"
      /\ s.bcast.qValue = s.qValue /\ s.bcast.slotNumber = 1
  BY DEF Opens, Calls
<1>2. /\ rd'.qValue = s.qValue /\ rd'.uniqCounter = 1 /\ rd'.rs = "PENDING"
  BY <1>1, EmitReader
<1>3. ASSUME NEW t \in Tags
      PROVE  /\ down'[t] \in Seq(ToTag(t))
             /\ down'[t] # <<>> /\ down'[t][Len(down'[t])] = s.bcast
  BY <1>1, CallsToTag, EmitDown
<1>4. LinkInv'
  BY <1>3 DEF LinkInv, ToTag, FromTag
<1>5. ASSUME NEW t \in Tags
      PROVE  WillDraw(t)'
  BY <1>1, <1>2, <1>3 DEF WillDraw
<1> QED
  BY <1>2, <1>4, <1>5

LEMMA EdfsaQueryFields ==
  ASSUME NEW r \in ReaderRecords, DfsaReader(r)
  PROVE  LET s == EdfsaQuery(r)
         IN /\ s \in ReaderRecords /\ Opens(s)
            /\ s.service = "EDFSA" /\ s.col = "IDLE" /\ s.operation = 2
            /\ s.counter = r.counter /\ s.tagEPC = r.tagEPC
            /\ s.uni = NoHeader
<1> DEFINE g == Restart(r, 2, 1)
           s == EdfsaQuery(r)
<1>1. g \in ReaderRecords
  <2>1. 2 \in {0, 1, 2, 3, 4} /\ 1 \in Int
    OBVIOUS
  <2> QED
    BY <2>1, RestartType, Zenon
<1>2. /\ g.service = "EDFSA" /\ g.col = "IDLE" /\ g.operation = 2
      /\ g.qValue = r.qValue /\ g.uniqCounter = 1
      /\ g.counter = r.counter /\ g.tagEPC = r.tagEPC /\ g.uni = NoHeader
  BY DEF Restart, DfsaReader, ReaderRecords
<1> HIDE DEF g
<1>3. s = Resched(Query(g, "RC_QUERY", g.uniqCounter, 0))
  BY <1>2 DEF EdfsaQuery, g
<1>4. g.qValue >= 1
  BY <1>2 DEF DfsaReader
<1> HIDE DEF s
<1>5. /\ Calls(s) /\ s.bcast.command = "RC_QUERY"
      /\ s.service = "EDFSA" /\ s.col = "IDLE" /\ s.operation = 2
      /\ s.counter = r.counter /\ s.uniqCounter = 1 /\ s.uni = NoHeader
  BY <1>1, <1>2, <1>3, <1>4, CallFields
<1>6. s.tagEPC = r.tagEPC
  BY <1>1, <1>2, <1>3 DEF Resched, Query, ReaderRecords
<1>7. s \in ReaderRecords
  BY CommandType DEF s
<1> QED
  BY <1>5, <1>6, <1>7 DEF Opens, s

-------------------------------------------------------------------------------
\* The inductive step, one lemma per action.

LEMMA InitDfsa ==
  ASSUME Service = "EDFSA", Init
  PROVE  DfsaInv
<1>1. TypeOK
  BY InitType
<1>2. rd.service = "EDFSA" /\ rd.col = "IDLE" /\ rd.qValue = InitialQ
      /\ rd.uniqCounter = 1 /\ rd.uni = NoHeader /\ rd.bcast = NoHeader
      /\ rd.rs = "IDLE" /\ rd.counter = 0 /\ sessions = 0
  BY DEF Init, ReaderInits
<1>3. ReaderInv
  BY <1>2, QAssumption DEF ReaderInv, DfsaReader
<1>4. LinkInv
  <2>1. \A t \in Tags : down[t] = <<>> /\ up[t] = <<>>
    BY DEF Init
  <2> QED
    BY <2>1, EmptySeq DEF LinkInv
<1>5. CountInv
  BY <1>2, FS_EmptySet DEF CountInv, Init
<1>6. CoverInv
  BY <1>2 DEF CoverInv
<1> QED
  BY <1>1, <1>3, <1>4, <1>5, <1>6 DEF DfsaInv

LEMMA CommandDfsa ==
  ASSUME DfsaInv, TypeOK', CommandEdfsa
  PROVE  DfsaInv'
<1> DEFINE s == EdfsaQuery(rd)
<1>1. rd \in ReaderRecords /\ DfsaReader(rd) /\ LinkInv /\ CountInv
  BY DEF DfsaInv, TypeOK, ReaderInv
<1>2. /\ Emit(s) /\ sessions' = sessions + 1
      /\ answered' = {} /\ UNCHANGED up
  BY DEF CommandEdfsa, Command
<1>3. /\ s \in ReaderRecords /\ Opens(s)
      /\ s.service = "EDFSA" /\ s.col = "IDLE" /\ s.operation = 2
      /\ s.counter = rd.counter /\ s.tagEPC = rd.tagEPC
      /\ s.uni = NoHeader
  BY <1>1, EdfsaQueryFields
<1> HIDE DEF s
<1>4. LinkInv' /\ rd'.rs = "PENDING" /\ \A t \in Tags : WillDraw(t)'
  BY <1>1, <1>2, <1>3, OpenStep
<1>5. ReaderInv'
  <2>1. s.qValue >= 1 /\ s.uniqCounter = 1
    BY <1>3 DEF Opens, Calls
  <2>2. sessions \in Nat
    BY BoundsAssumption DEF DfsaInv, TypeOK
  <2> QED
    BY <1>2, <1>3, <2>1, <2>2, EmitReader DEF ReaderInv, DfsaReader
<1>6. CountInv'
  <2>1. rd'.counter \in Nat
    BY FieldType DEF TypeOK
  <2> QED
    BY <1>2, <2>1, FS_EmptySet DEF CountInv
<1>7. CoverInv'
  BY <1>4 DEF CoverInv, Covered
<1> QED
  BY <1>4, <1>5, <1>6, <1>7 DEF DfsaInv

LEMMA RsTimeoutDfsa ==
  ASSUME DfsaInv, TypeOK', RsTimeout
  PROVE  DfsaInv'
<1> DEFINE r == [rd EXCEPT !.rs = "IDLE"]
<1>1. /\ rd \in ReaderRecords /\ DfsaReader(rd) /\ LinkInv /\ CountInv
      /\ CoverInv /\ rd.rs = "PENDING" /\ sessions > 0 /\ rd.operation = 2
  <2>1. sessions \in Nat /\ sessions # 0
    BY BoundsAssumption DEF DfsaInv, TypeOK, ReaderInv, RsTimeout
  <2> QED
    BY <2>1 DEF DfsaInv, TypeOK, ReaderInv, RsTimeout
<1>2. /\ r \in ReaderRecords /\ DfsaReader(r) /\ r.rs = "IDLE"
      /\ r.operation = 2 /\ r.qValue = rd.qValue
      /\ r.uniqCounter = rd.uniqCounter /\ r.collisions = rd.collisions
      /\ r.counter = rd.counter /\ r.tagEPC = rd.tagEPC
  BY <1>1 DEF DfsaReader, ReaderRecords, Timers
<1>3. PICK s \in StartEdfsa(r) :
        /\ Emit(s)
        /\ disturbed' = IF OpensFrame(s) THEN {} ELSE disturbed \cup InFlight
  BY <1>1 DEF RsTimeout, Timeout, Expire
<1>4. answered' = {} /\ UNCHANGED <<tag, up, sessions>>
  BY DEF RsTimeout, Timeout
<1> HIDE DEF r
<1>5. s \in ReaderRecords /\ Follows(r, s)
  BY <1>2, StartEdfsaType, DfsaSlot
<1>6. \A t \in Tags : s.uni = NoHeader \/ (s.uni.tagEPC = t => s.uni \in ToTag(t))
  BY <1>5, AcksToTag DEF Follows
<1>7. ASSUME NEW t \in Tags PROVE s.bcast = NoHeader \/ s.bcast \in ToTag(t)
  BY <1>5, CallsToTag DEF Follows, PollsNext, Opens, Ends
<1>8. LinkInv'
  <2>1. ASSUME NEW t \in Tags PROVE down'[t] \in Seq(ToTag(t))
    BY <1>1, <1>3, <1>6, <1>7, EmitDown
  <2> QED
    BY <1>1, <1>4, <2>1 DEF LinkInv, ToTag, FromTag
<1>9. ReaderInv'
  <2>1. s.qValue >= 1 /\ s.uniqCounter >= 1
    BY <1>2, <1>5, FieldType DEF Follows, PollsNext, Opens, Ends, Calls, DfsaReader
  <2> QED
    BY <1>1, <1>2, <1>3, <1>4, <1>5, <2>1, EmitReader
    DEF Follows, ReaderInv, DfsaReader
<1>10. CountInv'
  <2>1. rd'.counter = 0
    BY <1>3, <1>5, EmitReader DEF Follows
  <2> QED
    BY <1>4, <2>1, FS_EmptySet DEF CountInv
<1>11. CASE Opens(s)
  <2>1. rd'.rs = "PENDING" /\ \A t \in Tags : WillDraw(t)'
    BY <1>1, <1>3, <1>4, <1>5, <1>6, <1>11, OpenStep
  <2>2. CoverInv'
    BY <2>1 DEF CoverInv, Covered
  <2> QED
    BY <1>8, <1>9, <1>10, <2>2 DEF DfsaInv
<1>12. ASSUME ~OpensFrame(s), NEW t \in Tags \ disturbed'
       PROVE  /\ down[t] = <<>> /\ up[t] = <<>>
              /\ Read(t) \/ (Hears(t) /\ (rd.collisions > 0 \/ Upcoming(t)))
              /\ Read(t) => Read(t)'
              /\ s.uni # NoHeader /\ s.uni.tagEPC = t => Read(t)'
              /\ t \in answered => Read(t)' \/ rd.counter > 1
  <2>1. t \in Tags \ disturbed /\ down[t] = <<>> /\ up[t] = <<>>
    BY <1>3, <1>12 DEF InFlight
  <2>2. Read(t) \/ (Hears(t) /\ (rd.collisions > 0 \/ Upcoming(t)))
    BY <1>1, <2>1 DEF CoverInv, Covered, WillDraw
  <2>3. /\ AckPending(t) => AckPending(t)'
        /\ s.uni.command = "RC_QUERYREPLY" /\ s.uni.tagEPC = t => AckPending(t)'
    BY <1>1, <1>3, <1>6, <1>7, <2>1, EmitDown
  <2>4. Read(t) => Read(t)'
    BY <1>4, <2>3 DEF Read
  <2>5. ASSUME t \in answered, ~(rd.counter > 1)
        PROVE  Read(t)'
    <3>1. rd.counter = 1 /\ rd.tagEPC = t
      <4>1. /\ IsFiniteSet(answered) /\ Cardinality(answered) <= rd.counter
            /\ rd.counter \in Nat
        BY <1>1, FieldType DEF CountInv
      <4>2. Cardinality(answered) \in Nat /\ Cardinality(answered) # 0
        BY <2>5, <4>1, FS_CardinalityType, FS_EmptySet
      <4>3. rd.counter = 1
        BY <2>5, <4>1, <4>2
      <4> QED
        BY <1>1, <2>5, <4>3 DEF CountInv
    <3>2. s.uni.command = "RC_QUERYREPLY" /\ s.uni.tagEPC = t
      BY <1>2, <1>5, <3>1 DEF Follows, Acks
    <3> QED
      BY <2>3, <3>2 DEF Read
  <2>6. ASSUME s.uni # NoHeader, s.uni.tagEPC = t
        PROVE  Read(t)'
    BY <1>5, <2>3, <2>6 DEF Follows, Acks, Read
  <2> QED
    BY <2>1, <2>2, <2>4, <2>5, <2>6
<1>13. CASE PollsNext(r, s)
  <2>1. /\ Calls(s) /\ s.bcast.command = "RC_SING"
        /\ s.bcast.slotNumber = s.uniqCounter /\ s.rs = "PENDING"
        /\ s.qValue = rd.qValue /\ s.uniqCounter = rd.uniqCounter + 1
        /\ s.collisions >= rd.collisions
        /\ rd.counter > 1 => s.collisions > 0
    BY <1>2, <1>13 DEF PollsNext, Calls
  <2>2. ~OpensFrame(s)
    BY <2>1 DEF OpensFrame
  <2>3. /\ rd'.rs = "PENDING" /\ rd'.qValue = rd.qValue
        /\ rd'.uniqCounter = rd.uniqCounter + 1
        /\ rd'.collisions = s.collisions
    BY <1>3, <1>5, <2>1, EmitReader
  <2>4. ASSUME NEW t \in Tags \ disturbed'
        PROVE  Covered(t)'
    <3>1. CASE Read(t)'
      BY <3>1 DEF Covered
    <3>2. CASE ~Read(t)'
      <4>1. t \in Tags /\ down[t] = <<>> /\ up[t] = <<>>
        BY <1>12, <2>2
      <4>2. Hears(t) /\ (rd.collisions > 0 \/ Upcoming(t))
        BY <1>12, <2>2, <3>2
      <4>3. s.uni = NoHeader \/ s.uni.tagEPC # t
        BY <1>12, <2>2, <3>2
      <4>4. s.bcast # NoHeader
        BY <2>1, <4>1, CallsToTag
      <4>5. Len(down'[t]) = 1 /\ down'[t][1] = s.bcast
        BY <1>1, <1>3, <1>6, <1>7, <4>1, <4>3, <4>4, EmitDown
      <4>6. Hears(t)'
        BY <2>1, <2>3, <4>5 DEF Hears
      <4>7. /\ tag[t].slot \in Int /\ rd.uniqCounter \in Int /\ rd.qValue \in Int
            /\ s.collisions \in Nat /\ rd.collisions \in Nat
        BY <1>1, <1>5, <4>1, FieldType DEF DfsaInv, TypeOK, TagRecords
      <4>8. CASE t \in answered \/ rd.collisions > 0
        <5>1. rd'.collisions > 0
          BY <1>12, <2>1, <2>2, <2>3, <3>2, <4>7, <4>8
        <5> QED
          BY <4>6, <5>1 DEF Covered
      <4>9. CASE t \notin answered /\ Upcoming(t)
        <5>1. tag[t].slot > rd.uniqCounter /\ tag[t].slot <= rd.qValue
          BY <4>1, <4>2, <4>7, <4>9 DEF Hears, Upcoming
        <5>2. Upcoming(t)'
          BY <1>4, <2>3, <4>7, <5>1 DEF Upcoming
        <5> QED
          BY <4>6, <5>2 DEF Covered
      <4> QED
        BY <4>2, <4>8, <4>9
    <3> QED
      BY <3>1, <3>2
  <2>5. CoverInv'
    BY <2>3, <2>4 DEF CoverInv
  <2> QED
    BY <1>8, <1>9, <1>10, <2>5 DEF DfsaInv
<1>14. CASE Ends(r, s)
  <2>1. /\ s.rs = "IDLE" /\ s.bcast = NoHeader
        /\ rd.uniqCounter >= rd.qValue /\ rd.collisions = 0 /\ rd.counter <= 1
    BY <1>2, <1>14 DEF Ends
  <2>2. ~OpensFrame(s)
    BY <2>1 DEF OpensFrame, NoHeader
  <2>3. rd'.rs = "IDLE"
    BY <1>3, <1>5, <2>1, EmitReader
  <2>4. ASSUME NEW t \in Tags \ disturbed'
        PROVE  Read(t)'
    <3>1. Read(t) \/ t \in answered
      <4>1. t \in Tags /\ up[t] = <<>> /\ down[t] = <<>>
        BY <1>12, <2>2
      <4>2. /\ tag[t].slot \in Int /\ rd.uniqCounter \in Int /\ rd.qValue \in Int
        BY <1>1, <4>1, FieldType DEF DfsaInv, TypeOK, TagRecords
      <4>3. ASSUME Hears(t), Upcoming(t) PROVE t \in answered
        BY <2>1, <4>1, <4>2, <4>3 DEF Hears, Upcoming
      <4> QED
        BY <1>12, <2>1, <2>2, <4>3
    <3>2. ~(rd.counter > 1)
      BY <1>1, <2>1, FieldType
    <3> QED
      BY <1>12, <2>2, <3>1, <3>2
  <2>5. CoverInv'
    BY <2>3, <2>4 DEF CoverInv
  <2> QED
    BY <1>8, <1>9, <1>10, <2>5 DEF DfsaInv
<1> QED
  BY <1>5, <1>11, <1>13, <1>14 DEF Follows

\* A step that changes nothing that matters to tag t keeps it covered.
LEMMA KeepsCovered ==
  ASSUME NEW t \in Tags,
         tag'[t] = tag[t], down'[t] = down[t], up'[t] = up[t],
         t \in answered' <=> t \in answered,
         rd'.collisions = rd.collisions, rd'.qValue = rd.qValue,
         rd'.uniqCounter = rd.uniqCounter
  PROVE  /\ Read(t) => Read(t)'
         /\ Covered(t) => Covered(t)'
<1>1. AckPending(t) => AckPending(t)'
  BY DEF AckPending
<1>2. Read(t) => Read(t)'
  BY <1>1 DEF Read
<1>3. WillDraw(t) => WillDraw(t)'
  BY DEF WillDraw
<1>4. (Hears(t) => Hears(t)') /\ (Upcoming(t) => Upcoming(t)')
  BY DEF Hears, Upcoming
<1> QED
  BY <1>2, <1>3, <1>4 DEF Covered

\* A packet leaves the link.
LEMMA TailFields ==
  ASSUME NEW S, NEW q \in Seq(S), q # <<>>
  PROVE  LET w == Tail(q)
         IN /\ Head(q) \in S /\ Head(q) = q[1] /\ w \in Seq(S)
            /\ Len(q) = 1 => w = <<>>
            /\ Len(q) # 1 => w # <<>> /\ w[Len(w)] = q[Len(q)]
            /\ \A i \in 1 .. Len(q) :
                 i # 1 => i - 1 \in 1 .. Len(w) /\ w[i - 1] = q[i]
<1> DEFINE w == Tail(q)
<1>1. /\ Head(q) \in S /\ w \in Seq(S) /\ Len(w) = Len(q) - 1
      /\ \A i \in 1 .. Len(w) : w[i] = q[i + 1]
  BY HeadTailProperties
<1>2. Head(q) = q[1]
  OBVIOUS
<1>3. Len(q) \in Nat \ {0} /\ Len(w) \in Nat
  BY <1>1, EmptySeq, LenProperties
<1> HIDE DEF w
<1>4. Len(q) = 1 => w = <<>>
  BY <1>1, <1>3, EmptySeq
<1>5. ASSUME NEW i \in 1 .. Len(q), i # 1
      PROVE  i - 1 \in 1 .. Len(w) /\ w[i - 1] = q[i]
  BY <1>1, <1>3, <1>5
<1>6. ASSUME Len(q) # 1
      PROVE  w # <<>> /\ w[Len(w)] = q[Len(q)]
  <2>1. Len(q) \in 1 .. Len(q) /\ Len(w) = Len(q) - 1
    BY <1>1, <1>3
  <2>2. w[Len(w)] = q[Len(q)]
    BY <1>5, <1>6, <2>1
  <2>3. Len(w) # 0
    BY <1>1, <1>3, <1>6
  <2> QED
    BY <2>2, <2>3
<1> QED
  BY <1>1, <1>2, <1>4, <1>5, <1>6 DEF w

LEMMA TagReceivesDfsa ==
  ASSUME DfsaInv, TypeOK', NEW u \in Tags, TagReceives(u)
  PROVE  DfsaInv'
<1> DEFINE hdr == Head(down[u])
           rest == Tail(down[u])
<1>1. /\ TypeOK /\ ReaderInv /\ LinkInv /\ CountInv /\ CoverInv
      /\ down[u] # <<>> /\ down[u] \in Seq(ToTag(u)) /\ up[u] \in Seq(FromTag)
      /\ UNCHANGED <<rd, sessions, answered, disturbed>>
  BY DEF DfsaInv, LinkInv, TagReceives
<1>2. /\ hdr \in ToTag(u) /\ hdr = down[u][1] /\ rest \in Seq(ToTag(u))
      /\ Len(down[u]) = 1 => rest = <<>>
      /\ Len(down[u]) # 1 =>
           rest # <<>> /\ rest[Len(rest)] = down[u][Len(down[u])]
      /\ \A i \in 1 .. Len(down[u]) :
           i # 1 => i - 1 \in 1 .. Len(rest) /\ rest[i - 1] = down[u][i]
  BY <1>1, TailFields
<1>3. PICK o \in TagRecv(u, tag[u], hdr) :
        /\ tag' = [tag EXCEPT ![u] = o.tag]
        /\ up' = IF o.reply = "NONE" THEN up
                 ELSE [up EXCEPT ![u] = Append(@,
                         [command |-> o.reply, service |-> hdr.service])]
  BY DEF TagReceives
<1>4. /\ tag'[u] = o.tag /\ down'[u] = rest
      /\ \A t \in Tags \ {u} :
           tag'[t] = tag[t] /\ down'[t] = down[t] /\ up'[t] = up[t]
  BY <1>1, <1>3 DEF TagReceives, TypeOK
<1>5. /\ o.reply \in {"NONE", "TC_REPLY"}
      /\ Acknowledged(tag[u]) => Acknowledged(o.tag)
      /\ hdr.command = "RC_QUERYREPLY" => Acknowledged(o.tag)
      /\ hdr.command = "RC_QUERY" /\ ~Acknowledged(tag[u]) =>
           /\ o.tag.slot >= 1 /\ o.tag.slot <= hdr.qValue
           /\ o.tag.slot = hdr.slotNumber => o.reply = "TC_REPLY"
      /\ hdr.command = "RC_SING" =>
           /\ o.tag.slot = tag[u].slot
           /\ tag[u].slot = hdr.slotNumber /\ ~Acknowledged(tag[u]) =>
                o.reply = "TC_REPLY"
  <2>1. tag[u] \in TagRecords
    BY <1>1 DEF TypeOK
  <2> HIDE DEF hdr
  <2> QED
    BY <1>2, <2>1, DfsaTag
<1>6. up'[u] \in Seq(FromTag) /\ (o.reply = "TC_REPLY" => up'[u] # <<>>)
  <2> DEFINE a == [command |-> o.reply, service |-> hdr.service]
  <2>1. CASE o.reply = "NONE"
    BY <1>1, <1>3, <2>1
  <2>2. CASE o.reply = "TC_REPLY"
    <3>1. a \in FromTag
      BY <1>2, <2>2 DEF FromTag, Replies, TagCommands, Services, ToTag
    <3>2. up'[u] = Append(up[u], a)
      BY <1>1, <1>3, <2>2 DEF TypeOK
    <3> HIDE DEF a
    <3> QED
      BY <1>1, <3>1, <3>2, AppendProperties
  <2> QED
    BY <1>5, <2>1, <2>2
<1> HIDE DEF hdr, rest
<1>7. LinkInv'
  <2>1. ASSUME NEW t \in Tags
        PROVE  down'[t] \in Seq(ToTag(t)) /\ up'[t] \in Seq(FromTag)
    BY <1>1, <1>2, <1>4, <1>6 DEF LinkInv
  <2> QED
    BY <2>1 DEF LinkInv, ToTag, FromTag
<1>8. ReaderInv' /\ CountInv'
  BY <1>1 DEF ReaderInv, CountInv
<1>9. Read(u) => Read(u)'
  <2>1. CASE Acknowledged(tag[u])
    BY <1>4, <1>5, <2>1 DEF Read
  <2>2. CASE AckPending(u)
    <3>1. PICK i \in 1 .. Len(down[u]) :
            /\ down[u][i].command = "RC_QUERYREPLY" /\ down[u][i].tagEPC = u
            /\ down[u][i].service # "EBTSA"
      BY <2>2 DEF AckPending
    <3>2. CASE i = 1
      BY <1>2, <1>4, <1>5, <3>1, <3>2 DEF Read
    <3>3. CASE i # 1
      <4>1. i - 1 \in 1 .. Len(down'[u]) /\ down'[u][i - 1] = down[u][i]
        BY <1>2, <1>4, <3>3
      <4> QED
        BY <3>1, <4>1 DEF Read, AckPending
    <3> QED
      BY <3>2, <3>3
  <2> QED
    BY <2>1, <2>2 DEF Read
<1>10. ASSUME WillDraw(u) PROVE Covered(u)'
  <2>1. /\ rd.uniqCounter = 1 /\ down[u][Len(down[u])].command = "RC_QUERY"
        /\ down[u][Len(down[u])].qValue = rd.qValue
        /\ down[u][Len(down[u])].slotNumber = 1
    BY <1>10 DEF WillDraw
  <2>2. CASE Len(down[u]) = 1
    <3>1. down'[u] = <<>>
      BY <1>2, <1>4, <2>2
    <3>2. CASE Acknowledged(tag[u])
      BY <1>9, <3>2 DEF Read, Covered
    <3>3. CASE ~Acknowledged(tag[u])
      <4>1. /\ o.tag.slot >= 1 /\ o.tag.slot <= rd.qValue
            /\ o.tag.slot = 1 => up'[u] # <<>>
        BY <1>2, <1>5, <1>6, <2>1, <2>2, <3>3
      <4>2. o.tag.slot \in Int
        BY <1>4 DEF TypeOK, TagRecords
      <4>3. Hears(u)' /\ Upcoming(u)'
        <5>1. tag'[u].slot = o.tag.slot /\ rd' = rd
          BY <1>1, <1>4
        <5> QED
          BY <2>1, <3>1, <4>1, <5>1 DEF Hears, Upcoming
      <4> QED
        BY <4>3 DEF Covered
    <3> QED
      BY <3>2, <3>3
  <2>3. CASE Len(down[u]) # 1
    <3>1. down'[u] # <<>> /\ down'[u][Len(down'[u])] = down[u][Len(down[u])]
      BY <1>2, <1>4, <2>3
    <3>2. WillDraw(u)'
      BY <1>1, <2>1, <3>1 DEF WillDraw
    <3> QED
      BY <3>2 DEF Covered
  <2> QED
    BY <2>2, <2>3
<1>11. ASSUME Hears(u), rd.collisions > 0 \/ Upcoming(u) PROVE Covered(u)'
  <2>1. /\ Len(down[u]) = 1 /\ hdr.command = "RC_SING"
        /\ hdr.slotNumber = rd.uniqCounter
    BY <1>1, <1>2, <1>11 DEF Hears
  <2>2. down'[u] = <<>>
    BY <1>2, <1>4, <2>1
  <2>3. CASE Acknowledged(tag[u])
    BY <1>9, <2>3 DEF Read, Covered
  <2>4. CASE ~Acknowledged(tag[u])
    <3>1. /\ tag'[u].slot = tag[u].slot
          /\ tag[u].slot = rd.uniqCounter => up'[u] # <<>>
      BY <1>4, <1>5, <1>6, <2>1, <2>4
    <3>2. Hears(u)' /\ (Upcoming(u) => Upcoming(u)')
      BY <1>1, <2>2, <3>1 DEF Hears, Upcoming
    <3> QED
      BY <1>1, <1>11, <3>2 DEF Covered
  <2> QED
    BY <2>3, <2>4
<1>12. Covered(u) => Covered(u)'
  BY <1>1, <1>9, <1>10, <1>11 DEF Covered
<1>13. ASSUME NEW t \in Tags
       PROVE  (Read(t) => Read(t)') /\ (Covered(t) => Covered(t)')
  <2>1. CASE t = u
    BY <1>9, <1>12, <2>1
  <2>2. CASE t # u
    BY <1>1, <1>4, <2>2, KeepsCovered
  <2> QED
    BY <2>1, <2>2
<1>14. CoverInv'
  BY <1>1, <1>13 DEF CoverInv
<1> QED
  BY <1>7, <1>8, <1>14 DEF DfsaInv

LEMMA ReaderReceivesDfsa ==
  ASSUME DfsaInv, TypeOK', NEW u \in Tags, ReaderReceives(u)
  PROVE  DfsaInv'
<1> DEFINE a == Head(up[u])
<1>1. /\ TypeOK /\ ReaderInv /\ LinkInv /\ CountInv /\ CoverInv
      /\ up[u] # <<>> /\ up[u] \in Seq(FromTag)
      /\ UNCHANGED <<tag, down, sessions, disturbed>>
  BY DEF DfsaInv, LinkInv, ReaderReceives
<1>2. a \in FromTag /\ Tail(up[u]) \in Seq(FromTag)
  BY <1>1, TailFields
<1>3. a.service = "EDFSA" /\ a.command = "TC_REPLY"
  BY <1>2 DEF FromTag
<1>4. Counted(a)
  BY <1>3 DEF Counted
<1>5. /\ rd' = [rd EXCEPT !.tagEPC = u, !.counter = @ + 1]
      /\ answered' = answered \cup {u}
      /\ up' = [up EXCEPT ![u] = Tail(@)]
  BY <1>4 DEF ReaderReceives, Recv
<1>6. /\ rd'.counter = rd.counter + 1 /\ rd'.tagEPC = u
      /\ rd'.service = rd.service /\ rd'.col = rd.col /\ rd'.rs = rd.rs
      /\ rd'.operation = rd.operation /\ rd'.uni = rd.uni
      /\ rd'.bcast = rd.bcast /\ rd'.qValue = rd.qValue
      /\ rd'.uniqCounter = rd.uniqCounter /\ rd'.collisions = rd.collisions
  BY <1>1, <1>5 DEF TypeOK, ReaderRecords
<1>7. ReaderInv'
  BY <1>1, <1>6 DEF ReaderInv, DfsaReader
<1>8. LinkInv'
  <2>1. ASSUME NEW t \in Tags
        PROVE  down'[t] \in Seq(ToTag(t)) /\ up'[t] \in Seq(FromTag)
    BY <1>1, <1>2, <1>5 DEF LinkInv, TypeOK
  <2> QED
    BY <2>1 DEF LinkInv, ToTag, FromTag
<1>9. CountInv'
  <2>1. rd.counter \in Nat
    BY <1>1, FieldType DEF TypeOK
  <2>2. IsFiniteSet(answered) /\ Cardinality(answered) <= rd.counter
    BY <1>1 DEF CountInv
  <2>3. Cardinality(answered) \in Nat
    BY <2>2, FS_CardinalityType
  <2>4. IsFiniteSet(answered') /\ Cardinality(answered') <= rd'.counter
    <3>1. /\ IsFiniteSet(answered')
          /\ Cardinality(answered') \in {Cardinality(answered), Cardinality(answered) + 1}
      BY <1>5, <2>2, FS_AddElement
    <3> QED
      BY <1>6, <2>1, <2>2, <2>3, <3>1
  <2>5. rd'.counter = 1 => answered = {}
    BY <1>6, <2>1, <2>2, <2>3, FS_EmptySet
  <2> QED
    BY <1>5, <1>6, <2>4, <2>5 DEF CountInv
<1>10. ASSUME NEW t \in Tags
       PROVE  (Read(t) => Read(t)') /\ (Covered(t) => Covered(t)')
  <2>1. CASE t # u
    <3>1. /\ tag'[t] = tag[t] /\ down'[t] = down[t] /\ up'[t] = up[t]
          /\ t \in answered' <=> t \in answered
      BY <1>1, <1>5, <2>1 DEF TypeOK
    <3> QED
      BY <1>6, <3>1, KeepsCovered
  <2>2. CASE t = u
    <3>1. Read(u) => Read(u)'
      BY <1>1 DEF Read, AckPending
    <3>2. WillDraw(u) => WillDraw(u)'
      BY <1>1, <1>6 DEF WillDraw
    <3>3. (Hears(u) => Hears(u)') /\ (Upcoming(u) => Upcoming(u)')
      <4>1. u \in answered' /\ tag' = tag /\ down' = down
        BY <1>1, <1>5
      <4> QED
        BY <1>6, <4>1 DEF Hears, Upcoming
    <3> QED
      BY <1>6, <2>2, <3>1, <3>2, <3>3 DEF Covered
  <2> QED
    BY <2>1, <2>2
<1>11. CoverInv'
  BY <1>1, <1>6, <1>10 DEF CoverInv
<1> QED
  BY <1>7, <1>8, <1>9, <1>11 DEF DfsaInv

LEMMA LoseDfsa ==
  ASSUME DfsaInv, TypeOK', NEW u \in Tags, LoseDown(u) \/ LoseUp(u)
  PROVE  DfsaInv'
<1>1. /\ TypeOK /\ ReaderInv /\ LinkInv /\ CountInv /\ CoverInv
      /\ UNCHANGED <<rd, tag, sessions, answered>>
      /\ disturbed' = disturbed \cup {u}
  BY DEF DfsaInv, LoseDown, LoseUp
<1>2. /\ down'[u] \in Seq(ToTag(u)) /\ up'[u] \in Seq(FromTag)
      /\ \A t \in Tags \ {u} : down'[t] = down[t] /\ up'[t] = up[t]
  <2>1. down[u] \in Seq(ToTag(u)) /\ up[u] \in Seq(FromTag)
    BY <1>1 DEF LinkInv
  <2>2. CASE LoseDown(u)
    <3>1. down[u] # <<>> /\ up' = up /\ down' = [down EXCEPT ![u] = Tail(@)]
      BY <2>2 DEF LoseDown
    <3>2. Tail(down[u]) \in Seq(ToTag(u))
      BY <2>1, <3>1, TailFields
    <3> QED
      BY <1>1, <2>1, <3>1, <3>2 DEF TypeOK
  <2>3. CASE LoseUp(u)
    <3>1. up[u] # <<>> /\ down' = down /\ up' = [up EXCEPT ![u] = Tail(@)]
      BY <2>3 DEF LoseUp
    <3>2. Tail(up[u]) \in Seq(FromTag)
      BY <2>1, <3>1, TailFields
    <3> QED
      BY <1>1, <2>1, <3>1, <3>2 DEF TypeOK
  <2> QED
    BY <2>2, <2>3
<1>3. LinkInv'
  <2>1. ASSUME NEW t \in Tags
        PROVE  down'[t] \in Seq(ToTag(t)) /\ up'[t] \in Seq(FromTag)
    BY <1>1, <1>2 DEF LinkInv
  <2> QED
    BY <2>1 DEF LinkInv, ToTag, FromTag
<1>4. ReaderInv' /\ CountInv'
  BY <1>1 DEF ReaderInv, CountInv
<1>5. ASSUME NEW t \in Tags \ disturbed'
      PROVE  (Read(t) => Read(t)') /\ (Covered(t) => Covered(t)')
  BY <1>1, <1>2, KeepsCovered
<1>6. CoverInv'
  BY <1>1, <1>5 DEF CoverInv
<1> QED
  BY <1>3, <1>4, <1>6 DEF DfsaInv

LEMMA StepDfsa ==
  ASSUME Service = "EDFSA", DfsaInv, [Next]_vars
  PROVE  DfsaInv'
<1>1. TypeOK'
  BY StepType DEF DfsaInv
<1>2. CASE CommandStandard \/ CommandEstimation \/ CommandEstimationDfsa
  BY <1>2 DEF CommandStandard, CommandEstimation, CommandEstimationDfsa
<1>3. CASE CommandEdfsa
  BY <1>1, <1>3, CommandDfsa
<1>4. CASE RsTimeout
  BY <1>1, <1>4, RsTimeoutDfsa
<1>5. CASE ColTimeout
  BY <1>5 DEF ColTimeout, DfsaInv, ReaderInv, DfsaReader
<1>6. ASSUME NEW t \in Tags,
             TagReceives(t) \/ ReaderReceives(t) \/ LoseDown(t) \/ LoseUp(t)
      PROVE  DfsaInv'
  BY <1>1, <1>6, TagReceivesDfsa, ReaderReceivesDfsa, LoseDfsa
<1>7. CASE UNCHANGED vars
  <2>1. /\ rd' = rd /\ tag' = tag /\ down' = down /\ up' = up
        /\ sessions' = sessions /\ answered' = answered
        /\ disturbed' = disturbed
    BY <1>7 DEF vars
  <2>2. ReaderInv' /\ CountInv'
    BY <2>1 DEF DfsaInv, ReaderInv, CountInv
  <2>3. LinkInv'
    BY <2>1 DEF DfsaInv, LinkInv, ToTag, FromTag
  <2>4. CoverInv'
    <3>1. ASSUME NEW t \in Tags
          PROVE  (Read(t) => Read(t)') /\ (Covered(t) => Covered(t)')
      BY <2>1, KeepsCovered
    <3> QED
      BY <2>1, <3>1 DEF DfsaInv, CoverInv
  <2> QED
    BY <1>1, <2>2, <2>3, <2>4 DEF DfsaInv
<1> QED
  BY <1>2, <1>3, <1>4, <1>5, <1>6, <1>7 DEF Next

LEMMA DfsaInvariant ==
  ASSUME Service = "EDFSA"
  PROVE  Spec => []DfsaInv
<1>1. Init => DfsaInv
  BY InitDfsa
<1>2. DfsaInv /\ [Next]_vars => DfsaInv'
  BY StepDfsa
<1> QED
  BY <1>1, <1>2, PTL DEF Spec

-------------------------------------------------------------------------------
\* However many tags there are, whatever slots they draw, and whatever packets
\* are lost or late: when start_edfsa() ends an inventory because no slot of
\* the last frame had a collision, it has acknowledged every tag that had no
\* packet lost or late in that frame.
THEOREM DfsaMissesNoTag ==
  ASSUME Service = "EDFSA"
  PROVE  Spec => []NoSilentMiss
<1>1. DfsaInv => NoSilentMiss
  <2> SUFFICES ASSUME DfsaInv, Concluded, NEW t \in Tags \ disturbed
               PROVE  Read(t)
    BY DEF NoSilentMiss
  <2>1. rd.rs = "IDLE" /\ sessions > 0
    <3>1. rd.rs \in Timers
      BY DEF DfsaInv, TypeOK, ReaderRecords
    <3> QED
      BY <3>1 DEF Concluded, Running, Timers
  <2> QED
    BY <2>1 DEF DfsaInv, CoverInv
<1> QED
  BY <1>1, DfsaInvariant, PTL

\* In DFSA counter_ = 0 always means that no answer has come since the slot
\* began, with a command or with the last expiry: start_edfsa() resets counter_
\* only there, and recv() counts whatever comes in between.
THEOREM DfsaIdleSlots ==
  ASSUME Service = "EDFSA"
  PROVE  Spec => []IdleSlot
<1>1. DfsaInv => IdleSlot
  <2> SUFFICES ASSUME DfsaInv, rd.counter = 0 PROVE answered = {}
    BY DEF IdleSlot
  <2>1. IsFiniteSet(answered) /\ Cardinality(answered) <= 0
    BY DEF DfsaInv, CountInv
  <2>2. Cardinality(answered) \in Nat
    BY <2>1, FS_CardinalityType
  <2> QED
    BY <2>1, <2>2, FS_EmptySet
<1> QED
  BY <1>1, DfsaInvariant, PTL

-------------------------------------------------------------------------------
(***************************************************************************)
(* What counter_ counts.  That it is not too small at the end of a slot    *)
(* follows from CountInv and CoverInv.  That it is not too large holds     *)
(* while no expiry came early and no session was cut short: a slot begins  *)
(* with the links empty, so that the packets under way, and the answers    *)
(* that have come, are all of this slot, one at a time for each tag.       *)
(***************************************************************************)

\* An acknowledgement is ahead of the call for the slot under way, which is
\* the last packet.
Orderly(t) ==
  \A i \in 1 .. Len(down[t]) :
    IF down[t][i].command = "RC_QUERYREPLY" THEN i = 1
    ELSE /\ i = Len(down[t]) /\ down[t][i].slotNumber = rd.uniqCounter
         /\ rd.rs = "PENDING"

\* Tag t answers once in a slot, and only in its own.
Exact(t) ==
  /\ Orderly(t)
  /\ down[t] # <<>> => up[t] = <<>> /\ t \notin answered
  /\ up[t] # <<>> => Len(up[t]) = 1 /\ t \notin answered /\ rd.rs = "PENDING"
  /\ up[t] # <<>> \/ t \in answered => t \in InSlot

Untouched ==
  /\ rd.counter = 0
  /\ \A t \in Tags : down[t] = <<>> /\ up[t] = <<>> /\ ~Acknowledged(tag[t])

ExactInv ==
  /\ sessions = 0 => Untouched
  /\ late = 0 /\ Uncut =>
       /\ rd.counter <= Cardinality(answered)
       /\ rd.rs = "IDLE" => rd.counter = 0
       /\ \A t \in Tags : Exact(t)

\* A tag answers only while it is not acknowledged, and only in its slot; only
\* an acknowledgement makes it acknowledged, which it does not answer.
LEMMA TagAnswers ==
  ASSUME NEW t \in Tags, NEW tg \in TagRecords, NEW hdr \in ToTag(t),
         NEW o \in TagRecv(t, tg, hdr)
  PROVE  /\ hdr.command # "RC_QUERYREPLY" => (Acknowledged(o.tag) <=> Acknowledged(tg))
         /\ hdr.command = "RC_QUERYREPLY" => o.reply = "NONE"
         /\ o.reply # "NONE" => ~Acknowledged(tg) /\ o.tag.slot = hdr.slotNumber
<1>1. /\ hdr.service = "EDFSA"
      /\ hdr.command \in {"RC_QUERY", "RC_SING", "RC_QUERYREPLY"}
  BY DEF ToTag
<1>2. o \in RecvEdfsa(tg, hdr)
  BY <1>1 DEF TagRecv
<1>3. CASE Acknowledged(tg)
  BY <1>2, <1>3 DEF RecvEdfsa, Silent
<1>4. CASE ~Acknowledged(tg) /\ hdr.command = "RC_QUERY"
  <2>1. hdr.reply = 0
    BY DEF ToTag
  <2>2. PICK s \in DrawSlot2(hdr.qValue) :
          o = Poll(tg, s, hdr.slotNumber, "TC_REPLY")
    BY <1>1, <1>2, <1>4, <2>1 DEF RecvEdfsa, Addressed
  <2>3. ~Acknowledged(o.tag)
    BY <2>2 DEF Poll, Silent, Acknowledged, TagRecords
  <2>4. o.reply # "NONE" => o.tag.slot = hdr.slotNumber
    BY <2>2 DEF Poll, Silent, TagRecords
  <2> QED
    BY <1>4, <2>3, <2>4
<1>5. CASE ~Acknowledged(tg) /\ hdr.command = "RC_SING"
  BY <1>1, <1>2, <1>5 DEF RecvEdfsa, Silent, TagRecords, Acknowledged
<1>6. CASE ~Acknowledged(tg) /\ hdr.command = "RC_QUERYREPLY"
  BY <1>1, <1>2, <1>6 DEF RecvEdfsa, Silent
<1> QED
  BY <1>1, <1>3, <1>4, <1>5, <1>6

\* One or two packets on an empty link
LEMMA AppendOnEmpty ==
  ASSUME NEW a, NEW b
  PROVE  /\ Len(Append(<<>>, a)) = 1 /\ Append(<<>>, a)[1] = a
         /\ Len(Append(Append(<<>>, a), b)) = 2
         /\ Append(Append(<<>>, a), b)[1] = a /\ Append(Append(<<>>, a), b)[2] = b
<1> DEFINE S == {a, b}
           p == Append(<<>>, a)
           q == Append(p, b)
<1>1. <<>> \in Seq(S) /\ Len(<<>>) = 0 /\ a \in S /\ b \in S
  BY EmptySeq
<1> HIDE DEF S
<1>2. p \in Seq(S) /\ Len(p) = 1 /\ p[1] = a
  BY <1>1, AppendProperties
<1> HIDE DEF p
<1>3. Len(q) = 2 /\ q[1] = a /\ q[2] = b
  <2>1. /\ Len(q) = Len(p) + 1 /\ q[Len(p) + 1] = b
        /\ \A i \in 1 .. Len(p) : q[i] = p[i]
    <3>1. p \in Seq(S) /\ b \in S
      BY <1>1, <1>2
    <3> QED
      BY <3>1, AppendProperties
  <2>2. 1 \in 1 .. Len(p) /\ Len(p) + 1 = 2
    BY <1>2
  <2> HIDE DEF q
  <2> QED
    BY <1>2, <2>1, <2>2
<1> QED
  BY <1>2, <1>3 DEF p, q

\* What an event of the reader sends over an empty link to tag t.
LEMMA EmitOnEmpty ==
  ASSUME NEW s \in ReaderRecords, Emit(s), NEW t \in Tags, down[t] = <<>>,
         s.bcast = NoHeader \/ (Calls(s) /\ s.bcast.command # "RC_QUERYREPLY"),
         s.uni = NoHeader \/ (s.uni.command = "RC_QUERYREPLY" /\ s.uni.service = "EDFSA")
  PROVE  /\ Orderly(t)'
         /\ AckPending(t)' <=> (s.uni # NoHeader /\ s.uni.tagEPC = t)
<1>1. NoHeader.command = "NONE"
  BY DEF NoHeader
<1>2. down'[t] = Sent(s, t)
  BY DEF Emit
<1>3. /\ rd'.rs = s.rs /\ rd'.uniqCounter = s.uniqCounter
      /\ s.bcast.command # "RC_QUERYREPLY"
      /\ s.bcast.command # "NONE" =>
           s.rs = "PENDING" /\ s.bcast.slotNumber = s.uniqCounter
  BY <1>1, EmitReader DEF Calls
<1>4. CASE s.uni # NoHeader /\ s.uni.tagEPC = t
  <2>1. down'[t] = IF s.bcast.command # "NONE"
                   THEN Append(Append(<<>>, s.uni), s.bcast) ELSE Append(<<>>, s.uni)
    BY <1>2, <1>4 DEF Sent
  <2>2. /\ Len(down'[t]) \in {1, 2} /\ down'[t][1] = s.uni
        /\ Len(down'[t]) = 2 => down'[t][2] = s.bcast /\ s.bcast.command # "NONE"
    BY <2>1, AppendOnEmpty
  <2>3. Orderly(t)'
    <3>1. ASSUME NEW i \in 1 .. Len(down'[t])
          PROVE  \/ i = 1 /\ down'[t][i].command = "RC_QUERYREPLY"
                 \/ /\ i = Len(down'[t]) /\ down'[t][i] = s.bcast
                    /\ s.bcast.command # "NONE"
      <4>1. CASE Len(down'[t]) = 1
        <5>1. i = 1
          BY <4>1
        <5> QED
          BY <1>4, <2>2, <5>1
      <4>2. CASE Len(down'[t]) = 2
        <5>1. i = 1 \/ i = 2
          BY <4>2
        <5> QED
          BY <1>4, <2>2, <4>2, <5>1
      <4> QED
        BY <2>2, <4>1, <4>2
    <3> QED
      BY <1>3, <3>1 DEF Orderly
  <2>4. AckPending(t)'
    BY <1>4, <2>2 DEF AckPending
  <2> QED
    BY <1>4, <2>3, <2>4
<1>5. CASE ~(s.uni # NoHeader /\ s.uni.tagEPC = t)
  <2>1. down'[t] = IF s.bcast.command # "NONE" THEN Append(<<>>, s.bcast) ELSE <<>>
    BY <1>1, <1>2, <1>5 DEF Sent
  <2>2. /\ Len(down'[t]) \in {0, 1}
        /\ Len(down'[t]) = 1 => down'[t][1] = s.bcast /\ s.bcast.command # "NONE"
    BY <2>1, AppendOnEmpty
  <2>3. ASSUME NEW i \in 1 .. Len(down'[t])
        PROVE  /\ down'[t][i] = s.bcast /\ i = Len(down'[t])
               /\ s.bcast.command # "NONE"
    <3>1. CASE Len(down'[t]) = 1
      <4>1. i = 1
        BY <3>1
      <4> QED
        BY <2>2, <3>1, <4>1
    <3> QED
      BY <2>2, <3>1
  <2>4. Orderly(t)'
    BY <1>3, <2>3 DEF Orderly
  <2>5. ~AckPending(t)'
    BY <1>3, <2>3 DEF AckPending
  <2> QED
    BY <1>5, <2>4, <2>5
<1> QED
  BY <1>4, <1>5

\* A packet leaves the link to tag u.
LEMMA OrderlyTail ==
  ASSUME LinkInv, NEW u \in Tags, Orderly(u), down[u] # <<>>,
         down'[u] = Tail(down[u]), UNCHANGED rd
  PROVE  /\ Orderly(u)' /\ ~AckPending(u)'
         /\ Head(down[u]).command # "RC_QUERYREPLY" =>
              /\ down'[u] = <<>> /\ rd.rs = "PENDING"
              /\ Head(down[u]).slotNumber = rd.uniqCounter
<1>1. down[u] \in Seq(ToTag(u))
  BY DEF LinkInv
<1>2. /\ Len(down'[u]) = Len(down[u]) - 1
      /\ \A i \in 1 .. Len(down'[u]) : down'[u][i] = down[u][i + 1]
  BY <1>1, HeadTailProperties
<1>3. Len(down[u]) \in Nat \ {0} /\ Head(down[u]) = down[u][1]
  BY <1>1, EmptySeq, LenProperties
<1>4. Len(down[u]) = 1 => down'[u] = <<>>
  BY <1>1, TailFields
<1>5. ASSUME NEW i \in 1 .. Len(down'[u])
      PROVE  /\ down'[u][i].command # "RC_QUERYREPLY"
             /\ i = Len(down'[u]) /\ down'[u][i].slotNumber = rd.uniqCounter
             /\ rd.rs = "PENDING"
  <2>1. /\ i + 1 \in 1 .. Len(down[u]) /\ i + 1 # 1 /\ down'[u][i] = down[u][i + 1]
    BY <1>2, <1>3
  <2>2. /\ down[u][i + 1].command # "RC_QUERYREPLY" /\ i + 1 = Len(down[u])
        /\ down[u][i + 1].slotNumber = rd.uniqCounter /\ rd.rs = "PENDING"
    BY <2>1 DEF Orderly
  <2> QED
    BY <1>2, <1>3, <2>1, <2>2
<1>6. 1 \in 1 .. Len(down[u])
  BY <1>3
<1> QED
  BY <1>3, <1>4, <1>5, <1>6 DEF Orderly, AckPending

\* A new slot begins with empty links.
LEMMA SlotBegins ==
  ASSUME NEW s \in ReaderRecords, Emit(s), s.counter = 0,
         \A t \in Tags : down[t] = <<>> /\ up[t] = <<>>,
         s.bcast = NoHeader \/ (Calls(s) /\ s.bcast.command # "RC_QUERYREPLY"),
         s.uni = NoHeader \/ (s.uni.command = "RC_QUERYREPLY" /\ s.uni.service = "EDFSA"),
         answered' = {}, UNCHANGED up
  PROVE  /\ rd'.counter <= Cardinality(answered')
         /\ rd'.rs = "IDLE" => rd'.counter = 0
         /\ \A t \in Tags : Exact(t)'
<1>1. rd'.counter = 0
  BY EmitReader
<1>2. ASSUME NEW t \in Tags PROVE Exact(t)'
  <2>1. Orderly(t)'
    BY EmitOnEmpty
  <2> QED
    BY <2>1 DEF Exact
<1> QED
  BY <1>1, <1>2, FS_EmptySet

LEMMA InitExact ==
  ASSUME Service = "EDFSA", Init
  PROVE  ExactInv
<1>1. Untouched
  BY DEF Untouched, Init, ReaderInits, TagInit, Acknowledged
<1>2. rd.counter <= Cardinality(answered)
  BY <1>1, FS_EmptySet DEF Untouched, Init
<1>3. ASSUME NEW t \in Tags PROVE Exact(t)
  <2>1. down[t] = <<>> /\ up[t] = <<>> /\ answered = {}
    BY DEF Init
  <2> QED
    BY <2>1 DEF Exact, Orderly
<1> QED
  BY <1>1, <1>2, <1>3 DEF ExactInv, Untouched

LEMMA CommandExact ==
  ASSUME DfsaInv, ExactInv, CommandEdfsa
  PROVE  ExactInv'
<1> DEFINE s == EdfsaQuery(rd)
<1>1. rd \in ReaderRecords /\ DfsaReader(rd) /\ sessions \in Nat
  BY BoundsAssumption DEF DfsaInv, TypeOK, ReaderInv
<1>2. /\ Emit(s) /\ sessions' = sessions + 1 /\ MayCommand
      /\ answered' = {} /\ UNCHANGED <<up, late>>
  BY DEF CommandEdfsa, Command
<1>3. /\ s \in ReaderRecords /\ Opens(s) /\ s.uni = NoHeader
      /\ s.counter = rd.counter
  BY <1>1, EdfsaQueryFields
<1> HIDE DEF s
<1>4. ASSUME late' = 0, Uncut'
      PROVE  rd.counter = 0 /\ \A t \in Tags : down[t] = <<>> /\ up[t] = <<>>
  <2>1. CASE sessions = 0
    BY <2>1 DEF ExactInv, Untouched
  <2>2. CASE sessions # 0
    <3>1. ~Overlap
      BY <1>1, <1>2, <1>4, <2>2 DEF Uncut
    <3>2. rd.rs # "PENDING" /\ InFlight = {}
      BY <1>2, <3>1 DEF MayCommand, Running
    <3>3. rd.rs = "IDLE"
      BY <1>1, <3>2 DEF ReaderRecords, Timers
    <3>4. rd.counter = 0
      BY <1>2, <1>4, <3>1, <3>3 DEF ExactInv, Uncut
    <3> QED
      BY <3>2, <3>4 DEF InFlight
  <2> QED
    BY <2>1, <2>2
<1>5. Calls(s) /\ s.bcast.command # "RC_QUERYREPLY"
  BY <1>3 DEF Opens
<1>6. sessions' # 0
  BY <1>1, <1>2
<1>7. ASSUME late' = 0, Uncut'
      PROVE  /\ rd'.counter <= Cardinality(answered')
             /\ rd'.rs = "IDLE" => rd'.counter = 0
             /\ \A t \in Tags : Exact(t)'
  <2>1. s.counter = 0 /\ \A t \in Tags : down[t] = <<>> /\ up[t] = <<>>
    BY <1>3, <1>4, <1>7
  <2> QED
    BY <1>2, <1>3, <1>5, <2>1, SlotBegins
<1> QED
  BY <1>6, <1>7 DEF ExactInv

LEMMA RsTimeoutExact ==
  ASSUME DfsaInv, ExactInv, RsTimeout
  PROVE  ExactInv'
<1>1. /\ rd \in ReaderRecords /\ DfsaReader(rd) /\ ReaderInv
      /\ sessions \in Nat /\ late \in Nat /\ rd.rs = "PENDING"
  BY BoundsAssumption DEF DfsaInv, TypeOK, ReaderInv, RsTimeout
<1>2. sessions # 0 /\ rd.operation = 2
  BY <1>1 DEF ReaderInv
<1>3. /\ late' = IF InFlight # {} THEN late + 1 ELSE late
      /\ answered' = {} /\ UNCHANGED <<up, sessions>>
  BY DEF RsTimeout, Timeout
<1> DEFINE fired == [rd EXCEPT !.rs = "IDLE"]
<1>4. PICK s \in StartEdfsa(fired) : Emit(s)
  BY <1>2 DEF RsTimeout, Timeout, Expire
<1>5. fired \in ReaderRecords /\ DfsaReader(fired) /\ fired.rs = "IDLE"
  <2>1. "IDLE" \in Timers
    BY DEF Timers
  <2> QED
    BY <1>1, <2>1, UpdateLinkType DEF DfsaReader, ReaderRecords
<1> HIDE DEF fired
<1>6. s \in ReaderRecords /\ Follows(fired, s)
  BY <1>5, DfsaSlot, StartEdfsaType
<1>7. /\ s.counter = 0
      /\ s.bcast = NoHeader \/ (Calls(s) /\ s.bcast.command # "RC_QUERYREPLY")
      /\ s.uni = NoHeader \/ (s.uni.command = "RC_QUERYREPLY" /\ s.uni.service = "EDFSA")
  BY <1>6 DEF Follows, Acks, PollsNext, Opens, Ends
<1>8. ASSUME late' = 0
      PROVE  \A t \in Tags : down[t] = <<>> /\ up[t] = <<>>
  <2>1. InFlight = {}
    BY <1>1, <1>3, <1>8
  <2> QED
    BY <2>1 DEF InFlight
<1>9. ASSUME late' = 0
      PROVE  /\ rd'.counter <= Cardinality(answered')
             /\ rd'.rs = "IDLE" => rd'.counter = 0
             /\ \A t \in Tags : Exact(t)'
  BY <1>3, <1>4, <1>6, <1>7, <1>8, <1>9, SlotBegins
<1> QED
  BY <1>2, <1>3, <1>9 DEF ExactInv

\* A step that changes nothing that matters to tag t
LEMMA KeepsExact ==
  ASSUME NEW t \in Tags,
         tag'[t] = tag[t], down'[t] = down[t], up'[t] = up[t],
         t \in answered' <=> t \in answered,
         rd'.rs = rd.rs, rd'.uniqCounter = rd.uniqCounter
  PROVE  Exact(t) => Exact(t)'
BY DEF Exact, Orderly, InSlot

LEMMA TagReceivesExact ==
  ASSUME DfsaInv, ExactInv, NEW u \in Tags, TagReceives(u)
  PROVE  ExactInv'
<1> DEFINE h == Head(down[u])
<1>1. /\ TypeOK /\ LinkInv /\ down[u] # <<>> /\ down[u] \in Seq(ToTag(u))
      /\ down' = [down EXCEPT ![u] = Tail(@)]
      /\ UNCHANGED <<rd, sessions, lost, late, answered>>
  BY DEF DfsaInv, LinkInv, TagReceives, TypeOK
<1>2. PICK o \in TagRecv(u, tag[u], h) :
        /\ tag' = [tag EXCEPT ![u] = o.tag]
        /\ up' = IF o.reply = "NONE" THEN up
                 ELSE [up EXCEPT ![u] = Append(@,
                         [command |-> o.reply, service |-> h.service])]
  BY DEF TagReceives
<1>3. h \in ToTag(u) /\ tag[u] \in TagRecords
  BY <1>1, TailFields DEF TypeOK
<1>4. tag \in [Tags -> TagRecords] /\ up \in [Tags -> Seq(Replies)] /\ down \in [Tags -> Seq(Headers)]
  BY <1>1 DEF TypeOK
<1>5. /\ tag'[u] = o.tag /\ down'[u] = Tail(down[u])
      /\ o.reply = "NONE" => up' = up
      /\ o.reply # "NONE" =>
           up'[u] = Append(up[u], [command |-> o.reply, service |-> h.service])
      /\ \A t \in Tags : t # u => tag'[t] = tag[t] /\ down'[t] = down[t] /\ up'[t] = up[t]
  BY <1>1, <1>2, <1>4
<1>6. /\ h.command = "RC_QUERYREPLY" => o.reply = "NONE"
      /\ h.command # "RC_QUERYREPLY" => (Acknowledged(o.tag) <=> Acknowledged(tag[u]))
      /\ o.reply # "NONE" => ~Acknowledged(tag[u]) /\ o.tag.slot = h.slotNumber
  <2> HIDE DEF h
  <2> QED
    BY <1>2, <1>3, TagAnswers
<1> HIDE DEF h
<1>7. sessions # 0
  BY <1>1 DEF ExactInv, Untouched
<1>8. ASSUME late = 0, Uncut
      PROVE  \A t \in Tags : Exact(t)'
  <2>1. \A t \in Tags : Exact(t)
    BY <1>8 DEF ExactInv
  <2>2. ASSUME NEW t \in Tags, t # u PROVE Exact(t)'
    BY <1>1, <1>5, <2>1, <2>2, KeepsExact
  <2>3. up[u] = <<>> /\ u \notin answered /\ Orderly(u)
    BY <1>1, <2>1 DEF Exact
  <2>4. /\ Orderly(u)'
        /\ h.command # "RC_QUERYREPLY" =>
             /\ down'[u] = <<>> /\ rd.rs = "PENDING"
             /\ h.slotNumber = rd.uniqCounter
    BY <1>1, <1>5, <2>3, OrderlyTail DEF h
  <2>5. CASE o.reply = "NONE"
    <3>1. up'[u] = <<>> /\ u \notin answered'
      BY <1>1, <1>5, <2>3, <2>5
    <3> QED
      BY <2>2, <2>4, <3>1 DEF Exact
  <2>6. CASE o.reply # "NONE"
    <3>1. down'[u] = <<>> /\ rd'.rs = "PENDING" /\ u \notin answered'
      BY <1>1, <1>6, <2>3, <2>4, <2>6
    <3>2. Len(up'[u]) = 1
      <4> DEFINE a == [command |-> o.reply, service |-> h.service]
      <4>1. up'[u] = Append(<<>>, a)
        BY <1>5, <2>3, <2>6
      <4> HIDE DEF a
      <4> QED
        BY <4>1, AppendOnEmpty
    <3>3. u \in InSlot'
      BY <1>1, <1>5, <1>6, <2>4, <2>6 DEF InSlot
    <3>4. Exact(u)'
      BY <2>4, <3>1, <3>2, <3>3 DEF Exact
    <3> QED
      BY <2>2, <3>4
  <2> QED
    BY <2>5, <2>6
<1>9. Uncut' <=> Uncut
  BY <1>1 DEF Uncut
<1> QED
  BY <1>1, <1>7, <1>8, <1>9 DEF ExactInv

LEMMA ReaderReceivesExact ==
  ASSUME DfsaInv, ExactInv, NEW u \in Tags, ReaderReceives(u)
  PROVE  ExactInv'
<1>1. /\ TypeOK /\ LinkInv /\ CountInv /\ up[u] # <<>> /\ up[u] \in Seq(FromTag)
      /\ rd \in ReaderRecords
      /\ UNCHANGED <<tag, down, sessions, late>>
  BY DEF DfsaInv, TypeOK, LinkInv, ReaderReceives
<1>2. Head(up[u]).service = "EDFSA" /\ Head(up[u]).command = "TC_REPLY"
      /\ (Len(up[u]) = 1 => Tail(up[u]) = <<>>)
  BY <1>1, TailFields DEF FromTag
<1>3. /\ rd' = [rd EXCEPT !.tagEPC = u, !.counter = @ + 1]
      /\ answered' = answered \cup {u}
      /\ up' = [up EXCEPT ![u] = Tail(@)]
  BY <1>2 DEF ReaderReceives, Recv, Counted
<1>4. /\ rd'.counter = rd.counter + 1 /\ rd'.rs = rd.rs
      /\ rd'.uniqCounter = rd.uniqCounter /\ rd.counter \in Nat
  BY <1>1, <1>3, FieldType DEF ReaderRecords
<1>5. sessions # 0
  BY <1>1 DEF ExactInv, Untouched
<1>6. ASSUME late = 0, Uncut
      PROVE  /\ rd'.counter <= Cardinality(answered')
             /\ rd'.rs = "IDLE" => rd'.counter = 0
             /\ \A t \in Tags : Exact(t)'
  <2>1. rd.counter <= Cardinality(answered) /\ \A t \in Tags : Exact(t)
    BY <1>6 DEF ExactInv
  <2>2. /\ Len(up[u]) = 1 /\ u \notin answered /\ rd.rs = "PENDING" /\ u \in InSlot
        /\ down[u] = <<>> /\ Orderly(u)
    BY <1>1, <2>1 DEF Exact
  <2>3. /\ Cardinality(answered) \in Nat
        /\ Cardinality(answered') = Cardinality(answered) + 1
    BY <1>1, <1>3, <2>2, FS_AddElement, FS_CardinalityType DEF CountInv
  <2>4. ASSUME NEW t \in Tags, t # u PROVE Exact(t)'
    <3>1. /\ tag'[t] = tag[t] /\ down'[t] = down[t] /\ up'[t] = up[t]
          /\ t \in answered' <=> t \in answered
      BY <1>1, <1>3, <2>4 DEF TypeOK
    <3> QED
      BY <1>4, <2>1, <3>1, KeepsExact
  <2>5. Exact(u)'
    <3>1. up'[u] = <<>> /\ down'[u] = <<>>
      BY <1>1, <1>2, <1>3, <2>2 DEF TypeOK
    <3>2. Orderly(u)' /\ u \in InSlot'
      BY <1>1, <1>4, <2>2 DEF Orderly, InSlot
    <3> QED
      BY <3>1, <3>2 DEF Exact
  <2> QED
    BY <1>4, <2>1, <2>2, <2>3, <2>4, <2>5
<1>7. Uncut' <=> Uncut
  BY <1>1 DEF Uncut
<1> QED
  BY <1>1, <1>5, <1>6, <1>7 DEF ExactInv

LEMMA LoseExact ==
  ASSUME DfsaInv, ExactInv, NEW u \in Tags, LoseDown(u) \/ LoseUp(u)
  PROVE  ExactInv'
<1>1. /\ TypeOK /\ LinkInv /\ UNCHANGED <<rd, tag, sessions, late, answered>>
      /\ (down[u] # <<>> \/ up[u] # <<>>)
  BY DEF DfsaInv, LoseDown, LoseUp
<1>2. sessions # 0
  BY <1>1 DEF ExactInv, Untouched
<1>3. ASSUME late = 0, Uncut
      PROVE  \A t \in Tags : Exact(t)'
  <2>1. \A t \in Tags : Exact(t)
    BY <1>3 DEF ExactInv
  <2>2. CASE LoseDown(u)
    <3>1. /\ down[u] # <<>> /\ up' = up /\ down'[u] = Tail(down[u])
          /\ \A t \in Tags : t # u => down'[t] = down[t]
      BY <1>1, <2>2 DEF LoseDown, TypeOK
    <3>2. ASSUME NEW t \in Tags, t # u PROVE Exact(t)'
      BY <1>1, <2>1, <3>1, <3>2, KeepsExact
    <3>3. up[u] = <<>> /\ u \notin answered /\ Orderly(u)
      BY <2>1, <3>1 DEF Exact
    <3>4. Orderly(u)'
      BY <1>1, <3>1, <3>3, OrderlyTail
    <3>5. Exact(u)'
      BY <1>1, <3>1, <3>3, <3>4 DEF Exact
    <3> QED
      BY <3>2, <3>5
  <2>3. CASE LoseUp(u)
    <3>1. /\ up[u] # <<>> /\ down' = down /\ up'[u] = Tail(up[u])
          /\ \A t \in Tags : t # u => up'[t] = up[t]
      BY <1>1, <2>3 DEF LoseUp, TypeOK
    <3>2. ASSUME NEW t \in Tags, t # u PROVE Exact(t)'
      BY <1>1, <2>1, <3>1, <3>2, KeepsExact
    <3>3. Len(up[u]) = 1 /\ u \notin answered /\ down[u] = <<>> /\ Orderly(u)
      BY <2>1, <3>1 DEF Exact
    <3>4. up'[u] = <<>>
      BY <1>1, <3>1, <3>3, TailFields DEF LinkInv
    <3>5. Exact(u)'
      BY <1>1, <3>1, <3>3, <3>4 DEF Exact, Orderly
    <3> QED
      BY <3>2, <3>5
  <2> QED
    BY <2>2, <2>3
<1>4. Uncut' <=> Uncut
  BY <1>1 DEF Uncut
<1> QED
  BY <1>1, <1>2, <1>3, <1>4 DEF ExactInv

LEMMA StepExact ==
  ASSUME Service = "EDFSA", DfsaInv, ExactInv, [Next]_vars
  PROVE  ExactInv'
<1>1. CASE CommandStandard \/ CommandEstimation \/ CommandEstimationDfsa
  BY <1>1 DEF CommandStandard, CommandEstimation, CommandEstimationDfsa
<1>2. CASE ColTimeout
  BY <1>2 DEF ColTimeout, DfsaInv, ReaderInv, DfsaReader
<1>3. CASE CommandEdfsa \/ RsTimeout
  BY <1>3, CommandExact, RsTimeoutExact
<1>4. ASSUME NEW t \in Tags,
             TagReceives(t) \/ ReaderReceives(t) \/ LoseDown(t) \/ LoseUp(t)
      PROVE  ExactInv'
  BY <1>4, TagReceivesExact, ReaderReceivesExact, LoseExact
<1>5. CASE UNCHANGED vars
  <2>1. UNCHANGED <<rd, tag, down, up, sessions, late, answered>>
    BY <1>5 DEF vars
  <2>2. ASSUME NEW t \in Tags PROVE Exact(t) => Exact(t)'
    BY <2>1, KeepsExact
  <2> QED
    BY <2>1, <2>2 DEF ExactInv, Untouched, Uncut
<1> QED
  BY <1>1, <1>2, <1>3, <1>4, <1>5 DEF Next

LEMMA ExactInvariant ==
  ASSUME Service = "EDFSA"
  PROVE  Spec => [](DfsaInv /\ ExactInv)
<1>1. Init => DfsaInv /\ ExactInv
  BY InitDfsa, InitExact
<1>2. DfsaInv /\ ExactInv /\ [Next]_vars => (DfsaInv /\ ExactInv)'
  BY StepDfsa, StepExact
<1> QED
  BY <1>1, <1>2, PTL DEF Spec

\* At the end of a DFSA slot counter_ is at least the number of the slot's tags
\* that had no packet lost or late, whatever happened to the others or was left
\* over, so that start_edfsa() never takes two of them for a success and
\* acknowledges the one there is; and while no packet was late and no session
\* cut short, counter_ is at most the number of the slot's tags and a success
\* is of one of them.
THEOREM DfsaCountsSlots ==
  ASSUME Service = "EDFSA"
  PROVE  Spec => []CountTellsSlot
<1>1. DfsaInv /\ ExactInv => CountTellsSlot
  <2> SUFFICES ASSUME DfsaInv, ExactInv, SlotOver
               PROVE  /\ Cardinality(InSlot \ disturbed) <= rd.counter
                      /\ rd.counter = 1 => InSlot \ disturbed \subseteq {rd.tagEPC}
                      /\ late = 0 /\ Uncut =>
                           /\ rd.counter <= Cardinality(InSlot)
                           /\ rd.counter = 1 => rd.tagEPC \in InSlot
    BY DEF CountTellsSlot
  <2>1. /\ TypeOK /\ CountInv /\ CoverInv /\ rd.rs = "PENDING"
        /\ \A t \in Tags : down[t] = <<>> /\ up[t] = <<>>
    BY DEF DfsaInv, SlotOver, InFlight
  <2>2. /\ rd.counter \in Nat /\ IsFiniteSet(answered) /\ Cardinality(answered) \in Nat
        /\ Cardinality(answered) <= rd.counter /\ answered \subseteq Tags
    BY <2>1, FieldType, FS_CardinalityType DEF CountInv, TypeOK
  <2>3. InSlot \ disturbed \subseteq answered
    <3> SUFFICES ASSUME NEW t \in InSlot, t \notin disturbed
                 PROVE  t \in answered
      OBVIOUS
    <3>1. t \in Tags \ disturbed /\ tag[t].slot = rd.uniqCounter /\ ~Acknowledged(tag[t])
      BY DEF InSlot
    <3>2. Covered(t) /\ down[t] = <<>> /\ up[t] = <<>>
      BY <2>1, <3>1 DEF CoverInv
    <3>3. ~Read(t)
      BY <3>1, <3>2 DEF Read, AckPending
    <3>4. ~WillDraw(t)
      BY <3>2 DEF WillDraw
    <3> QED
      BY <3>1, <3>2, <3>3, <3>4 DEF Covered, Hears
  <2>4. /\ Cardinality(InSlot \ disturbed) \in Nat
        /\ Cardinality(InSlot \ disturbed) <= Cardinality(answered)
    <3>1. InSlot \ disturbed \in SUBSET answered
      BY <2>3
    <3> QED
      BY <2>2, <3>1, FS_Subset, FS_CardinalityType
  <2>5. ASSUME late = 0, Uncut
        PROVE  /\ rd.counter <= Cardinality(InSlot)
               /\ rd.counter = 1 => rd.tagEPC \in InSlot
    <3>1. rd.counter <= Cardinality(answered) /\ \A t \in Tags : Exact(t)
      BY <2>5 DEF ExactInv
    <3>2. answered \in SUBSET InSlot
      BY <2>2, <3>1 DEF Exact
    <3>3. IsFiniteSet(InSlot)
      <4>1. InSlot \in SUBSET Tags
        BY DEF InSlot
      <4> QED
        BY <4>1, TagsAssumption, FS_Subset
    <3>4. Cardinality(InSlot) \in Nat /\ Cardinality(answered) <= Cardinality(InSlot)
      BY <3>2, <3>3, FS_Subset, FS_CardinalityType
    <3>5. rd.counter = 1 => answered # {}
      BY <2>2, <3>1, FS_EmptySet
    <3> QED
      BY <2>1, <2>2, <3>1, <3>2, <3>4, <3>5 DEF CountInv
  <2> QED
    BY <2>1, <2>2, <2>3, <2>4, <2>5 DEF CountInv
<1> QED
  BY <1>1, ExactInvariant, PTL

-------------------------------------------------------------------------------
(***************************************************************************)
(* success_ counts the tags read.  While no packet is lost or late, a tag  *)
(* whose answer is under way or has come is not acknowledged (Exact), and  *)
(* is new to success_ when it will be.                                     *)
(***************************************************************************)
ReadTags == {t \in Tags : Read(t)}

SuccessInv ==
  lost = 0 /\ late = 0 /\ sessions = 1 =>
    IsFiniteSet(ReadTags) /\ rd.success = Cardinality(ReadTags)

\* start_edfsa() counts a success exactly for a slot with one answer.
LEMMA SuccessField ==
  ASSUME NEW r \in ReaderRecords, NEW s \in StartEdfsa(r)
  PROVE  s.success = IF r.counter = 1 THEN r.success + 1 ELSE r.success
<1> DEFINE n == [r EXCEPT !.uniqCounter = @ + 1]
           c == CountSlot(n)
<1>1. n \in ReaderRecords /\ n.counter = r.counter /\ n.success = r.success
  BY IncrementType, UpdateIntType DEF ReaderRecords
<1>2. r.counter \in Nat
  BY FieldType
<1>3. c \in ReaderRecords
  BY <1>1, CountSlotType
<1> HIDE DEF n
<1>4. c.success = IF r.counter = 1 THEN r.success + 1 ELSE r.success
  BY <1>1, <1>2 DEF CountSlot, SendQueryReply, ReaderRecords
<1>5. \/ s = Resched(Query([c EXCEPT !.counter = 0], "RC_SING", c.uniqCounter, 0))
      \/ s \in CalculateNextQ([c EXCEPT !.collisions = 0, !.counter = 0, !.uniqCounter = 1],
                              c.collisions, 0)
  BY DEF StartEdfsa, n
<1> HIDE DEF c
<1>6. s.success = c.success
  BY <1>3, <1>5 DEF Resched, Query, CalculateNextQ, ReaderRecords
<1> QED
  BY <1>4, <1>6

LEMMA InitSuccess ==
  ASSUME Init
  PROVE  SuccessInv
BY DEF SuccessInv, Init

LEMMA CommandSuccess ==
  ASSUME DfsaInv, ExactInv, SuccessInv, CommandEdfsa
  PROVE  SuccessInv'
<1> DEFINE s == EdfsaQuery(rd)
<1>1. rd \in ReaderRecords /\ DfsaReader(rd) /\ sessions \in Nat
  BY BoundsAssumption DEF DfsaInv, TypeOK, ReaderInv
<1>2. /\ Emit(s) /\ sessions' = sessions + 1
      /\ UNCHANGED tag
  BY DEF CommandEdfsa, Command
<1>3. s \in ReaderRecords /\ Opens(s) /\ s.uni = NoHeader
  BY <1>1, EdfsaQueryFields
<1>4. s.success = 0
  BY <1>1 DEF EdfsaQuery, Restart, Resched, Query, ReaderRecords
<1> HIDE DEF s
<1>5. sessions' # 0 /\ (sessions' = 1 => sessions = 0)
  BY <1>1, <1>2
<1>6. ASSUME sessions = 0
      PROVE  IsFiniteSet(ReadTags') /\ rd'.success = Cardinality(ReadTags')
  <2>1. Untouched
    BY <1>6 DEF ExactInv
  <2>2. ASSUME NEW t \in Tags PROVE ~AckPending(t)'
    <3>1. down[t] = <<>> /\ Calls(s) /\ s.bcast.command # "RC_QUERYREPLY"
      BY <1>3, <2>1 DEF Untouched, Opens
    <3> QED
      BY <1>2, <1>3, <3>1, EmitOnEmpty
  <2>3. \A t \in Tags : ~Read(t)'
    BY <1>2, <2>1, <2>2 DEF Read, Untouched
  <2>4. ReadTags' = {}
    BY <2>3 DEF ReadTags
  <2>5. rd'.success = 0
    BY <1>2, <1>3, <1>4 DEF Emit, ReaderRecords
  <2> QED
    BY <2>4, <2>5, FS_EmptySet
<1> QED
  BY <1>5, <1>6 DEF SuccessInv

LEMMA RsTimeoutSuccess ==
  ASSUME DfsaInv, ExactInv, SuccessInv, RsTimeout
  PROVE  SuccessInv'
<1>1. /\ rd \in ReaderRecords /\ DfsaReader(rd) /\ ReaderInv /\ LinkInv /\ CountInv
      /\ sessions \in Nat /\ late \in Nat /\ rd.rs = "PENDING" /\ answered \subseteq Tags
  BY BoundsAssumption DEF DfsaInv, TypeOK, ReaderInv, RsTimeout
<1>2. sessions > 0 /\ rd.operation = 2
  BY <1>1 DEF ReaderInv
<1>3. /\ late' = IF InFlight # {} THEN late + 1 ELSE late
      /\ answered' = {} /\ UNCHANGED <<tag, up, sessions, lost>>
  BY DEF RsTimeout, Timeout
<1> DEFINE fired == [rd EXCEPT !.rs = "IDLE"]
<1>4. PICK s \in StartEdfsa(fired) : Emit(s)
  BY <1>2 DEF RsTimeout, Timeout, Expire
<1>5. /\ fired \in ReaderRecords /\ DfsaReader(fired) /\ fired.rs = "IDLE"
      /\ fired.counter = rd.counter /\ fired.success = rd.success
      /\ fired.tagEPC = rd.tagEPC
  <2>1. "IDLE" \in Timers
    BY DEF Timers
  <2> QED
    BY <1>1, <2>1, UpdateLinkType DEF DfsaReader, ReaderRecords
<1> HIDE DEF fired
<1>6. Follows(fired, s)
  BY <1>5, DfsaSlot
<1>7. s.success = IF rd.counter = 1 THEN rd.success + 1 ELSE rd.success
  BY <1>5, SuccessField
<1>8. s \in ReaderRecords
  BY <1>5, StartEdfsaType
<1>9. rd'.success = s.success
  BY <1>4, <1>8 DEF Emit, ReaderRecords
<1>10. /\ s.bcast = NoHeader \/ (Calls(s) /\ s.bcast.command # "RC_QUERYREPLY")
       /\ IF rd.counter = 1
          THEN s.uni.command = "RC_QUERYREPLY" /\ s.uni.service = "EDFSA" /\ s.uni.tagEPC = rd.tagEPC
          ELSE s.uni = NoHeader
  BY <1>5, <1>6 DEF Follows, Acks, PollsNext, Opens, Ends, NoHeader
<1>11. ASSUME lost = 0, late' = 0, sessions = 1
       PROVE  IsFiniteSet(ReadTags') /\ rd'.success = Cardinality(ReadTags')
  <2>1. InFlight = {} /\ late = 0
    BY <1>1, <1>3, <1>11
  <2>2. \A t \in Tags : down[t] = <<>> /\ up[t] = <<>>
    BY <2>1 DEF InFlight
  <2>3. IsFiniteSet(ReadTags) /\ rd.success = Cardinality(ReadTags)
    BY <1>11, <2>1 DEF SuccessInv
  <2>4. ASSUME NEW t \in Tags
        PROVE  AckPending(t)' <=> (s.uni # NoHeader /\ s.uni.tagEPC = t)
    BY <1>4, <1>8, <1>10, <2>2, EmitOnEmpty
  <2>5. rd.counter <= Cardinality(answered) /\ \A t \in Tags : Exact(t)
    BY <1>11, <2>1 DEF ExactInv, Uncut
  <2>6. ASSUME NEW t \in Tags PROVE ~AckPending(t)
    BY <2>2 DEF AckPending
  <2>7. CASE rd.counter = 1
    <3> DEFINE u == rd.tagEPC
    <3>1. u \in answered /\ u \in Tags
      <4>1. answered # {}
        BY <2>5, <2>7, FS_EmptySet
      <4> QED
        BY <1>1, <2>7, <4>1 DEF CountInv
    <3>2. u \notin ReadTags
      BY <2>5, <2>6, <3>1 DEF Exact, InSlot, Read, ReadTags
    <3>3. s.uni # NoHeader /\ s.uni.tagEPC = u
      BY <1>10, <2>7 DEF NoHeader
    <3>4. ASSUME NEW t \in Tags PROVE Read(t)' <=> Read(t) \/ t = u
      BY <1>3, <2>4, <2>6, <3>3 DEF Read
    <3>5. ReadTags' = ReadTags \cup {u}
      BY <3>1, <3>4 DEF ReadTags
    <3>6. /\ IsFiniteSet(ReadTags \cup {u})
          /\ Cardinality(ReadTags \cup {u}) = Cardinality(ReadTags) + 1
      BY <2>3, <3>2, FS_AddElement
    <3> QED
      BY <1>7, <1>9, <2>3, <2>7, <3>5, <3>6
  <2>8. CASE rd.counter # 1
    <3>1. ASSUME NEW t \in Tags PROVE Read(t)' <=> Read(t)
      BY <1>3, <1>10, <2>4, <2>6, <2>8 DEF Read
    <3>2. ReadTags' = ReadTags
      BY <3>1 DEF ReadTags
    <3> QED
      BY <1>7, <1>9, <2>3, <2>8, <3>2
  <2> QED
    BY <2>7, <2>8
<1> QED
  BY <1>1, <1>2, <1>3, <1>11 DEF SuccessInv

LEMMA TagReceivesSuccess ==
  ASSUME DfsaInv, ExactInv, SuccessInv, NEW u \in Tags, TagReceives(u)
  PROVE  SuccessInv'
<1> DEFINE h == Head(down[u])
<1>1. /\ TypeOK /\ LinkInv /\ down[u] # <<>> /\ down[u] \in Seq(ToTag(u))
      /\ down' = [down EXCEPT ![u] = Tail(@)]
      /\ UNCHANGED <<rd, sessions, lost, late, answered>>
      /\ sessions \in Nat
  BY BoundsAssumption DEF DfsaInv, LinkInv, TagReceives, TypeOK
<1>2. PICK o \in TagRecv(u, tag[u], h) :
        /\ tag' = [tag EXCEPT ![u] = o.tag]
        /\ up' = IF o.reply = "NONE" THEN up
                 ELSE [up EXCEPT ![u] = Append(@,
                         [command |-> o.reply, service |-> h.service])]
  BY DEF TagReceives
<1>3. h \in ToTag(u) /\ h = down[u][1]
  BY <1>1, TailFields
<1>4. Len(down[u]) \in Nat \ {0}
  BY <1>1, EmptySeq, LenProperties
<1>5. /\ h.command # "RC_QUERYREPLY" => (Acknowledged(o.tag) <=> Acknowledged(tag[u]))
      /\ h.command = "RC_QUERYREPLY" => Acknowledged(o.tag)
      /\ Acknowledged(tag[u]) => Acknowledged(o.tag)
  <2>1. tag[u] \in TagRecords
    BY <1>1 DEF TypeOK
  <2> HIDE DEF h
  <2> QED
    BY <1>2, <1>3, <2>1, TagAnswers, DfsaTag
<1>6. tag \in [Tags -> TagRecords] /\ up \in [Tags -> Seq(Replies)] /\ down \in [Tags -> Seq(Headers)]
  BY <1>1 DEF TypeOK
<1>7. /\ tag'[u] = o.tag /\ down'[u] = Tail(down[u])
      /\ \A t \in Tags : t # u => tag'[t] = tag[t] /\ down'[t] = down[t]
  BY <1>1, <1>2, <1>6
<1> HIDE DEF h
<1>8. ASSUME lost = 0, late = 0, sessions = 1
      PROVE  IsFiniteSet(ReadTags') /\ rd'.success = Cardinality(ReadTags')
  <2>1. IsFiniteSet(ReadTags) /\ rd.success = Cardinality(ReadTags)
    BY <1>8 DEF SuccessInv
  <2>2. Exact(u)
    BY <1>8 DEF ExactInv, Uncut
  <2>3. ~AckPending(u)'
    BY <1>1, <1>7, <2>2, OrderlyTail DEF Exact
  <2>4. AckPending(u) <=> h.command = "RC_QUERYREPLY"
    <3>1. \A i \in 1 .. Len(down[u]) : i # 1 => down[u][i].command # "RC_QUERYREPLY"
      BY <2>2 DEF Exact, Orderly
    <3>2. 1 \in 1 .. Len(down[u])
      BY <1>4
    <3>3. h.service # "EBTSA" /\ (h.command = "RC_QUERYREPLY" => h.tagEPC = u)
      BY <1>3 DEF ToTag
    <3> QED
      BY <1>3, <3>1, <3>2, <3>3 DEF AckPending
  <2>5. Read(u)' <=> Read(u)
    BY <1>5, <1>7, <2>3, <2>4 DEF Read
  <2>6. ASSUME NEW t \in Tags, t # u
        PROVE  Read(t)' <=> Read(t)
    BY <1>7, <2>6 DEF Read, AckPending
  <2>7. ReadTags' = ReadTags
    BY <2>5, <2>6 DEF ReadTags
  <2> QED
    BY <1>1, <2>1, <2>7
<1> QED
  BY <1>1, <1>8 DEF SuccessInv

LEMMA ReaderReceivesSuccess ==
  ASSUME DfsaInv, SuccessInv, NEW u \in Tags, ReaderReceives(u)
  PROVE  SuccessInv'
<1>1. /\ rd \in ReaderRecords /\ rd' = Recv(rd, u, Head(up[u]))
      /\ UNCHANGED <<tag, down, sessions, lost, late>>
  BY DEF DfsaInv, TypeOK, ReaderReceives
<1>2. rd'.success = rd.success
  BY <1>1 DEF Recv, ReaderRecords
<1>3. ReadTags' = ReadTags
  BY <1>1 DEF ReadTags, Read, AckPending
<1> QED
  BY <1>1, <1>2, <1>3 DEF SuccessInv

LEMMA LoseSuccess ==
  ASSUME DfsaInv, NEW u \in Tags, LoseDown(u) \/ LoseUp(u)
  PROVE  SuccessInv'
<1>1. lost' = lost + 1 /\ lost \in Nat
  BY BoundsAssumption DEF DfsaInv, TypeOK, LoseDown, LoseUp
<1> QED
  BY <1>1 DEF SuccessInv

LEMMA StepSuccess ==
  ASSUME Service = "EDFSA", DfsaInv, ExactInv, SuccessInv, [Next]_vars
  PROVE  SuccessInv'
<1>1. CASE CommandStandard \/ CommandEstimation \/ CommandEstimationDfsa
  BY <1>1 DEF CommandStandard, CommandEstimation, CommandEstimationDfsa
<1>2. CASE ColTimeout
  BY <1>2 DEF ColTimeout, DfsaInv, ReaderInv, DfsaReader
<1>3. CASE CommandEdfsa \/ RsTimeout
  BY <1>3, CommandSuccess, RsTimeoutSuccess
<1>4. ASSUME NEW t \in Tags,
             TagReceives(t) \/ ReaderReceives(t) \/ LoseDown(t) \/ LoseUp(t)
      PROVE  SuccessInv'
  BY <1>4, TagReceivesSuccess, ReaderReceivesSuccess, LoseSuccess
<1>5. CASE UNCHANGED vars
  <2>1. UNCHANGED <<rd, tag, down, up, sessions, lost, late, answered>>
    BY <1>5 DEF vars
  <2>2. ReadTags' = ReadTags
    BY <2>1 DEF ReadTags, Read, AckPending
  <2> QED
    BY <2>1, <2>2 DEF SuccessInv
<1> QED
  BY <1>1, <1>2, <1>3, <1>4, <1>5 DEF Next

\* In a first DFSA inventory without losses and delays success_, which the
\* trace reports as the tags identified, is the number of tags that know or are
\* about to learn that they were read, for any number of tags and frames:
\* start_edfsa() counts none twice, and no collision as a success.
THEOREM DfsaCountsTags ==
  ASSUME Service = "EDFSA"
  PROVE  Spec => []SuccessCount
<1>1. Init => SuccessInv
  BY InitSuccess
<1>2. DfsaInv /\ ExactInv /\ SuccessInv /\ [Next]_vars => SuccessInv'
  BY StepSuccess
<1>3. SuccessInv => SuccessCount
  BY DEF SuccessInv, SuccessCount, ReadTags
<1> QED
  BY <1>1, <1>2, <1>3, ExactInvariant, PTL DEF Spec

-------------------------------------------------------------------------------
(***************************************************************************)
(* The Q algorithm of one reader.  The argument is that of several readers *)
(* (RfidReadersProofs), with losses: a tag that is neither read nor        *)
(* disturbed is covered until the reader, at Q = -1, finds a slot idle.    *)
(* Commands and expiries wait for the links to be empty, so that what is   *)
(* under way belongs to the slot: a query or an adjustment and the answers *)
(* to it, or an acknowledgement and the broadcast after it, with its       *)
(* confirmation and the answers to that broadcast.                         *)
(***************************************************************************)
QOpening ==
  {h \in Headers : QPacket(rd, h) /\ h.command \in {"RC_QUERY", "RC_QUERYADJUST"}}
QClosing == {h \in Headers : QPacket(rd, h) /\ h.command = "RC_QUERYREPLY"}

QAnswers == {a \in Replies : a.service = "STANDARD"}
QSlotAnswers == {a \in QAnswers : a.command # "TC_REPLY"}

QOpened ==
  /\ rd.qValue # -1 \/ rd.rs = "PENDING"
  /\ \A t \in Tags : down[t] \in Seq(QOpening) /\ up[t] \in Seq(QSlotAnswers)

QClosed == \A t \in Tags : down[t] \in Seq(QClosing) /\ up[t] \in Seq(QAnswers)

\* The answer of tag t has reached the reader, alone or with others.
QHasCounted(t) == rd.counter >= 1 /\ (rd.counter = 1 => rd.tagEPC = t)

QAwaits(t) ==
  /\ rd.rs = "PENDING" /\ QOpened
  /\ down[t] # <<>> \/ up[t] # <<>> \/ QHasCounted(t)

QCovers(t) == sessions = 0 \/ rd.qValue # -1 \/ QAwaits(t)

QCoverInv == \A t \in Tags \ disturbed : Read(t) \/ QCovers(t)

QInv == TypeOK /\ QReader(rd) /\ (QOpened \/ QClosed) /\ QCoverInv

\* The packets of one event on an empty link
LEMMA EventOnEmpty ==
  ASSUME NEW S, NEW a \in S, NEW b \in S
  PROVE  /\ <<>> \in Seq(S)
         /\ Append(<<>>, b) \in Seq(S) /\ Append(<<>>, b) # <<>>
         /\ Append(Append(<<>>, a), b) \in Seq(S)
<1>1. <<>> \in Seq(S)
  BY EmptySeq
<1>2. Append(<<>>, a) \in Seq(S)
  BY <1>1, AppendProperties
<1>3. Append(<<>>, b) \in Seq(S) /\ Append(<<>>, b) # <<>>
  BY <1>1, AppendProperties
<1>4. Append(Append(<<>>, a), b) \in Seq(S)
  BY <1>2, AppendProperties
<1> QED
  BY <1>1, <1>3, <1>4

\* What a reader that has nothing under way sends.
LEMMA QEmits ==
  ASSUME NEW f \in ReaderRecords, Emit(f), InFlight = {}
  PROVE  /\ rd'.rs = f.rs /\ rd'.qValue = f.qValue /\ rd'.counter = f.counter
         /\ rd'.success = f.success
         /\ \A h : QPacket(f, h) => QPacket(rd', h)
         /\ \A t \in Tags :
              /\ f.uni = NoHeader /\ f.bcast = NoHeader => down'[t] = <<>>
              /\ f.uni = NoHeader /\ f.bcast.command # "NONE" =>
                   down'[t] = Append(<<>>, f.bcast)
              /\ f.uni.command # "NONE" /\ f.bcast.command # "NONE" =>
                   down'[t] = IF f.uni.tagEPC = t
                              THEN Append(Append(<<>>, f.uni), f.bcast)
                              ELSE Append(<<>>, f.bcast)
<1> DEFINE g == [f EXCEPT !.uni = NoHeader, !.bcast = NoHeader]
<1>1. /\ g.rs = f.rs /\ g.qValue = f.qValue /\ g.counter = f.counter
      /\ g.success = f.success
  BY DEF ReaderRecords
<1>2. rd' = g /\ \A t \in Tags : down'[t] = Sent(f, t)
  BY DEF Emit
<1> HIDE DEF g
<1>3. NoHeader.command = "NONE"
  BY DEF NoHeader
<1>4. \A t \in Tags : down[t] = <<>>
  BY DEF InFlight
<1>5. ASSUME NEW t \in Tags
      PROVE  /\ f.uni = NoHeader /\ f.bcast = NoHeader => down'[t] = <<>>
             /\ f.uni = NoHeader /\ f.bcast.command # "NONE" =>
                  down'[t] = Append(<<>>, f.bcast)
             /\ f.uni.command # "NONE" /\ f.bcast.command # "NONE" =>
                  down'[t] = IF f.uni.tagEPC = t
                             THEN Append(Append(<<>>, f.uni), f.bcast)
                             ELSE Append(<<>>, f.bcast)
  BY <1>2, <1>3, <1>4 DEF Sent
<1> QED
  BY <1>1, <1>2, <1>5 DEF QPacket

\* The reader stays with the Q algorithm.
LEMMA QReaderEmit ==
  ASSUME NEW f \in ReaderRecords, Emit(f),
         f.service = "STANDARD", f.operation = 0, f.col = "IDLE"
  PROVE  QReader(rd')
BY DEF Emit, QReader, ReaderRecords

LEMMA QReceived ==
  ASSUME NEW r \in ReaderRecords, QReader(r), NEW t \in Tags, NEW a \in QAnswers
  PROVE  LET s == Recv(r, t, a)
         IN /\ QReader(s) /\ s.rs = r.rs /\ s.qValue = r.qValue
            /\ s.success = r.success /\ s.tagEPC = t
            /\ s.counter = IF a.command = "TC_REPLY" THEN 0 ELSE r.counter + 1
<1> DEFINE s == Recv(r, t, a)
<1>1. a.service = "STANDARD"
  BY DEF QAnswers
<1>2. CASE a.command # "TC_REPLY"
  <2>1. s = [r EXCEPT !.tagEPC = t, !.counter = @ + 1]
    BY <1>1, <1>2 DEF Recv, Counted
  <2> HIDE DEF s
  <2>2. /\ QReader(s) /\ s.rs = r.rs /\ s.qValue = r.qValue
        /\ s.success = r.success /\ s.tagEPC = t /\ s.counter = r.counter + 1
    BY <2>1 DEF QReader, ReaderRecords
  <2> QED
    BY <1>2, <2>2 DEF s
<1>3. CASE a.command = "TC_REPLY"
  <2>1. s = [r EXCEPT !.tagEPC = t, !.counter = 0]
    BY <1>1, <1>3 DEF Recv, Counted
  <2> HIDE DEF s
  <2>2. /\ QReader(s) /\ s.rs = r.rs /\ s.qValue = r.qValue
        /\ s.success = r.success /\ s.tagEPC = t /\ s.counter = 0
    BY <2>1 DEF QReader, ReaderRecords
  <2> QED
    BY <1>3, <2>2 DEF s
<1> QED
  BY <1>2, <1>3

LEMMA InitQ ==
  ASSUME Service = "STANDARD", Init
  PROVE  QInv
<1>1. TypeOK
  BY InitType
<1>2. QReader(rd)
  BY DEF Init, ReaderInits, QReader
<1>3. \A t \in Tags : down[t] = <<>> /\ up[t] = <<>>
  BY DEF Init
<1>4. QClosed
  BY <1>3, EmptySeq DEF QClosed
<1>5. QCoverInv
  BY DEF Init, QCoverInv, QCovers
<1> QED
  BY <1>1, <1>2, <1>4, <1>5 DEF QInv

\* A packet that opens a frame, sent to every tag
LEMMA QOpens ==
  ASSUME NEW f \in ReaderRecords, Emit(f), InFlight = {}, UNCHANGED up,
         f.uni = NoHeader, QPacket(f, f.bcast),
         f.bcast.command \in {"RC_QUERY", "RC_QUERYADJUST"},
         f.rs = "PENDING" \/ f.qValue # -1
  PROVE  QOpened' /\ \A t \in Tags : QCovers(t)'
<1>1. /\ rd'.rs = f.rs /\ rd'.qValue = f.qValue /\ QPacket(rd', f.bcast)
      /\ \A t \in Tags : down'[t] = Append(<<>>, f.bcast)
  BY QEmits
<1>2. f.bcast \in QOpening'
  BY <1>1 DEF QOpening, QPacket
<1>3. ASSUME NEW t \in Tags
      PROVE  /\ down'[t] \in Seq(QOpening') /\ down'[t] # <<>>
             /\ up'[t] \in Seq(QSlotAnswers')
  <2>1. up'[t] = <<>> /\ <<>> \in Seq(QSlotAnswers')
    BY EmptySeq DEF InFlight
  <2>2. /\ Append(<<>>, f.bcast) \in Seq(QOpening')
        /\ Append(<<>>, f.bcast) # <<>>
    BY <1>2, EventOnEmpty
  <2> QED
    BY <1>1, <2>1, <2>2
<1>4. QOpened'
  BY <1>1, <1>3 DEF QOpened
<1>5. \A t \in Tags : down'[t] # <<>>
  BY <1>3
<1> QED
  BY <1>1, <1>4, <1>5 DEF QCovers, QAwaits

LEMMA CommandQ ==
  ASSUME Overlap = FALSE, QInv, CommandStandard
  PROVE  QInv'
<1> DEFINE f == StandardQueryTags(rd)
<1>1. TypeOK /\ TypeOK' /\ rd \in ReaderRecords /\ QReader(rd)
  BY StepType DEF QInv, Next, TypeOK
<1>2. /\ f \in ReaderRecords
      /\ f.service = "STANDARD" /\ f.operation = 0 /\ f.col = "IDLE"
      /\ f.rs = "PENDING" /\ f.uni = NoHeader
      /\ QPacket(f, f.bcast) /\ f.bcast.command = "RC_QUERY"
  BY <1>1, StandardQueryFields
<1>3. Emit(f) /\ InFlight = {} /\ UNCHANGED up
  BY DEF CommandStandard, Command, MayCommand
<1> HIDE DEF f
<1>4. QOpened' /\ \A t \in Tags : QCovers(t)'
  BY <1>2, <1>3, QOpens
<1>5. QReader(rd')
  BY <1>2, <1>3, QReaderEmit
<1> QED
  BY <1>1, <1>4, <1>5 DEF QInv, QCoverInv

LEMMA RsTimeoutQ ==
  ASSUME MaxLate = 0, QInv, RsTimeout
  PROVE  QInv'
<1>1. TypeOK /\ TypeOK' /\ rd \in ReaderRecords /\ QReader(rd)
  BY StepType DEF QInv, Next, TypeOK
<1>2. InFlight = {}
  BY <1>1 DEF RsTimeout, Timeout, TypeOK
<1>3. PICK f \in Expire(rd) :
        /\ Emit(f)
        /\ disturbed' = IF OpensFrame(f) THEN {} ELSE disturbed \cup InFlight
  BY DEF RsTimeout, Timeout
<1>4. f \in ReaderRecords /\ SlotEnds(rd, f)
  BY <1>1, ExpireType, QSlot
<1>5. UNCHANGED <<tag, up, sessions>>
  BY DEF RsTimeout, Timeout
<1>6. QReader(rd')
  BY <1>3, <1>4, QReaderEmit DEF SlotEnds
<1>7. /\ rd'.qValue = f.qValue
      /\ \A h : QPacket(f, h) => QPacket(rd', h)
  BY <1>2, <1>3, <1>4, QEmits
<1>8. ASSUME NEW t \in Tags, Read(t)
      PROVE  Read(t)'
  <2>1. ~AckPending(t)
    BY <1>2, EmptySeq DEF InFlight, AckPending
  <2> QED
    BY <1>5, <1>8, <2>1 DEF Read
<1>9. CASE Adjusts(rd, f)
  <2>1. QOpened' /\ \A t \in Tags : QCovers(t)'
    BY <1>2, <1>3, <1>4, <1>5, <1>9, QOpens DEF Adjusts
  <2> QED
    BY <1>1, <1>6, <2>1 DEF QInv, QCoverInv
<1>10. CASE Acknowledges(rd, f)
  <2>1. \A t \in Tags : down'[t] = IF f.uni.tagEPC = t
                                   THEN Append(Append(<<>>, f.uni), f.bcast)
                                   ELSE Append(<<>>, f.bcast)
    BY <1>2, <1>3, <1>4, <1>10, QEmits DEF Acknowledges
  <2>2. f.uni \in QClosing' /\ f.bcast \in QClosing'
    BY <1>7, <1>10 DEF Acknowledges, QClosing, QPacket
  <2>3. QClosed'
    <3>1. /\ Append(Append(<<>>, f.uni), f.bcast) \in Seq(QClosing')
          /\ Append(<<>>, f.bcast) \in Seq(QClosing')
      BY <2>2, EventOnEmpty
    <3>2. ASSUME NEW t \in Tags
          PROVE  up'[t] \in Seq(QAnswers')
      BY <1>2, <1>5, EmptySeq DEF InFlight
    <3> QED
      BY <2>1, <3>1, <3>2 DEF QClosed
  <2>4. disturbed' = disturbed
    BY <1>2, <1>3, <1>10 DEF OpensFrame, Acknowledges
  <2>5. ASSUME NEW t \in Tags, QCovers(t)
        PROVE  QCovers(t)' \/ Read(t)'
    <3>1. CASE sessions = 0 \/ rd.qValue # -1
      BY <1>5, <1>7, <1>10, <3>1 DEF QCovers, Acknowledges
    <3>2. CASE QAwaits(t)
      <4>1. rd.tagEPC = t
        BY <1>2, <1>10, <3>2 DEF QAwaits, InFlight, QHasCounted, Acknowledges
      <4>2. down'[t] = Append(Append(<<>>, f.uni), f.bcast)
        BY <1>10, <2>1, <4>1 DEF Acknowledges
      <4>3. Len(down'[t]) = 2 /\ down'[t][1] = f.uni
        BY <4>2, AppendOnEmpty
      <4>4. f.uni.command = "RC_QUERYREPLY" /\ f.uni.tagEPC = t /\ f.uni.service # "EBTSA"
        BY <1>10, <4>1 DEF Acknowledges, QPacket
      <4>5. AckPending(t)'
        BY <4>3, <4>4 DEF AckPending
      <4> QED
        BY <4>5 DEF Read
    <3> QED
      BY <2>5, <3>1, <3>2 DEF QCovers
  <2>6. QCoverInv'
    BY <1>8, <2>4, <2>5 DEF QCoverInv, QInv
  <2> QED
    BY <1>1, <1>6, <2>3, <2>6 DEF QInv
<1>11. CASE Stops(rd, f)
  <2>1. \A t \in Tags : down'[t] = <<>> /\ up'[t] = <<>>
    BY <1>2, <1>3, <1>4, <1>5, <1>11, QEmits DEF Stops, InFlight
  <2>2. QClosed'
    BY <2>1, EmptySeq DEF QClosed
  <2>3. disturbed' = disturbed
    BY <1>2, <1>3, <1>11 DEF OpensFrame, Stops, NoHeader
  <2>4. ASSUME NEW t \in Tags, QCovers(t)
        PROVE  QCovers(t)'
    <3>1. ~QAwaits(t) /\ rd.qValue = -1
      BY <1>2, <1>11 DEF QAwaits, InFlight, QHasCounted, Stops
    <3> QED
      BY <1>5, <2>4, <3>1 DEF QCovers
  <2>5. QCoverInv'
    BY <1>8, <2>3, <2>4 DEF QCoverInv, QInv
  <2> QED
    BY <1>1, <1>6, <2>2, <2>5 DEF QInv
<1> QED
  BY <1>4, <1>9, <1>10, <1>11 DEF SlotEnds

\* What the step of a tag does to the packets between it and the reader
LEMMA QTagStep ==
  ASSUME TypeOK, NEW t \in Tags, TagReceives(t)
  PROVE  LET h == Head(down[t])
         IN \E o \in TagRecv(t, tag[t], h) :
              /\ tag'[t] = o.tag /\ down'[t] = Tail(down[t])
              /\ up'[t] = IF o.reply = "NONE" THEN up[t]
                          ELSE Append(up[t], [command |-> o.reply, service |-> h.service])
              /\ \A u \in Tags \ {t} :
                   tag'[u] = tag[u] /\ down'[u] = down[u] /\ up'[u] = up[u]
              /\ UNCHANGED <<rd, sessions, lost, late, disturbed>>
<1> DEFINE h == Head(down[t])
           reply(o) == [command |-> o.reply, service |-> h.service]
<1>1. PICK o \in TagRecv(t, tag[t], h) :
        /\ tag' = [tag EXCEPT ![t] = o.tag]
        /\ up' = IF o.reply = "NONE" THEN up
                 ELSE [up EXCEPT ![t] = Append(@, reply(o))]
  BY DEF TagReceives
<1>2. down' = [down EXCEPT ![t] = Tail(@)] /\ UNCHANGED <<rd, sessions, lost, late, disturbed>>
  BY DEF TagReceives
<1>3. tag \in [Tags -> TagRecords] /\ down \in [Tags -> Seq(Headers)] /\ up \in [Tags -> Seq(Replies)]
  BY DEF TypeOK
<1> HIDE DEF h, reply
<1>4. /\ tag'[t] = o.tag /\ down'[t] = Tail(down[t])
      /\ up'[t] = IF o.reply = "NONE" THEN up[t] ELSE Append(up[t], reply(o))
      /\ \A u \in Tags \ {t} :
           tag'[u] = tag[u] /\ down'[u] = down[u] /\ up'[u] = up[u]
  BY <1>1, <1>2, <1>3
<1> QED
  BY <1>1, <1>2, <1>4 DEF h, reply

\* An acknowledgement leaves the link only at the head of it.
LEMMA AckPendingTail ==
  ASSUME NEW t \in Tags, NEW s \in Seq(Headers), s # <<>>,
         down[t] = s, down'[t] = Tail(s), AckPending(t)
  PROVE  \/ Head(s).command = "RC_QUERYREPLY" /\ Head(s).tagEPC = t
         \/ AckPending(t)'
<1>1. PICK i \in 1 .. Len(s) :
        s[i].command = "RC_QUERYREPLY" /\ s[i].tagEPC = t /\ s[i].service # "EBTSA"
  BY DEF AckPending
<1>2. Head(s) = s[1] /\ Len(s) \in Nat
  BY HeadTailProperties
<1>3. CASE i = 1
  BY <1>1, <1>2, <1>3
<1>4. CASE i # 1
  <2>1. Len(Tail(s)) = Len(s) - 1 /\ \A j \in 1 .. Len(Tail(s)) : Tail(s)[j] = s[j + 1]
    BY HeadTailProperties
  <2>2. i - 1 \in 1 .. Len(Tail(s)) /\ Tail(s)[i - 1] = s[i]
    BY <1>2, <1>4, <2>1
  <2> QED
    BY <1>1, <2>2 DEF AckPending
<1> QED
  BY <1>3, <1>4

LEMMA TagReceivesQ ==
  ASSUME QInv, NEW t \in Tags, TagReceives(t)
  PROVE  QInv'
<1> DEFINE h == Head(down[t])
<1>1. TypeOK /\ TypeOK'
  BY StepType DEF QInv, Next
<1>2. PICK o \in TagRecv(t, tag[t], h) :
        /\ tag'[t] = o.tag /\ down'[t] = Tail(down[t])
        /\ up'[t] = IF o.reply = "NONE" THEN up[t]
                    ELSE Append(up[t], [command |-> o.reply, service |-> h.service])
        /\ \A u \in Tags \ {t} :
             tag'[u] = tag[u] /\ down'[u] = down[u] /\ up'[u] = up[u]
        /\ UNCHANGED <<rd, sessions, lost, late, disturbed>>
  BY <1>1, QTagStep
<1>3. down[t] \in Seq(Headers) /\ down[t] # <<>> /\ tag[t] \in TagRecords
  BY <1>1 DEF TagReceives, TypeOK
<1>4. QOpened \/ QClosed
  BY DEF QInv
<1>5. /\ h \in Headers /\ h.service = "STANDARD" /\ h.qValue = rd.qValue
      /\ h.command \in {"RC_QUERY", "RC_QUERYADJUST", "RC_QUERYREPLY"}
      /\ h.command # "RC_QUERYREPLY" <=> QOpened
  <2>1. CASE QOpened
    <3>1. h \in QOpening
      BY <1>3, <2>1, HeadTailProperties DEF QOpened
    <3> QED
      BY <2>1, <3>1 DEF QOpening, QPacket
  <2>2. CASE ~QOpened
    <3>1. h \in QClosing
      BY <1>3, <1>4, <2>2, HeadTailProperties DEF QClosed
    <3> QED
      BY <2>2, <3>1 DEF QClosing, QPacket
  <2> QED
    BY <2>1, <2>2
<1>6. /\ o.reply \in {"NONE", "TC_REPLY", h.command}
      /\ o.reply = "TC_REPLY" => h.command = "RC_QUERYREPLY"
      /\ h.command = "RC_QUERYREPLY" /\ h.tagEPC = t => Acknowledged(tag'[t])
      /\ Acknowledged(tag[t]) /\ ~Acknowledged(tag'[t]) => h.command = "RC_QUERY"
      /\ h.command # "RC_QUERYREPLY" /\ h.qValue = -1 =>
           Acknowledged(tag'[t]) \/ o.reply = h.command
  <2> HIDE DEF h
  <2> QED
    BY <1>2, <1>3, <1>5, QTag
<1> DEFINE reply == [command |-> o.reply, service |-> h.service]
<1>7. ASSUME o.reply # "NONE"
      PROVE  /\ reply \in QAnswers
             /\ h.command # "RC_QUERYREPLY" => reply \in QSlotAnswers
  BY <1>5, <1>6, <1>7 DEF QAnswers, QSlotAnswers, Replies, TagCommands, Services
<1> HIDE DEF h, reply
<1>8. /\ QOpening' = QOpening /\ QClosing' = QClosing
      /\ QSlotAnswers' = QSlotAnswers /\ QAnswers' = QAnswers
  BY <1>2 DEF QOpening, QClosing, QSlotAnswers, QAnswers
<1>9. ASSUME QOpened PROVE QOpened'
  <2>1. down[t] \in Seq(QOpening) /\ up[t] \in Seq(QSlotAnswers)
    BY <1>9 DEF QOpened
  <2>2. Tail(down[t]) \in Seq(QOpening)
    BY <1>3, <2>1, HeadTailProperties
  <2>3. up'[t] \in Seq(QSlotAnswers)
    BY <1>2, <1>5, <1>7, <1>9, <2>1, AppendProperties DEF reply
  <2> QED
    BY <1>2, <1>8, <1>9, <2>2, <2>3 DEF QOpened
<1>10. ASSUME QClosed PROVE QClosed'
  <2>1. down[t] \in Seq(QClosing) /\ up[t] \in Seq(QAnswers)
    BY <1>10 DEF QClosed
  <2>2. Tail(down[t]) \in Seq(QClosing)
    BY <1>3, <2>1, HeadTailProperties
  <2>3. up'[t] \in Seq(QAnswers)
    BY <1>2, <1>7, <2>1, AppendProperties DEF reply
  <2> QED
    BY <1>2, <1>8, <1>10, <2>2, <2>3 DEF QClosed
<1>11. ASSUME o.reply # "NONE"
       PROVE  up'[t] # <<>>
  <2>1. up[t] \in Seq(QAnswers)
    BY <1>4, SeqMonotonic DEF QOpened, QClosed, QSlotAnswers
  <2> QED
    BY <1>2, <1>7, <1>11, <2>1, AppendProperties DEF reply
<1>12. ASSUME QOpened, ~Acknowledged(tag'[t])
       PROVE  QCovers(t)'
  <2>1. CASE rd.qValue # -1
    BY <1>2, <2>1 DEF QCovers
  <2>2. CASE rd.qValue = -1
    <3>1. o.reply # "NONE" /\ rd.rs = "PENDING"
      BY <1>5, <1>6, <1>12, <2>2 DEF QOpened
    <3> QED
      BY <1>2, <1>9, <1>11, <1>12, <3>1 DEF QCovers, QAwaits
  <2> QED
    BY <2>1, <2>2
<1>13. ASSUME Read(t)
       PROVE  Read(t)' \/ QCovers(t)'
  <2>1. CASE Acknowledged(tag[t])
    BY <1>5, <1>6, <1>12, <2>1 DEF Read
  <2>2. CASE AckPending(t)
    BY <1>2, <1>3, <1>6, <2>2, AckPendingTail DEF Read, h
  <2> QED
    BY <1>13, <2>1, <2>2 DEF Read
<1>14. ASSUME QCovers(t)
       PROVE  Read(t)' \/ QCovers(t)'
  <2>1. CASE sessions = 0 \/ rd.qValue # -1
    BY <1>2, <2>1 DEF QCovers
  <2>2. CASE QAwaits(t)
    BY <1>12, <2>2 DEF QAwaits, Read
  <2> QED
    BY <1>14, <2>1, <2>2 DEF QCovers
<1>15. ASSUME NEW u \in Tags \ {t}, Read(u) \/ QCovers(u)
       PROVE  Read(u)' \/ QCovers(u)'
  <2>1. CASE Read(u)
    BY <1>2, <2>1 DEF Read, AckPending
  <2>2. CASE QCovers(u)
    BY <1>2, <1>9, <2>2 DEF QCovers, QAwaits, QHasCounted
  <2> QED
    BY <1>15, <2>1, <2>2
<1>16. QCoverInv'
  BY <1>2, <1>13, <1>14, <1>15 DEF QInv, QCoverInv
<1>17. QReader(rd')
  BY <1>2 DEF QInv
<1> QED
  BY <1>1, <1>4, <1>9, <1>10, <1>16, <1>17 DEF QInv

LEMMA ReaderReceivesQ ==
  ASSUME QInv, NEW t \in Tags, ReaderReceives(t)
  PROVE  QInv'
<1> DEFINE a == Head(up[t])
<1>1. TypeOK /\ TypeOK'
  BY StepType DEF QInv, Next
<1>2. /\ rd' = Recv(rd, t, a) /\ up'[t] = Tail(up[t]) /\ up[t] # <<>>
      /\ \A u \in Tags \ {t} : up'[u] = up[u]
      /\ UNCHANGED <<tag, down, sessions, disturbed>>
  BY <1>1 DEF ReaderReceives, TypeOK
<1>3. rd \in ReaderRecords /\ QReader(rd) /\ (QOpened \/ QClosed)
  BY <1>1 DEF QInv, TypeOK
<1>4. /\ a \in QAnswers /\ (QOpened => a.command # "TC_REPLY")
      /\ QOpened => Tail(up[t]) \in Seq(QSlotAnswers)
      /\ QClosed => Tail(up[t]) \in Seq(QAnswers)
  <2>1. CASE QOpened
    <3>1. up[t] \in Seq(QSlotAnswers)
      BY <2>1 DEF QOpened
    <3>2. a \in QSlotAnswers /\ Tail(up[t]) \in Seq(QSlotAnswers)
      BY <1>2, <3>1, HeadTailProperties
    <3>3. QSlotAnswers \subseteq QAnswers
      BY DEF QSlotAnswers
    <3>4. Seq(QSlotAnswers) \subseteq Seq(QAnswers)
      BY <3>3, SeqMonotonic
    <3> QED
      BY <3>2, <3>3, <3>4 DEF QSlotAnswers
  <2>2. CASE ~QOpened
    BY <1>2, <1>3, <2>2, HeadTailProperties DEF QClosed
  <2> QED
    BY <2>1, <2>2
<1> HIDE DEF a
<1>5. /\ QReader(rd') /\ rd'.rs = rd.rs /\ rd'.qValue = rd.qValue
      /\ rd'.tagEPC = t /\ (QOpened => rd'.counter = rd.counter + 1)
  BY <1>2, <1>3, <1>4, QReceived
<1>6. /\ QOpening' = QOpening /\ QClosing' = QClosing
      /\ QSlotAnswers' = QSlotAnswers /\ QAnswers' = QAnswers
  BY <1>5 DEF QOpening, QClosing, QSlotAnswers, QAnswers, QPacket
<1>7. ASSUME QOpened PROVE QOpened'
  BY <1>2, <1>4, <1>5, <1>6, <1>7 DEF QOpened
<1>8. ASSUME QClosed PROVE QClosed'
  BY <1>2, <1>4, <1>6, <1>8 DEF QClosed
<1>9. \A u \in Tags : Read(u)' = Read(u)
  BY <1>2 DEF Read, AckPending
<1>10. ASSUME NEW u \in Tags, QCovers(u)
       PROVE  QCovers(u)'
  <2>1. CASE sessions = 0 \/ rd.qValue # -1
    BY <1>2, <1>5, <2>1 DEF QCovers
  <2>2. CASE QAwaits(u)
    <3>1. /\ rd'.rs = "PENDING" /\ QOpened'
          /\ rd.counter \in Nat /\ rd'.counter = rd.counter + 1
      BY <1>3, <1>5, <1>7, <2>2, FieldType DEF QAwaits
    <3>2. CASE u = t
      BY <1>5, <3>1, <3>2 DEF QCovers, QAwaits, QHasCounted
    <3>3. CASE u # t /\ QHasCounted(u)
      BY <3>1, <3>3 DEF QCovers, QAwaits, QHasCounted
    <3>4. CASE u # t /\ ~QHasCounted(u)
      BY <1>2, <2>2, <3>1, <3>4 DEF QCovers, QAwaits
    <3> QED
      BY <3>2, <3>3, <3>4
  <2> QED
    BY <1>10, <2>1, <2>2 DEF QCovers
<1>11. QCoverInv'
  BY <1>2, <1>9, <1>10 DEF QInv, QCoverInv
<1> QED
  BY <1>1, <1>3, <1>5, <1>7, <1>8, <1>11 DEF QInv

\* A tag that loses a packet is disturbed; nothing changes for the others.
LEMMA LoseQ ==
  ASSUME QInv, NEW t \in Tags, LoseDown(t) \/ LoseUp(t)
  PROVE  QInv'
<1>1. TypeOK /\ TypeOK'
  BY StepType DEF QInv, Next
<1>2. /\ UNCHANGED <<rd, tag, sessions>> /\ disturbed' = disturbed \cup {t}
      /\ \A u \in Tags \ {t} : down'[u] = down[u] /\ up'[u] = up[u]
      /\ \/ down[t] # <<>> /\ down'[t] = Tail(down[t]) /\ up'[t] = up[t]
         \/ up[t] # <<>> /\ up'[t] = Tail(up[t]) /\ down'[t] = down[t]
  BY <1>1 DEF LoseDown, LoseUp, TypeOK
<1>3. /\ QOpening' = QOpening /\ QClosing' = QClosing
      /\ QSlotAnswers' = QSlotAnswers /\ QAnswers' = QAnswers
  BY <1>2 DEF QOpening, QClosing, QSlotAnswers, QAnswers
<1>4. ASSUME QOpened PROVE QOpened'
  <2>1. down[t] \in Seq(QOpening) /\ up[t] \in Seq(QSlotAnswers)
    BY <1>4 DEF QOpened
  <2>2. /\ down[t] # <<>> => Tail(down[t]) \in Seq(QOpening)
        /\ up[t] # <<>> => Tail(up[t]) \in Seq(QSlotAnswers)
    BY <2>1, HeadTailProperties
  <2>3. down'[t] \in Seq(QOpening) /\ up'[t] \in Seq(QSlotAnswers)
    BY <1>2, <2>1, <2>2
  <2> QED
    BY <1>2, <1>3, <1>4, <2>3 DEF QOpened
<1>5. ASSUME QClosed PROVE QClosed'
  <2>1. down[t] \in Seq(QClosing) /\ up[t] \in Seq(QAnswers)
    BY <1>5 DEF QClosed
  <2>2. /\ down[t] # <<>> => Tail(down[t]) \in Seq(QClosing)
        /\ up[t] # <<>> => Tail(up[t]) \in Seq(QAnswers)
    BY <2>1, HeadTailProperties
  <2>3. down'[t] \in Seq(QClosing) /\ up'[t] \in Seq(QAnswers)
    BY <1>2, <2>1, <2>2
  <2> QED
    BY <1>2, <1>3, <1>5, <2>3 DEF QClosed
<1>6. ASSUME NEW u \in Tags \ disturbed', Read(u) \/ QCovers(u)
      PROVE  Read(u)' \/ QCovers(u)'
  <2>1. u # t /\ down'[u] = down[u] /\ up'[u] = up[u]
    BY <1>2
  <2>2. CASE Read(u)
    BY <1>2, <2>1, <2>2 DEF Read, AckPending
  <2>3. CASE QCovers(u)
    BY <1>2, <1>4, <2>1, <2>3 DEF QCovers, QAwaits, QHasCounted
  <2> QED
    BY <1>6, <2>2, <2>3
<1>7. QCoverInv'
  BY <1>2, <1>6 DEF QInv, QCoverInv
<1> QED
  BY <1>1, <1>2, <1>4, <1>5, <1>7 DEF QInv

LEMMA StepQ ==
  ASSUME Service = "STANDARD", Overlap = FALSE, MaxLate = 0, QInv, [Next]_vars
  PROVE  QInv'
<1>1. CASE CommandEstimation \/ CommandEdfsa \/ CommandEstimationDfsa
  BY <1>1 DEF CommandEstimation, CommandEdfsa, CommandEstimationDfsa
<1>2. CASE ColTimeout
  BY <1>2 DEF ColTimeout, QInv, QReader
<1>3. CASE CommandStandard \/ RsTimeout
  BY <1>3, CommandQ, RsTimeoutQ
<1>4. ASSUME NEW t \in Tags,
             TagReceives(t) \/ ReaderReceives(t) \/ LoseDown(t) \/ LoseUp(t)
      PROVE  QInv'
  BY <1>4, TagReceivesQ, ReaderReceivesQ, LoseQ
<1>5. CASE UNCHANGED vars
  <2>1. UNCHANGED <<rd, tag, down, up, sessions, disturbed>>
    BY <1>5 DEF vars
  <2>2. QOpened' = QOpened /\ QClosed' = QClosed
    BY <2>1 DEF QOpened, QClosed, QOpening, QClosing, QSlotAnswers, QAnswers
  <2>3. \A t \in Tags : Read(t)' = Read(t)
    BY <2>1 DEF Read, AckPending
  <2>4. \A t \in Tags : QCovers(t)' = QCovers(t)
    BY <2>1, <2>2 DEF QCovers, QAwaits, QHasCounted
  <2>5. TypeOK'
    BY StepType DEF QInv
  <2> QED
    BY <2>1, <2>2, <2>3, <2>4, <2>5 DEF QInv, QCoverInv
<1> QED
  BY <1>1, <1>2, <1>3, <1>4, <1>5 DEF Next

(***************************************************************************)
(* The Q algorithm of one reader misses no tag whose packets all came,     *)
(* whatever packets of other tags are lost: when start_sing() finds a slot *)
(* idle at Q = -1 and ends the round, every such tag has been, or is about *)
(* to be, acknowledged.  Any number of tags and sessions, any Q and c_.    *)
(* The hypotheses are the setting of the run: with an answer that is late, *)
(* or left over from a command given too early, a TC_REPLY may clear       *)
(* counter_ in the last slot, and the answer of another tag with it.       *)
(***************************************************************************)
THEOREM QMissesNoTag ==
  ASSUME Service = "STANDARD", Overlap = FALSE, MaxLate = 0
  PROVE  Spec => []NoSilentMiss
<1>1. Init => QInv
  BY InitQ
<1>2. QInv /\ [Next]_vars => QInv'
  BY StepQ
<1>3. QInv => NoSilentMiss
  <2> SUFFICES ASSUME QInv, Concluded, NEW t \in Tags \ disturbed
               PROVE  Read(t)
    BY DEF NoSilentMiss
  <2>1. ~QCovers(t)
    <3>1. TypeOK /\ QReader(rd)
      BY DEF QInv
    <3>2. sessions # 0 /\ rd.rs # "PENDING" /\ rd.qValue = -1
      BY <3>1 DEF Concluded, Running, QReader, TypeOK
    <3> QED
      BY <3>2 DEF QCovers, QAwaits
  <2> QED
    BY <2>1 DEF QInv, QCoverInv
<1> QED
  BY <1>1, <1>2, <1>3, PTL DEF Spec

-------------------------------------------------------------------------------
(***************************************************************************)
(* success_ counts the tags read in the Q algorithm too.  The answer that  *)
(* start_sing() is about to acknowledge is of a tag not yet read, because  *)
(* a tag stops answering once it is acknowledged, and its confirmation is  *)
(* not counted; a first session's query finds no tag acknowledged, so that *)
(* none loses the acknowledgement it had.                                  *)
(***************************************************************************)
QPackets ==
  {h \in Headers : /\ h.service = "STANDARD"
                   /\ h.command \in {"RC_QUERY", "RC_QUERYADJUST", "RC_QUERYREPLY"}}

\* What is under way to and from tag t.  Behind the first packet is only the
\* broadcast that follows an acknowledgement.
QLink(t) ==
  /\ down[t] \in Seq(QPackets) /\ up[t] \in Seq(QAnswers)
  /\ \A i \in 1 .. Len(down[t]) :
       /\ i # 1 => down[t][i].tagEPC = Broadcast /\ down[t][i].command # "RC_QUERY"
       /\ down[t][i].command = "RC_QUERY" => ~Acknowledged(tag[t])
  /\ \A i \in 1 .. Len(up[t]) : up[t][i].command # "TC_REPLY" => ~Read(t)

QSoleIsNew == rd.counter = 1 => rd.tagEPC \in Tags /\ ~Read(rd.tagEPC)

QUntouched ==
  /\ rd.rs = "IDLE" /\ rd.counter = 0
  /\ \A t \in Tags : down[t] = <<>> /\ up[t] = <<>> /\ ~Acknowledged(tag[t])

QCount ==
  /\ IsFiniteSet(ReadTags) /\ rd.success = Cardinality(ReadTags)
  /\ QSoleIsNew /\ \A t \in Tags : QLink(t)

QSuccessInv ==
  /\ TypeOK /\ QReader(rd)
  /\ sessions = 0 => QUntouched
  /\ lost = 0 /\ late = 0 /\ sessions = 1 => QCount

\* A link on which one event of the reader has put its packets
LEMMA QLinkOnEmpty ==
  ASSUME NEW t \in Tags, up'[t] = <<>>, NEW b \in QPackets, b.tagEPC = Broadcast,
         b.command = "RC_QUERY" => ~Acknowledged(tag'[t]),
         down'[t] = Append(<<>>, b)
  PROVE  QLink(t)' /\ ~AckPending(t)'
<1>1. /\ down'[t] \in Seq(QPackets) /\ Len(down'[t]) = 1 /\ down'[t][1] = b
      /\ up'[t] \in Seq(QAnswers) /\ Len(up'[t]) = 0
  BY EventOnEmpty, AppendOnEmpty, EmptySeq
<1>2. QPackets' = QPackets /\ QAnswers' = QAnswers
  BY DEF QPackets, QAnswers
<1>3. Broadcast # t
  BY BroadcastAssumption
<1> QED
  BY <1>1, <1>2, <1>3 DEF QLink, AckPending

LEMMA QLinkAcked ==
  ASSUME NEW t \in Tags, up'[t] = <<>>, NEW a \in QPackets, NEW b \in QPackets,
         a.tagEPC = t, a.command = "RC_QUERYREPLY",
         b.tagEPC = Broadcast, b.command = "RC_QUERYREPLY",
         down'[t] = Append(Append(<<>>, a), b)
  PROVE  QLink(t)' /\ AckPending(t)'
<1>1. /\ down'[t] \in Seq(QPackets) /\ Len(down'[t]) = 2
      /\ down'[t][1] = a /\ down'[t][2] = b
      /\ up'[t] \in Seq(QAnswers) /\ Len(up'[t]) = 0
  BY EventOnEmpty, AppendOnEmpty, EmptySeq
<1>2. QPackets' = QPackets /\ QAnswers' = QAnswers
  BY DEF QPackets, QAnswers
<1>3. a.service # "EBTSA"
  BY DEF QPackets
<1> QED
  BY <1>1, <1>2, <1>3 DEF QLink, AckPending

LEMMA QLinkIdle ==
  ASSUME NEW t \in Tags, down'[t] = <<>>, up'[t] = <<>>
  PROVE  QLink(t)' /\ ~AckPending(t)'
BY EmptySeq DEF QLink, AckPending

LEMMA InitQSuccess ==
  ASSUME Service = "STANDARD", Init
  PROVE  QSuccessInv
<1>1. TypeOK /\ QReader(rd)
  BY InitQ DEF QInv
<1>2. rd.rs = "IDLE" /\ rd.counter = 0
  BY DEF Init, ReaderInits
<1>3. \A t \in Tags : down[t] = <<>> /\ up[t] = <<>> /\ ~Acknowledged(tag[t])
  BY DEF Init, TagInit, Acknowledged
<1>4. sessions = 0
  BY DEF Init
<1> QED
  BY <1>1, <1>2, <1>3, <1>4 DEF QSuccessInv, QUntouched

LEMMA CommandQSuccess ==
  ASSUME QSuccessInv, CommandStandard
  PROVE  QSuccessInv'
<1> DEFINE f == StandardQueryTags(rd)
<1>1. TypeOK' /\ rd \in ReaderRecords /\ QReader(rd) /\ sessions \in Nat
  BY StepType, BoundsAssumption DEF QSuccessInv, Next, TypeOK
<1>2. /\ f \in ReaderRecords
      /\ f.service = "STANDARD" /\ f.operation = 0 /\ f.col = "IDLE"
      /\ f.counter = rd.counter /\ f.success = 0 /\ f.uni = NoHeader
      /\ QPacket(f, f.bcast) /\ f.bcast.command = "RC_QUERY"
      /\ f.bcast.tagEPC = Broadcast
  BY <1>1, StandardQueryFields
<1>3. Emit(f) /\ sessions' = sessions + 1 /\ UNCHANGED <<up, tag>>
  BY DEF CommandStandard, Command
<1> HIDE DEF f
<1>4. QReader(rd')
  BY <1>2, <1>3, QReaderEmit
<1>5. sessions' # 0 /\ (sessions' = 1 => sessions = 0)
  BY <1>1, <1>3
<1>6. ASSUME sessions = 0 PROVE QCount'
  <2>1. QUntouched /\ InFlight = {}
    BY <1>6 DEF QSuccessInv, QUntouched, InFlight
  <2>2. /\ rd'.counter = 0 /\ rd'.success = 0
        /\ \A t \in Tags : down'[t] = Append(<<>>, f.bcast)
    <3>1. f.bcast.command # "NONE"
      BY <1>2
    <3> QED
      BY <1>2, <1>3, <2>1, <3>1, QEmits DEF QUntouched
  <2>3. f.bcast \in QPackets
    BY <1>2 DEF QPackets, QPacket
  <2>4. ASSUME NEW t \in Tags PROVE QLink(t)' /\ ~Read(t)'
    <3>1. up'[t] = <<>> /\ ~Acknowledged(tag'[t])
      BY <1>3, <2>1 DEF QUntouched
    <3>2. QLink(t)' /\ ~AckPending(t)'
      BY <1>2, <2>2, <2>3, <3>1, QLinkOnEmpty
    <3> QED
      BY <3>1, <3>2 DEF Read
  <2>5. ReadTags' = {}
    BY <2>4 DEF ReadTags
  <2> QED
    BY <2>2, <2>4, <2>5, FS_EmptySet DEF QCount, QSoleIsNew
<1> QED
  BY <1>1, <1>4, <1>5, <1>6 DEF QSuccessInv

LEMMA RsTimeoutQSuccess ==
  ASSUME QSuccessInv, RsTimeout
  PROVE  QSuccessInv'
<1>1. /\ TypeOK /\ TypeOK' /\ rd \in ReaderRecords /\ QReader(rd)
      /\ late \in Nat
  BY StepType, BoundsAssumption DEF QSuccessInv, Next, TypeOK
<1>2. /\ late' = IF InFlight # {} THEN late + 1 ELSE late
      /\ UNCHANGED <<tag, up, sessions, lost>>
  BY DEF RsTimeout, Timeout
<1>3. PICK f \in Expire(rd) : Emit(f)
  BY DEF RsTimeout, Timeout
<1>4. f \in ReaderRecords /\ SlotEnds(rd, f)
  BY <1>1, ExpireType, QSlot
<1>5. QReader(rd')
  BY <1>3, <1>4, QReaderEmit DEF SlotEnds
<1>6. sessions # 0
  BY DEF RsTimeout, QSuccessInv, QUntouched
<1>7. ASSUME lost = 0, late' = 0, sessions = 1
      PROVE  QCount'
  <2>1. InFlight = {} /\ late = 0
    BY <1>1, <1>2, <1>7
  <2>2. QCount
    BY <1>7, <2>1 DEF QSuccessInv
  <2>3. ASSUME NEW t \in Tags
        PROVE  up'[t] = <<>> /\ tag'[t] = tag[t] /\ ~AckPending(t)
    BY <1>2, <2>1, EmptySeq DEF InFlight, AckPending
  <2>4. rd'.counter = 0 /\ rd'.success = f.success
    BY <1>3, <1>4, <2>1, QEmits DEF SlotEnds
  <2>5. QSoleIsNew'
    BY <2>4 DEF QSoleIsNew
  <2>6. ASSUME \A t \in Tags : QLink(t)' /\ ~AckPending(t)',
               f.success = rd.success
        PROVE  QCount'
    <3>1. \A t \in Tags : Read(t)' <=> Read(t)
      BY <2>3, <2>6 DEF Read
    <3>2. ReadTags' = ReadTags
      BY <3>1 DEF ReadTags
    <3> QED
      BY <2>2, <2>4, <2>5, <2>6, <3>2 DEF QCount
  <2>7. CASE Adjusts(rd, f)
    <3>1. f.bcast \in QPackets /\ f.bcast.command # "NONE" /\ f.bcast.command # "RC_QUERY"
      BY <2>7 DEF Adjusts, QPackets, QPacket
    <3>2. \A t \in Tags : down'[t] = Append(<<>>, f.bcast)
      BY <1>3, <1>4, <2>1, <2>7, <3>1, QEmits DEF Adjusts
    <3>3. f.bcast.tagEPC = Broadcast /\ f.success = rd.success
      BY <2>7 DEF Adjusts
    <3>4. ASSUME NEW t \in Tags PROVE QLink(t)' /\ ~AckPending(t)'
      BY <2>3, <3>1, <3>2, <3>3, QLinkOnEmpty
    <3> QED
      BY <2>6, <3>3, <3>4
  <2>8. CASE Acknowledges(rd, f)
    <3>1. PICK u \in Tags : u = rd.tagEPC /\ ~Read(u)
      BY <2>2, <2>8 DEF QCount, QSoleIsNew, Acknowledges
    <3>2. /\ f.uni \in QPackets /\ f.uni.command = "RC_QUERYREPLY" /\ f.uni.tagEPC = u
          /\ f.bcast \in QPackets /\ f.bcast.command = "RC_QUERYREPLY"
          /\ f.bcast.tagEPC = Broadcast
          /\ rd.counter = 1 /\ f.success = rd.success + 1
      BY <2>8, <3>1 DEF Acknowledges, QPackets, QPacket
    <3>3. \A t \in Tags : down'[t] = IF u = t
                                     THEN Append(Append(<<>>, f.uni), f.bcast)
                                     ELSE Append(<<>>, f.bcast)
      BY <1>3, <1>4, <2>1, <3>2, QEmits
    <3>4. QLink(u)' /\ AckPending(u)'
      <4>1. up'[u] = <<>> /\ down'[u] = Append(Append(<<>>, f.uni), f.bcast)
        BY <2>3, <3>3
      <4> QED
        BY <3>2, <4>1, QLinkAcked
    <3>5. ASSUME NEW t \in Tags \ {u} PROVE QLink(t)' /\ ~AckPending(t)'
      <4>1. /\ up'[t] = <<>> /\ down'[t] = Append(<<>>, f.bcast)
            /\ f.bcast.command # "RC_QUERY"
        BY <2>3, <3>2, <3>3
      <4> QED
        BY <3>2, <4>1, QLinkOnEmpty
    <3>6. \A t \in Tags : Read(t)' <=> Read(t) \/ t = u
      BY <2>3, <3>4, <3>5 DEF Read
    <3>7. ReadTags' = ReadTags \cup {u} /\ u \notin ReadTags
      BY <3>1, <3>6 DEF ReadTags
    <3>8. /\ IsFiniteSet(ReadTags \cup {u})
          /\ Cardinality(ReadTags \cup {u}) = Cardinality(ReadTags) + 1
      BY <2>2, <3>7, FS_AddElement DEF QCount
    <3>9. rd'.success = Cardinality(ReadTags')
      BY <2>2, <2>4, <3>2, <3>7, <3>8 DEF QCount
    <3>10. \A t \in Tags : QLink(t)'
      BY <3>4, <3>5
    <3> QED
      BY <2>5, <3>7, <3>8, <3>9, <3>10 DEF QCount
  <2>9. CASE Stops(rd, f)
    <3>1. \A t \in Tags : down'[t] = <<>>
      BY <1>3, <1>4, <2>1, <2>9, QEmits DEF Stops
    <3>2. ASSUME NEW t \in Tags PROVE QLink(t)' /\ ~AckPending(t)'
      BY <2>3, <3>1, QLinkIdle
    <3>3. f.success = rd.success
      BY <2>9 DEF Stops
    <3> QED
      BY <2>6, <3>2, <3>3
  <2> QED
    BY <1>4, <2>7, <2>8, <2>9 DEF SlotEnds
<1> QED
  BY <1>1, <1>2, <1>5, <1>6, <1>7 DEF QSuccessInv

LEMMA TagReceivesQSuccess ==
  ASSUME QSuccessInv, NEW u \in Tags, TagReceives(u)
  PROVE  QSuccessInv'
<1> DEFINE h == Head(down[u])
           w == Tail(down[u])
<1>1. TypeOK /\ TypeOK' /\ QReader(rd)
  BY StepType DEF QSuccessInv, Next
<1>2. PICK o \in TagRecv(u, tag[u], h) :
        /\ tag'[u] = o.tag /\ down'[u] = w
        /\ up'[u] = IF o.reply = "NONE" THEN up[u]
                    ELSE Append(up[u], [command |-> o.reply, service |-> h.service])
        /\ \A t \in Tags \ {u} :
             tag'[t] = tag[t] /\ down'[t] = down[t] /\ up'[t] = up[t]
        /\ UNCHANGED <<rd, sessions, lost, late, disturbed>>
  BY <1>1, QTagStep
<1>3. down[u] # <<>> /\ tag[u] \in TagRecords
  BY <1>1 DEF TagReceives, TypeOK
<1>4. sessions # 0
  BY <1>3 DEF QSuccessInv, QUntouched
<1>5. ASSUME lost = 0, late = 0, sessions = 1
      PROVE  QCount'
  <2>1. QCount /\ QLink(u)
    BY <1>5 DEF QSuccessInv, QCount
  <2>2. down[u] \in Seq(QPackets) /\ up[u] \in Seq(QAnswers)
    BY <2>1 DEF QLink
  <2>3. /\ h \in QPackets /\ h = down[u][1] /\ w \in Seq(QPackets)
        /\ Len(w) = Len(down[u]) - 1
        /\ \A i \in 1 .. Len(w) : w[i] = down[u][i + 1]
    BY <1>3, <2>2, HeadTailProperties
  <2>4. Len(down[u]) \in Nat \ {0} /\ Len(w) \in Nat
    BY <1>3, <2>2, <2>3, EmptySeq, LenProperties
  <2>5. ASSUME NEW i \in 1 .. Len(w)
        PROVE  w[i].tagEPC = Broadcast /\ w[i].command # "RC_QUERY"
    <3>1. i + 1 \in 1 .. Len(down[u]) /\ i + 1 # 1
      BY <2>3, <2>4
    <3> QED
      BY <2>1, <2>3, <3>1 DEF QLink
  <2>6. /\ h \in Headers /\ h.service = "STANDARD"
        /\ h.command \in {"RC_QUERY", "RC_QUERYADJUST", "RC_QUERYREPLY"}
    BY <2>3 DEF QPackets
  <2> HIDE DEF h, w
  <2>7. ~AckPending(u)'
    BY <1>2, <2>5, BroadcastAssumption DEF AckPending
  <2>8. AckPending(u) <=> h.command = "RC_QUERYREPLY" /\ h.tagEPC = u
    <3>1. 1 \in 1 .. Len(down[u])
      BY <2>4
    <3>2. \A i \in 1 .. Len(down[u]) : i # 1 => down[u][i].tagEPC # u
      BY <2>1, BroadcastAssumption DEF QLink
    <3> QED
      BY <2>3, <2>6, <3>1, <3>2 DEF AckPending
  <2>9. h.command = "RC_QUERY" => ~Acknowledged(tag[u])
    <3>1. 1 \in 1 .. Len(down[u])
      BY <2>4
    <3> QED
      BY <2>1, <2>3, <3>1 DEF QLink
  <2>10. /\ o.reply \in {"NONE", "TC_REPLY", h.command}
         /\ h.command = "RC_QUERYREPLY" /\ h.tagEPC = u =>
              Acknowledged(o.tag) /\ o.reply = "TC_REPLY"
         /\ Acknowledged(tag[u]) /\ ~Acknowledged(o.tag) => h.command = "RC_QUERY"
         /\ Acknowledged(o.tag) /\ ~Acknowledged(tag[u]) =>
              h.command = "RC_QUERYREPLY" /\ h.tagEPC = u
         /\ o.reply \notin {"NONE", "TC_REPLY"} => ~Acknowledged(o.tag)
    BY <1>2, <1>3, <2>6, QTag
  <2>11. Read(u)' <=> Read(u)
    BY <1>2, <2>7, <2>8, <2>9, <2>10 DEF Read
  <2>12. ASSUME NEW t \in Tags \ {u}
         PROVE  (Read(t)' <=> Read(t)) /\ QLink(t)'
    <3>1. Read(t)' <=> Read(t)
      BY <1>2 DEF Read, AckPending
    <3>2. QLink(t) /\ QPackets' = QPackets /\ QAnswers' = QAnswers
      BY <2>1 DEF QCount, QPackets, QAnswers
    <3> QED
      BY <1>2, <3>1, <3>2 DEF QLink
  <2>13. QLink(u)'
    <3>1. down'[u] \in Seq(QPackets') /\ QAnswers' = QAnswers
      BY <1>2, <2>3 DEF QPackets, QAnswers
    <3>2. \A i \in 1 .. Len(down'[u]) :
            down'[u][i].tagEPC = Broadcast /\ down'[u][i].command # "RC_QUERY"
      BY <1>2, <2>5
    <3>3. /\ up'[u] \in Seq(QAnswers)
          /\ \A i \in 1 .. Len(up'[u]) : up'[u][i].command # "TC_REPLY" => ~Read(u)'
      <4>1. \A i \in 1 .. Len(up[u]) : up[u][i].command # "TC_REPLY" => ~Read(u)'
        BY <2>1, <2>11 DEF QLink
      <4>2. CASE o.reply = "NONE"
        BY <1>2, <2>2, <4>1, <4>2
      <4>3. CASE o.reply # "NONE"
        <5> DEFINE a == [command |-> o.reply, service |-> h.service]
        <5>1. a \in QAnswers /\ (a.command # "TC_REPLY" => ~Read(u)')
          BY <1>2, <2>6, <2>7, <2>10, <4>3
          DEF QAnswers, Replies, TagCommands, Services, Read
        <5>2. up'[u] = Append(up[u], a)
          BY <1>2, <4>3
        <5> HIDE DEF a
        <5>3. /\ Append(up[u], a) \in Seq(QAnswers)
              /\ Len(Append(up[u], a)) = Len(up[u]) + 1
              /\ Append(up[u], a)[Len(up[u]) + 1] = a
              /\ \A i \in 1 .. Len(up[u]) : Append(up[u], a)[i] = up[u][i]
          BY <2>2, <5>1, AppendProperties
        <5>4. \A i \in 1 .. Len(up'[u]) : i \in 1 .. Len(up[u]) \/ i = Len(up[u]) + 1
          <6>1. Len(up[u]) \in Nat
            BY <2>2, LenProperties
          <6> QED
            BY <5>2, <5>3, <6>1
        <5> QED
          BY <4>1, <5>1, <5>2, <5>3, <5>4
      <4> QED
        BY <4>2, <4>3
    <3> QED
      BY <3>1, <3>2, <3>3 DEF QLink
  <2>14. ReadTags' = ReadTags
    BY <2>11, <2>12 DEF ReadTags
  <2>15. QSoleIsNew'
    BY <1>2, <2>1, <2>11, <2>12 DEF QCount, QSoleIsNew
  <2> QED
    BY <1>2, <2>1, <2>12, <2>13, <2>14, <2>15 DEF QCount
<1> QED
  BY <1>1, <1>2, <1>4, <1>5 DEF QSuccessInv

LEMMA ReaderReceivesQSuccess ==
  ASSUME QSuccessInv, NEW u \in Tags, ReaderReceives(u)
  PROVE  QSuccessInv'
<1> DEFINE a == Head(up[u])
<1>1. TypeOK /\ TypeOK' /\ rd \in ReaderRecords /\ QReader(rd)
  BY StepType DEF QSuccessInv, Next, TypeOK
<1>2. /\ rd' = Recv(rd, u, a) /\ up'[u] = Tail(up[u]) /\ up[u] # <<>>
      /\ \A t \in Tags \ {u} : up'[t] = up[t]
      /\ UNCHANGED <<tag, down, sessions, lost, late>>
  BY <1>1 DEF ReaderReceives, TypeOK
<1>3. QReader(rd')
  BY <1>1, <1>2 DEF Recv, QReader, ReaderRecords
<1>4. sessions # 0
  BY <1>2 DEF QSuccessInv, QUntouched
<1>5. ASSUME NEW t \in Tags PROVE Read(t)' <=> Read(t)
  BY <1>2 DEF Read, AckPending
<1>6. ReadTags' = ReadTags
  BY <1>5 DEF ReadTags
<1>7. ASSUME lost = 0, late = 0, sessions = 1
      PROVE  QCount'
  <2>1. QCount /\ QLink(u)
    BY <1>7 DEF QSuccessInv, QCount
  <2>2. up[u] \in Seq(QAnswers)
    BY <2>1 DEF QLink
  <2>3. /\ a \in QAnswers /\ a = up[u][1] /\ Tail(up[u]) \in Seq(QAnswers)
        /\ Len(Tail(up[u])) = Len(up[u]) - 1
        /\ \A i \in 1 .. Len(Tail(up[u])) : Tail(up[u])[i] = up[u][i + 1]
    BY <1>2, <2>2, HeadTailProperties
  <2>4. Len(up[u]) \in Nat \ {0}
    BY <1>2, <2>2, EmptySeq, LenProperties
  <2> HIDE DEF a
  <2>5. /\ rd'.success = rd.success /\ rd'.tagEPC = u
        /\ rd'.counter = IF a.command = "TC_REPLY" THEN 0 ELSE rd.counter + 1
    BY <1>1, <1>2, <2>3, QReceived
  <2>6. a.command # "TC_REPLY" => ~Read(u)
    <3>1. 1 \in 1 .. Len(up[u])
      BY <2>4
    <3> QED
      BY <2>1, <2>3, <3>1 DEF QLink
  <2>7. QSoleIsNew'
    BY <1>5, <2>5, <2>6 DEF QSoleIsNew
  <2>8. QLink(u)'
    <3>1. \A i \in 1 .. Len(up'[u]) : up'[u][i].command # "TC_REPLY" => ~Read(u)'
      <4>1. ASSUME NEW i \in 1 .. Len(up'[u])
            PROVE  i + 1 \in 1 .. Len(up[u]) /\ up'[u][i] = up[u][i + 1]
        BY <1>2, <2>3, <2>4
      <4> QED
        BY <1>5, <2>1, <4>1 DEF QLink
    <3>2. QPackets' = QPackets /\ QAnswers' = QAnswers
      BY DEF QPackets, QAnswers
    <3> QED
      BY <1>2, <2>1, <2>3, <3>1, <3>2 DEF QLink
  <2>9. ASSUME NEW t \in Tags \ {u} PROVE QLink(t)'
    <3>1. QLink(t) /\ QPackets' = QPackets /\ QAnswers' = QAnswers
      BY <2>1 DEF QCount, QPackets, QAnswers
    <3> QED
      BY <1>2, <1>5, <3>1 DEF QLink
  <2> QED
    BY <1>6, <2>1, <2>5, <2>7, <2>8, <2>9 DEF QCount
<1> QED
  BY <1>1, <1>2, <1>3, <1>4, <1>7 DEF QSuccessInv

LEMMA StepQSuccess ==
  ASSUME Service = "STANDARD", QSuccessInv, [Next]_vars
  PROVE  QSuccessInv'
<1>1. CASE CommandEstimation \/ CommandEdfsa \/ CommandEstimationDfsa
  BY <1>1 DEF CommandEstimation, CommandEdfsa, CommandEstimationDfsa
<1>2. CASE ColTimeout
  BY <1>2 DEF ColTimeout, QSuccessInv, QReader
<1>3. CASE CommandStandard \/ RsTimeout
  BY <1>3, CommandQSuccess, RsTimeoutQSuccess
<1>4. ASSUME NEW t \in Tags, TagReceives(t) \/ ReaderReceives(t)
      PROVE  QSuccessInv'
  BY <1>4, TagReceivesQSuccess, ReaderReceivesQSuccess
<1>5. ASSUME NEW t \in Tags, LoseDown(t) \/ LoseUp(t)
      PROVE  QSuccessInv'
  <2>1. TypeOK' /\ lost \in Nat
    BY StepType, BoundsAssumption DEF QSuccessInv, TypeOK
  <2>2. /\ lost' = lost + 1 /\ UNCHANGED <<rd, sessions>>
        /\ down[t] # <<>> \/ up[t] # <<>>
    BY <1>5 DEF LoseDown, LoseUp
  <2>3. lost' # 0 /\ sessions # 0
    BY <2>1, <2>2 DEF QSuccessInv, QUntouched
  <2> QED
    BY <2>1, <2>2, <2>3 DEF QSuccessInv
<1>6. CASE UNCHANGED vars
  <2>1. UNCHANGED <<rd, tag, down, up, sessions, lost, late>>
    BY <1>6 DEF vars
  <2>2. TypeOK'
    BY StepType DEF QSuccessInv
  <2>3. \A t \in Tags : Read(t)' <=> Read(t)
    BY <2>1 DEF Read, AckPending
  <2>4. ReadTags' = ReadTags /\ QPackets' = QPackets /\ QAnswers' = QAnswers
    BY <2>3 DEF ReadTags, QPackets, QAnswers
  <2>5. \A t \in Tags : QLink(t) => QLink(t)'
    BY <2>1, <2>3, <2>4 DEF QLink
  <2>6. QCount => QCount'
    BY <2>1, <2>3, <2>4, <2>5 DEF QCount, QSoleIsNew
  <2> QED
    BY <2>1, <2>2, <2>6 DEF QSuccessInv, QUntouched
<1> QED
  BY <1>1, <1>2, <1>3, <1>4, <1>5, <1>6 DEF Next

\* In a first session of the Q algorithm without losses and delays success_,
\* which the trace reports as the tags identified, is the number of tags that
\* know or are about to learn that they were read: start_sing() counts no tag
\* twice, takes no confirmation for an answer and no collision for a success.
THEOREM QCountsTags ==
  ASSUME Service = "STANDARD"
  PROVE  Spec => []SuccessCount
<1>1. Init => QSuccessInv
  BY InitQSuccess
<1>2. QSuccessInv /\ [Next]_vars => QSuccessInv'
  BY StepQSuccess
<1>3. QSuccessInv => SuccessCount
  BY DEF QSuccessInv, QCount, SuccessCount, ReadTags
<1> QED
  BY <1>1, <1>2, <1>3, PTL DEF Spec
===============================================================================
