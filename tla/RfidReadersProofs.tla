--------------------------- MODULE RfidReadersProofs ---------------------------
(***************************************************************************)
(* Several readers that run the Q algorithm over the same tags leave no    *)
(* tag out, for any number of readers, tags, sessions and any Q.           *)
(*                                                                         *)
(* NoTagLeftOut looks at readers that have all stopped.  What is kept      *)
(* until then is CoverInv: a tag that is not read is covered by a reader   *)
(* that has not begun, or is not at Q = -1 and so will have its round go   *)
(* on, or whose last round, opened at Q = -1, is waiting for the tag or    *)
(* has counted its answer.  Every tag that is not acknowledged answers     *)
(* such a round, so that the reader counts one answer only if it is of the *)
(* tag it is about to acknowledge.                                         *)
(***************************************************************************)
EXTENDS RfidReaders, RfidAgentProofs, SequenceTheorems

-------------------------------------------------------------------------------
\* Types.

LEMMA InitReadersType == Init => TypeOK
<1> SUFFICES ASSUME Init PROVE TypeOK
  OBVIOUS
<1>1. rd \in [Readers -> ReaderRecords]
  BY ReaderInitsType DEF Init
<1>2. tag \in [Tags -> TagRecords]
  BY DEF Init, TagInit, TagRecords, TagStates
<1>3. id \in [Tags -> Readers \cup {NoReader}]
  BY DEF Init
<1>4. down \in [Readers -> [Tags -> Seq(Headers)]] /\ up \in [Readers -> [Tags -> Seq(Replies)]]
  BY DEF Init
<1>5. sessions \in [Readers -> 0 .. MaxSessions]
  BY ReadersAssumption DEF Init
<1> QED
  BY <1>1, <1>2, <1>3, <1>4, <1>5 DEF TypeOK

LEMMA SentType ==
  ASSUME TypeOK, NEW r \in Readers, NEW t \in Tags, NEW f \in ReaderRecords
  PROVE  Sent(r, f, t) \in Seq(Headers)
<1> DEFINE u == IF f.uni.command # "NONE" /\ f.uni.tagEPC = t THEN <<f.uni>> ELSE <<>>
           b == IF f.bcast.command # "NONE" THEN <<f.bcast>> ELSE <<>>
<1>1. f.uni \in Headers /\ f.bcast \in Headers
  BY DEF ReaderRecords
<1>2. u \in Seq(Headers) /\ b \in Seq(Headers)
  BY <1>1
<1>3. down[r][t] \in Seq(Headers)
  BY DEF TypeOK
<1> HIDE DEF u, b
<1>4. (down[r][t] \o u) \o b \in Seq(Headers)
  BY <1>2, <1>3, ConcatProperties
<1> QED
  BY <1>4 DEF Sent, u, b

LEMMA ReadersEmitType ==
  ASSUME TypeOK, NEW r \in Readers, NEW f \in ReaderRecords, Emit(r, f)
  PROVE  rd' \in [Readers -> ReaderRecords] /\ down' \in [Readers -> [Tags -> Seq(Headers)]]
<1>1. [f EXCEPT !.uni = NoHeader, !.bcast = NoHeader] \in ReaderRecords
  BY NoHeaderType, UpdateLinkType
<1>2. rd' \in [Readers -> ReaderRecords]
  BY <1>1 DEF Emit, TypeOK
<1>3. [t \in Tags |-> Sent(r, f, t)] \in [Tags -> Seq(Headers)]
  BY SentType
<1> QED
  BY <1>2, <1>3 DEF Emit, TypeOK

\* A tag as a reader finds it
LEMMA ViewType ==
  ASSUME TypeOK, NEW r \in Readers, NEW t \in Tags
  PROVE  /\ View(r, t) \in TagRecords
         /\ Acknowledged(View(r, t)) <=> Acknowledged(tag[t])
<1>1. tag[t] \in TagRecords
  BY DEF TypeOK
<1>2. (id[t] = r) \in BOOLEAN
  OBVIOUS
<1> QED
  BY <1>1, <1>2 DEF View, TagRecords, Acknowledged

LEMMA ReadersTagType ==
  ASSUME TypeOK, NEW r \in Readers, NEW t \in Tags, TagReceives(r, t)
  PROVE  TypeOK'
<1> DEFINE h == Head(down[r][t])
<1>1. h \in Headers /\ Tail(down[r][t]) \in Seq(Headers)
  BY DEF TypeOK, TagReceives
<1>2. View(r, t) \in TagRecords
  BY ViewType
<1>3. PICK o \in TagRecv(t, View(r, t), h) :
        /\ tag' = [tag EXCEPT ![t] = [o.tag EXCEPT !.served = FALSE]]
        /\ id' = IF o.tag.served THEN [id EXCEPT ![t] = r] ELSE id
        /\ up' = IF o.reply = "NONE" THEN up
                 ELSE [up EXCEPT ![r][t] = Append(@,
                         [command |-> o.reply, service |-> h.service])]
  BY DEF TagReceives
<1>4. o.tag \in TagRecords /\ o.reply \in TagCommands \cup {"NONE"}
  BY <1>1, <1>2, TagRecvType DEF Outcomes
<1>5. [o.tag EXCEPT !.served = FALSE] \in TagRecords
  BY <1>4 DEF TagRecords
<1>6. tag' \in [Tags -> TagRecords] /\ id' \in [Tags -> Readers \cup {NoReader}]
  BY <1>3, <1>5 DEF TypeOK
<1>7. up' \in [Readers -> [Tags -> Seq(Replies)]]
  <2>1. ASSUME o.reply # "NONE"
        PROVE  [command |-> o.reply, service |-> h.service] \in Replies
    BY <1>1, <1>4, <2>1 DEF Replies, Headers
  <2> QED
    BY <1>3, <2>1 DEF TypeOK
<1>8. down' \in [Readers -> [Tags -> Seq(Headers)]]
  BY <1>1 DEF TagReceives, TypeOK
<1> QED
  BY <1>6, <1>7, <1>8 DEF TagReceives, TypeOK

LEMMA ReadersReceiveType ==
  ASSUME TypeOK, NEW r \in Readers, NEW t \in Tags, ReaderReceives(r, t)
  PROVE  TypeOK'
<1>1. Head(up[r][t]) \in Replies /\ Tail(up[r][t]) \in Seq(Replies)
  BY DEF TypeOK, ReaderReceives
<1>2. Recv(rd[r], t, Head(up[r][t])) \in ReaderRecords
  BY <1>1, RecvType DEF TypeOK
<1>3. rd' \in [Readers -> ReaderRecords] /\ up' \in [Readers -> [Tags -> Seq(Replies)]]
  BY <1>1, <1>2 DEF ReaderReceives, TypeOK
<1> QED
  BY <1>3 DEF ReaderReceives, TypeOK

LEMMA ReadersStepType == TypeOK /\ [Next]_vars => TypeOK'
<1> SUFFICES ASSUME TypeOK, [Next]_vars PROVE TypeOK'
  OBVIOUS
<1>1. ASSUME NEW r \in Readers, Command(r) PROVE TypeOK'
  <2>1. rd' \in [Readers -> ReaderRecords] /\ down' \in [Readers -> [Tags -> Seq(Headers)]]
    BY <1>1, CommandType, ReadersEmitType DEF Command, TypeOK
  <2>2. sessions' \in [Readers -> 0 .. MaxSessions]
    BY <1>1, ReadersAssumption DEF Command, TypeOK
  <2> QED
    BY <1>1, <2>1, <2>2 DEF Command, TypeOK
<1>2. ASSUME NEW r \in Readers, Timeout(r) PROVE TypeOK'
  <2>1. PICK f \in Expire(rd[r]) : Emit(r, f)
    BY <1>2 DEF Timeout
  <2>2. f \in ReaderRecords
    BY ExpireType DEF TypeOK
  <2>3. rd' \in [Readers -> ReaderRecords] /\ down' \in [Readers -> [Tags -> Seq(Headers)]]
    BY <2>1, <2>2, ReadersEmitType
  <2> QED
    BY <1>2, <2>3 DEF Timeout, TypeOK
<1>3. CASE UNCHANGED vars
  BY <1>3 DEF vars, TypeOK
<1> QED
  BY <1>1, <1>2, <1>3, ReadersTagType, ReadersReceiveType DEF Next

\* However many readers order tags about, the fields of each agent and the
\* packets between each reader and each tag keep their types (recv() of both
\* agents, command() and the expiry of rs_timer_).
THEOREM ReadersTypeCorrect == Spec => []TypeOK
BY InitReadersType, ReadersStepType, PTL DEF Spec

-------------------------------------------------------------------------------
\* What reader r has under way since it began the slot: a query or an
\* adjustment and the answers to it, or an acknowledgement and the broadcast
\* after it, with its confirmation and the answers to that broadcast.

Opening(r) ==
  {h \in Headers :
     QPacket(rd[r], h) /\ h.command \in {"RC_QUERY", "RC_QUERYADJUST"}}
Closing(r) ==
  {h \in Headers : QPacket(rd[r], h) /\ h.command = "RC_QUERYREPLY"}

Answers == {a \in Replies : a.service = "STANDARD"}
SlotAnswers == {a \in Answers : a.command # "TC_REPLY"}

Opened(r) ==
  /\ rd[r].qValue # -1 \/ Running(r)
  /\ \A t \in Tags : down[r][t] \in Seq(Opening(r)) /\ up[r][t] \in Seq(SlotAnswers)

Closed(r) ==
  \A t \in Tags : down[r][t] \in Seq(Closing(r)) /\ up[r][t] \in Seq(Answers)

SlotInv == \A r \in Readers : QReader(rd[r]) /\ (Opened(r) \/ Closed(r))

\* The answer of tag t has reached reader r, alone or with others.
HasCounted(r, t) ==
  rd[r].counter >= 1 /\ (rd[r].counter = 1 => rd[r].tagEPC = t)

Awaits(r, t) ==
  /\ Running(r) /\ Opened(r)
  /\ down[r][t] # <<>> \/ up[r][t] # <<>> \/ HasCounted(r, t)

Covers(r, t) == sessions[r] = 0 \/ rd[r].qValue # -1 \/ Awaits(r, t)

CoverInv == \A t \in Tags : Read(t) \/ \E r \in Readers : Covers(r, t)

ReadersInv == TypeOK /\ SlotInv /\ CoverInv

-------------------------------------------------------------------------------
\* The acknowledgements of tag t among the packets of a link
Holds(s, t) ==
  \E i \in 1 .. Len(s) : s[i].command = "RC_QUERYREPLY" /\ s[i].tagEPC = t

\* Sequences of no, one and two packets
LEMMA ShortSequences ==
  ASSUME NEW S, NEW a \in S, NEW b \in S
  PROVE  /\ <<>> \in Seq(S)
         /\ <<a>> \in Seq(S) /\ <<a>> # <<>> /\ Len(<<a>>) = 1 /\ <<a>>[1] = a
         /\ <<a, b>> \in Seq(S) /\ Len(<<a, b>>) = 2 /\ <<a, b>>[1] = a
         /\ <<>> \o <<>> = <<>> /\ <<>> \o <<a>> = <<a>> /\ <<a>> \o <<>> = <<a>>
         /\ <<a>> \o <<b>> = <<a, b>>
<1>1. <<>> \in Seq(S) /\ <<a>> \in Seq(S) /\ <<a, b>> \in Seq(S)
  OBVIOUS
<1>2. Len(<<a>>) = 1 /\ Len(<<a, b>>) = 2 /\ <<a>>[1] = a /\ <<a, b>>[1] = a
  OBVIOUS
<1>3. <<a>> # <<>>
  OBVIOUS
<1>4. <<>> \o <<>> = <<>> /\ <<>> \o <<a>> = <<a>> /\ <<a>> \o <<>> = <<a>>
  BY <1>1, ConcatEmptySeq
<1>5. <<a>> \o <<b>> = <<a, b>>
  <2> DEFINE c == <<a>> \o <<b>>
  <2>1. <<b>> \in Seq(S) /\ Len(<<b>>) = 1 /\ <<b>>[1] = b
    OBVIOUS
  <2>2. /\ c \in Seq(S) /\ Len(c) = Len(<<a>>) + Len(<<b>>)
        /\ \A i \in 1 .. Len(<<a>>) + Len(<<b>>) :
             c[i] = IF i <= Len(<<a>>) THEN <<a>>[i] ELSE <<b>>[i - Len(<<a>>)]
    BY <1>1, <2>1, ConcatProperties
  <2> HIDE DEF c
  <2>3. Len(c) = 2 /\ c[1] = a /\ c[2] = b
    BY <1>2, <2>1, <2>2
  <2>4. <<a, b>>[2] = b
    OBVIOUS
  <2>5. \A i \in 1 .. Len(c) : c[i] = <<a, b>>[i]
    BY <1>2, <2>3, <2>4
  <2>6. c = <<a, b>>
    BY <1>1, <1>2, <2>2, <2>3, <2>5, SeqEqual
  <2> QED
    BY <2>6 DEF c
<1> QED
  BY <1>1, <1>2, <1>3, <1>4, <1>5

LEMMA ReadDef ==
  ASSUME NEW t \in Tags
  PROVE  Read(t) <=> \/ Acknowledged(tag[t])
                     \/ \E r \in Readers : Holds(down[r][t], t)
BY DEF Read, Holds

LEMMA HoldsTail ==
  ASSUME NEW s \in Seq(Headers), s # <<>>, NEW t, Holds(s, t)
  PROVE  \/ Head(s).command = "RC_QUERYREPLY" /\ Head(s).tagEPC = t
         \/ Holds(Tail(s), t)
<1>1. PICK i \in 1 .. Len(s) : s[i].command = "RC_QUERYREPLY" /\ s[i].tagEPC = t
  BY DEF Holds
<1>2. Head(s) = s[1] /\ Len(s) \in Nat
  BY HeadTailProperties
<1>3. CASE i = 1
  BY <1>1, <1>2, <1>3
<1>4. CASE i # 1
  <2>1. Len(Tail(s)) = Len(s) - 1 /\ \A j \in 1 .. Len(Tail(s)) : Tail(s)[j] = s[j + 1]
    BY HeadTailProperties
  <2>2. i - 1 \in 1 .. Len(Tail(s)) /\ Tail(s)[i - 1] = s[i]
    BY <1>2, <1>4, <2>1
  <2> QED
    BY <1>1, <2>2 DEF Holds
<1> QED
  BY <1>3, <1>4

\* A step of another reader, or of its packets, changes nothing for a.
LEMMA OtherReader ==
  ASSUME NEW a \in Readers, rd'[a] = rd[a], sessions'[a] = sessions[a],
         down'[a] = down[a], up'[a] = up[a]
  PROVE  /\ Opened(a)' = Opened(a) /\ Closed(a)' = Closed(a)
         /\ \A t \in Tags : Covers(a, t)' = Covers(a, t)
<1>1. Opening(a)' = Opening(a) /\ Closing(a)' = Closing(a)
  BY DEF Opening, Closing
<1>2. SlotAnswers' = SlotAnswers /\ Answers' = Answers
  BY DEF SlotAnswers, Answers
<1>3. Running(a)' = Running(a)
  BY DEF Running
<1>4. Opened(a)' = Opened(a) /\ Closed(a)' = Closed(a)
  BY <1>1, <1>2, <1>3 DEF Opened, Closed
<1> QED
  BY <1>3, <1>4 DEF Covers, Awaits, HasCounted

LEMMA InitReaders ==
  ASSUME Service = "STANDARD", Init
  PROVE  ReadersInv
<1>1. TypeOK
  BY InitReadersType
<1>2. ASSUME NEW r \in Readers PROVE QReader(rd[r]) /\ Closed(r)
  <2>1. rd[r] \in ReaderInits
    BY DEF Init
  <2>2. QReader(rd[r])
    BY <2>1 DEF ReaderInits, QReader
  <2>3. \A t \in Tags : down[r][t] = <<>> /\ up[r][t] = <<>>
    BY DEF Init
  <2>4. \A t \in Tags : down[r][t] \in Seq(Closing(r)) /\ up[r][t] \in Seq(Answers)
    BY <2>3, EmptySeq
  <2> QED
    BY <2>2, <2>4 DEF Closed
<1>3. CoverInv
  BY ReadersAssumption DEF Init, CoverInv, Covers
<1> QED
  BY <1>1, <1>2, <1>3 DEF ReadersInv, SlotInv

\* What a reader that has nothing under way sends, and what it leaves alone.
LEMMA QuietEmit ==
  ASSUME TypeOK, NEW r \in Readers, NEW f \in ReaderRecords, Emit(r, f), Quiet(r)
  PROVE  /\ rd'[r].rs = f.rs /\ rd'[r].qValue = f.qValue
         /\ rd'[r].counter = f.counter
         /\ f.service = "STANDARD" /\ f.operation = 0 /\ f.col = "IDLE"
              => QReader(rd'[r])
         /\ \A h : QPacket(f, h) => QPacket(rd'[r], h)
         /\ \A a \in Readers \ {r} : rd'[a] = rd[a] /\ down'[a] = down[a]
         /\ \A t \in Tags :
              /\ f.uni = NoHeader /\ f.bcast = NoHeader => down'[r][t] = <<>>
              /\ f.uni = NoHeader /\ f.bcast.command # "NONE" =>
                   down'[r][t] = <<f.bcast>>
              /\ f.uni.command # "NONE" /\ f.bcast.command # "NONE" =>
                   down'[r][t] = IF f.uni.tagEPC = t THEN <<f.uni, f.bcast>>
                                                     ELSE <<f.bcast>>
<1> DEFINE g == [f EXCEPT !.uni = NoHeader, !.bcast = NoHeader]
<1>1. /\ g.rs = f.rs /\ g.qValue = f.qValue /\ g.counter = f.counter
      /\ g.service = f.service /\ g.operation = f.operation /\ g.col = f.col
      /\ g.uni = NoHeader /\ g.bcast = NoHeader
  BY DEF ReaderRecords
<1>2. rd'[r] = g /\ \A a \in Readers \ {r} : rd'[a] = rd[a]
  BY DEF Emit, TypeOK
<1>3. /\ \A t \in Tags : down'[r][t] = Sent(r, f, t)
      /\ \A a \in Readers \ {r} : down'[a] = down[a]
  BY DEF Emit, TypeOK
<1> HIDE DEF g
<1>4. ASSUME NEW t \in Tags
      PROVE  /\ f.uni = NoHeader /\ f.bcast = NoHeader => Sent(r, f, t) = <<>>
             /\ f.uni = NoHeader /\ f.bcast.command # "NONE" =>
                  Sent(r, f, t) = <<f.bcast>>
             /\ f.uni.command # "NONE" /\ f.bcast.command # "NONE" =>
                  Sent(r, f, t) = IF f.uni.tagEPC = t THEN <<f.uni, f.bcast>>
                                                      ELSE <<f.bcast>>
  <2>1. NoHeader.command = "NONE"
    BY DEF NoHeader
  <2>2. down[r][t] = <<>>
    BY DEF Quiet
  <2>3. Sent(r, f, t) =
          (<<>> \o (IF f.uni.command # "NONE" /\ f.uni.tagEPC = t THEN <<f.uni>>
                                                                  ELSE <<>>))
            \o (IF f.bcast.command # "NONE" THEN <<f.bcast>> ELSE <<>>)
    BY <2>2 DEF Sent
  <2>4. f.uni \in Headers /\ f.bcast \in Headers
    BY DEF ReaderRecords
  <2>5. /\ <<>> \o <<>> = <<>> /\ <<>> \o <<f.uni>> = <<f.uni>>
        /\ <<>> \o <<f.bcast>> = <<f.bcast>>
        /\ <<f.uni>> \o <<f.bcast>> = <<f.uni, f.bcast>>
    BY <2>4, ShortSequences
  <2> QED
    BY <2>1, <2>3, <2>5
<1> QED
  BY <1>1, <1>2, <1>3, <1>4 DEF QReader, QPacket

\* A packet that opens a frame, sent to every tag
LEMMA QuietOpens ==
  ASSUME TypeOK, NEW r \in Readers, NEW f \in ReaderRecords, Emit(r, f), Quiet(r),
         UNCHANGED up, f.uni = NoHeader, QPacket(f, f.bcast),
         f.bcast.command \in {"RC_QUERY", "RC_QUERYADJUST"},
         f.rs = "PENDING" \/ f.qValue # -1
  PROVE  Opened(r)' /\ \A t \in Tags : Covers(r, t)'
<1>1. /\ rd'[r].rs = f.rs /\ rd'[r].qValue = f.qValue
      /\ QPacket(rd'[r], f.bcast)
      /\ \A t \in Tags : down'[r][t] = <<f.bcast>>
  BY QuietEmit
<1>2. f.bcast \in Opening(r)'
  BY <1>1 DEF Opening, QPacket
<1>3. ASSUME NEW t \in Tags
      PROVE  /\ down'[r][t] \in Seq(Opening(r)') /\ down'[r][t] # <<>>
             /\ up'[r][t] \in Seq(SlotAnswers')
  <2>1. up'[r][t] = <<>> /\ <<>> \in Seq(SlotAnswers')
    BY EmptySeq DEF Quiet
  <2>2. <<f.bcast>> \in Seq(Opening(r)') /\ <<f.bcast>> # <<>>
    BY <1>2, ShortSequences
  <2> QED
    BY <1>1, <2>1, <2>2
<1>4. Opened(r)'
  BY <1>1, <1>3 DEF Opened, Running
<1>5. \A t \in Tags : down'[r][t] # <<>>
  BY <1>3
<1> QED
  BY <1>1, <1>4, <1>5 DEF Covers, Awaits, Running

LEMMA CommandReaders ==
  ASSUME ReadersInv, NEW r \in Readers, Command(r)
  PROVE  ReadersInv'
<1> DEFINE f == StandardQueryTags(rd[r])
<1>1. TypeOK /\ TypeOK'
  BY ReadersStepType DEF ReadersInv, Next
<1>2. rd[r] \in ReaderRecords /\ QReader(rd[r])
  BY DEF ReadersInv, TypeOK, SlotInv
<1>3. /\ f \in ReaderRecords
      /\ f.service = "STANDARD" /\ f.operation = 0 /\ f.col = "IDLE"
      /\ f.rs = "PENDING" /\ f.uni = NoHeader
      /\ QPacket(f, f.bcast) /\ f.bcast.command = "RC_QUERY"
  BY <1>2, StandardQueryFields
<1>4. /\ Emit(r, f) /\ Quiet(r) /\ UNCHANGED <<tag, up>>
      /\ \A a \in Readers \ {r} : sessions'[a] = sessions[a]
  BY <1>1 DEF Command, TypeOK
<1> HIDE DEF f
<1>5. Opened(r)' /\ \A t \in Tags : Covers(r, t)'
  BY <1>1, <1>3, <1>4, QuietOpens
<1>6. /\ QReader(rd'[r])
      /\ \A a \in Readers \ {r} : rd'[a] = rd[a] /\ down'[a] = down[a]
  BY <1>1, <1>3, <1>4, QuietEmit
<1>7. SlotInv'
  <2>1. ASSUME NEW a \in Readers \ {r}
        PROVE  QReader(rd'[a]) /\ (Opened(a)' \/ Closed(a)')
    <3>1. Opened(a)' = Opened(a) /\ Closed(a)' = Closed(a)
      BY <1>4, <1>6, OtherReader
    <3> QED
      BY <1>6, <3>1 DEF ReadersInv, SlotInv
  <2> QED
    BY <1>5, <1>6, <2>1 DEF SlotInv
<1> QED
  BY <1>1, <1>5, <1>7 DEF ReadersInv, CoverInv

LEMMA TimeoutReaders ==
  ASSUME ReadersInv, NEW r \in Readers, Timeout(r)
  PROVE  ReadersInv'
<1>1. TypeOK /\ TypeOK'
  BY ReadersStepType DEF ReadersInv, Next
<1>2. rd[r] \in ReaderRecords /\ QReader(rd[r])
  BY DEF ReadersInv, TypeOK, SlotInv
<1>3. PICK f \in Expire(rd[r]) : Emit(r, f)
  BY DEF Timeout
<1>4. f \in ReaderRecords /\ SlotEnds(rd[r], f)
  BY <1>2, ExpireType, QSlot
<1>5. Quiet(r) /\ UNCHANGED <<tag, up, sessions>>
  BY DEF Timeout
<1>6. /\ QReader(rd'[r])
      /\ rd'[r].qValue = f.qValue
      /\ \A h : QPacket(f, h) => QPacket(rd'[r], h)
      /\ \A a \in Readers \ {r} : rd'[a] = rd[a] /\ down'[a] = down[a]
  BY <1>1, <1>3, <1>4, <1>5, QuietEmit DEF SlotEnds
<1>7. ASSUME NEW a \in Readers \ {r}
      PROVE  /\ QReader(rd'[a]) /\ (Opened(a)' \/ Closed(a)')
             /\ \A t \in Tags : Covers(a, t)' = Covers(a, t)
  <2>1. /\ Opened(a)' = Opened(a) /\ Closed(a)' = Closed(a)
        /\ \A t \in Tags : Covers(a, t)' = Covers(a, t)
    BY <1>5, <1>6, OtherReader
  <2> QED
    BY <1>6, <2>1 DEF ReadersInv, SlotInv
<1>8. ASSUME NEW t \in Tags, Read(t)
      PROVE  Read(t)'
  <2>1. \A a \in Readers : Holds(down[a][t], t) => a # r
    BY <1>5, EmptySeq DEF Quiet, Holds
  <2> QED
    BY <1>5, <1>6, <1>8, <2>1 DEF Read, Holds
<1>9. CASE Adjusts(rd[r], f)
  <2>1. Opened(r)' /\ \A t \in Tags : Covers(r, t)'
    BY <1>1, <1>3, <1>4, <1>5, <1>9, QuietOpens DEF Adjusts
  <2>2. SlotInv' /\ CoverInv'
    BY <1>6, <1>7, <2>1 DEF SlotInv, CoverInv
  <2> QED
    BY <1>1, <2>2 DEF ReadersInv
<1>10. CASE Acknowledges(rd[r], f)
  <2>1. \A t \in Tags : down'[r][t] = IF f.uni.tagEPC = t THEN <<f.uni, f.bcast>>
                                                          ELSE <<f.bcast>>
    BY <1>1, <1>3, <1>4, <1>5, <1>10, QuietEmit DEF Acknowledges
  <2>2. f.uni \in Closing(r)' /\ f.bcast \in Closing(r)'
    BY <1>6, <1>10 DEF Acknowledges, Closing, QPacket
  <2>3. Closed(r)'
    <3>1. ASSUME NEW t \in Tags
          PROVE  down'[r][t] \in Seq(Closing(r)')
      <4>1. <<f.uni, f.bcast>> \in Seq(Closing(r)')
        BY <2>2, ShortSequences
      <4>2. <<f.bcast>> \in Seq(Closing(r)')
        BY <2>2, ShortSequences
      <4> QED
        BY <2>1, <4>1, <4>2
    <3>2. ASSUME NEW t \in Tags
          PROVE  up'[r][t] \in Seq(Answers')
      BY <1>5, EmptySeq DEF Quiet
    <3> QED
      BY <3>1, <3>2 DEF Closed
  <2>4. ASSUME NEW t \in Tags, Covers(r, t)
        PROVE  Covers(r, t)' \/ Read(t)'
    <3>1. CASE sessions[r] = 0 \/ rd[r].qValue # -1
      BY <1>5, <1>6, <1>10, <3>1 DEF Covers, Acknowledges
    <3>2. CASE Awaits(r, t)
      <4>1. rd[r].tagEPC = t
        BY <1>5, <1>10, <3>2 DEF Awaits, Quiet, HasCounted, Acknowledges
      <4>2. down'[r][t] = <<f.uni, f.bcast>>
        BY <1>10, <2>1, <4>1 DEF Acknowledges
      <4>3. Len(down'[r][t]) = 2 /\ down'[r][t][1] = f.uni
        BY <2>2, <4>2, ShortSequences
      <4>4. Holds(down'[r][t], t)
        BY <1>10, <4>1, <4>3 DEF Holds, Acknowledges
      <4> QED
        BY <4>4 DEF Read, Holds
    <3> QED
      BY <2>4, <3>1, <3>2 DEF Covers
  <2>5. SlotInv'
    BY <1>6, <1>7, <2>3 DEF SlotInv
  <2>6. CoverInv'
    BY <1>7, <1>8, <2>4 DEF CoverInv, ReadersInv
  <2> QED
    BY <1>1, <2>5, <2>6 DEF ReadersInv
<1>11. CASE Stops(rd[r], f)
  <2>1. \A t \in Tags : down'[r][t] = <<>> /\ up'[r][t] = <<>>
    BY <1>1, <1>3, <1>4, <1>5, <1>11, QuietEmit DEF Stops, Quiet
  <2>2. \A t \in Tags : down'[r][t] \in Seq(Closing(r)') /\ up'[r][t] \in Seq(Answers')
    BY <2>1, EmptySeq
  <2>3. Closed(r)'
    BY <2>2 DEF Closed
  <2>4. ASSUME NEW t \in Tags, Covers(r, t)
        PROVE  Covers(r, t)'
    <3>1. ~Awaits(r, t) /\ rd[r].qValue = -1
      BY <1>5, <1>11 DEF Awaits, Quiet, HasCounted, Stops
    <3> QED
      BY <1>5, <2>4, <3>1 DEF Covers
  <2>5. SlotInv'
    BY <1>6, <1>7, <2>3 DEF SlotInv
  <2>6. CoverInv'
    BY <1>7, <1>8, <2>4 DEF CoverInv, ReadersInv
  <2> QED
    BY <1>1, <2>5, <2>6 DEF ReadersInv
<1> QED
  BY <1>4, <1>9, <1>10, <1>11 DEF SlotEnds

\* What the step of a tag does to the packets between it and a reader
LEMMA TagStep ==
  ASSUME TypeOK, NEW r \in Readers, NEW t \in Tags, TagReceives(r, t)
  PROVE  LET h == Head(down[r][t])
         IN \E o \in TagRecv(t, View(r, t), h) :
              /\ Acknowledged(tag'[t]) <=> Acknowledged(o.tag)
              /\ \A u \in Tags \ {t} : tag'[u] = tag[u]
              /\ down'[r][t] = Tail(down[r][t])
              /\ up'[r][t] = IF o.reply = "NONE" THEN up[r][t]
                             ELSE Append(up[r][t], [command |-> o.reply,
                                                    service |-> h.service])
              /\ \A u \in Tags \ {t} : down'[r][u] = down[r][u] /\ up'[r][u] = up[r][u]
              /\ \A a \in Readers \ {r} : down'[a] = down[a] /\ up'[a] = up[a]
              /\ rd' = rd /\ sessions' = sessions
<1> DEFINE h == Head(down[r][t])
<1>1. PICK o \in TagRecv(t, View(r, t), h) :
        /\ tag' = [tag EXCEPT ![t] = [o.tag EXCEPT !.served = FALSE]]
        /\ up' = IF o.reply = "NONE" THEN up
                 ELSE [up EXCEPT ![r][t] = Append(@,
                         [command |-> o.reply, service |-> h.service])]
  BY DEF TagReceives
<1>2. o.tag \in TagRecords
  <2>1. h \in Headers
    BY HeadTailProperties DEF TagReceives, TypeOK
  <2>2. View(r, t) \in TagRecords
    BY ViewType
  <2> QED
    BY <2>1, <2>2, TagRecvType DEF Outcomes
<1>3. /\ Acknowledged(tag'[t]) <=> Acknowledged(o.tag)
      /\ \A u \in Tags \ {t} : tag'[u] = tag[u]
  BY <1>1, <1>2 DEF TypeOK, Acknowledged, TagRecords
<1>4. down' = [down EXCEPT ![r][t] = Tail(@)]
  BY DEF TagReceives
<1>5. /\ down'[r][t] = Tail(down[r][t])
      /\ \A u \in Tags \ {t} : down'[r][u] = down[r][u]
      /\ \A a \in Readers \ {r} : down'[a] = down[a]
  BY <1>4 DEF TypeOK
<1> HIDE DEF h
<1>6. CASE o.reply = "NONE"
  BY <1>1, <1>3, <1>5, <1>6 DEF TagReceives, h
<1>7. CASE o.reply # "NONE"
  <2>1. /\ up'[r][t] = Append(up[r][t], [command |-> o.reply, service |-> h.service])
        /\ \A u \in Tags \ {t} : up'[r][u] = up[r][u]
        /\ \A a \in Readers \ {r} : up'[a] = up[a]
    BY <1>1, <1>7 DEF TypeOK
  <2> QED
    BY <1>3, <1>5, <1>7, <2>1 DEF TagReceives, h
<1> QED
  BY <1>6, <1>7

LEMMA TagReceivesReaders ==
  ASSUME ReadersInv, NEW r \in Readers, NEW t \in Tags, TagReceives(r, t)
  PROVE  ReadersInv'
<1> DEFINE h == Head(down[r][t])
<1>1. TypeOK /\ TypeOK'
  BY ReadersStepType DEF ReadersInv, Next
<1>2. PICK o \in TagRecv(t, View(r, t), h) :
        /\ Acknowledged(tag'[t]) <=> Acknowledged(o.tag)
        /\ \A u \in Tags \ {t} : tag'[u] = tag[u]
        /\ down'[r][t] = Tail(down[r][t])
        /\ up'[r][t] = IF o.reply = "NONE" THEN up[r][t]
                       ELSE Append(up[r][t], [command |-> o.reply,
                                              service |-> h.service])
        /\ \A u \in Tags \ {t} : down'[r][u] = down[r][u] /\ up'[r][u] = up[r][u]
        /\ \A a \in Readers \ {r} : down'[a] = down[a] /\ up'[a] = up[a]
        /\ rd' = rd /\ sessions' = sessions
  BY <1>1, TagStep
<1>3. /\ down[r][t] \in Seq(Headers) /\ down[r][t] # <<>>
      /\ View(r, t) \in TagRecords
      /\ Acknowledged(View(r, t)) <=> Acknowledged(tag[t])
  <2>1. down[r][t] \in Seq(Headers) /\ down[r][t] # <<>>
    BY <1>1 DEF TagReceives, TypeOK
  <2> QED
    BY <1>1, <2>1, ViewType
<1>4. Opened(r) \/ Closed(r)
  BY DEF ReadersInv, SlotInv
<1>5. /\ h \in Headers /\ h.service = "STANDARD" /\ h.qValue = rd[r].qValue
      /\ h.command \in {"RC_QUERY", "RC_QUERYADJUST", "RC_QUERYREPLY"}
      /\ h.command # "RC_QUERYREPLY" => Opened(r)
      /\ Opened(r) => h.command # "RC_QUERYREPLY"
  <2>1. CASE Opened(r)
    <3>1. h \in Opening(r)
      BY <1>3, <2>1, HeadTailProperties DEF Opened
    <3> QED
      BY <2>1, <3>1 DEF Opening, QPacket
  <2>2. CASE ~Opened(r)
    <3>1. h \in Closing(r)
      BY <1>3, <1>4, <2>2, HeadTailProperties DEF Closed
    <3> QED
      BY <2>2, <3>1 DEF Closing, QPacket
  <2> QED
    BY <2>1, <2>2
<1>6. /\ o.reply \in {"NONE", "TC_REPLY", h.command}
      /\ o.reply = "TC_REPLY" => h.command = "RC_QUERYREPLY"
      /\ h.command = "RC_QUERYREPLY" /\ h.tagEPC = t => Acknowledged(tag'[t])
      /\ Acknowledged(tag[t]) /\ ~Acknowledged(tag'[t]) => h.command = "RC_QUERY"
      /\ h.command # "RC_QUERYREPLY" /\ h.qValue = -1 =>
           Acknowledged(tag'[t]) \/ o.reply = h.command
  BY <1>2, <1>3, <1>5, QTag
<1> DEFINE reply == [command |-> o.reply, service |-> h.service]
<1>7. ASSUME o.reply # "NONE"
      PROVE  /\ reply \in Answers
             /\ h.command # "RC_QUERYREPLY" => reply \in SlotAnswers
  BY <1>5, <1>6, <1>7 DEF Answers, SlotAnswers, Replies, TagCommands, Services
<1> HIDE DEF h, reply
<1>8. Opening(r)' = Opening(r) /\ Closing(r)' = Closing(r)
      /\ SlotAnswers' = SlotAnswers /\ Answers' = Answers /\ Running(r)' = Running(r)
  BY <1>2 DEF Opening, Closing, SlotAnswers, Answers, Running
<1>9. ASSUME Opened(r) PROVE Opened(r)'
  <2>1. down[r][t] \in Seq(Opening(r)) /\ up[r][t] \in Seq(SlotAnswers)
    BY <1>9 DEF Opened
  <2>2. Tail(down[r][t]) \in Seq(Opening(r))
    BY <1>3, <2>1, HeadTailProperties
  <2>3. up'[r][t] \in Seq(SlotAnswers)
    BY <1>2, <1>5, <1>7, <1>9, <2>1, AppendProperties DEF reply
  <2> QED
    BY <1>2, <1>8, <1>9, <2>2, <2>3 DEF Opened
<1>10. ASSUME Closed(r) PROVE Closed(r)'
  <2>1. down[r][t] \in Seq(Closing(r)) /\ up[r][t] \in Seq(Answers)
    BY <1>10 DEF Closed
  <2>2. Tail(down[r][t]) \in Seq(Closing(r))
    BY <1>3, <2>1, HeadTailProperties
  <2>3. up'[r][t] \in Seq(Answers)
    BY <1>2, <1>7, <2>1, AppendProperties DEF reply
  <2> QED
    BY <1>2, <1>8, <1>10, <2>2, <2>3 DEF Closed
<1>11. ASSUME NEW a \in Readers \ {r}
       PROVE  /\ Opened(a)' = Opened(a) /\ Closed(a)' = Closed(a)
              /\ \A u \in Tags : Covers(a, u)' = Covers(a, u)
  BY <1>2, OtherReader
<1>12. SlotInv'
  BY <1>2, <1>4, <1>9, <1>10, <1>11 DEF ReadersInv, SlotInv
\* Whoever makes an acknowledged tag draw again covers it.
<1>13. ASSUME o.reply # "NONE"
       PROVE  up'[r][t] # <<>>
  <2>1. up[r][t] \in Seq(Answers)
    BY <1>4, SeqMonotonic DEF Opened, Closed, SlotAnswers
  <2> QED
    BY <1>2, <1>7, <1>13, <2>1, AppendProperties DEF reply
<1>14. ASSUME Opened(r), ~Acknowledged(tag'[t])
       PROVE  Covers(r, t)'
  <2>1. CASE rd[r].qValue # -1
    BY <1>2, <2>1 DEF Covers
  <2>2. CASE rd[r].qValue = -1
    <3>1. o.reply # "NONE" /\ Running(r)
      BY <1>5, <1>6, <1>14, <2>2 DEF Opened
    <3> QED
      BY <1>8, <1>9, <1>13, <1>14, <3>1 DEF Covers, Awaits
  <2> QED
    BY <2>1, <2>2
<1>15. ASSUME NEW u \in Tags, Read(u)
       PROVE  Read(u)' \/ Covers(r, u)'
  <2>1. CASE Acknowledged(tag[u])
    <3>1. CASE u = t
      BY <1>5, <1>6, <1>14, <2>1, <3>1 DEF Read
    <3>2. CASE u # t
      BY <1>2, <2>1, <3>2 DEF Read
    <3> QED
      BY <3>1, <3>2
  <2>2. ASSUME NEW a \in Readers, Holds(down[a][u], u)
        PROVE  Read(u)'
    <3>1. CASE a # r \/ u # t
      <4>1. down'[a][u] = down[a][u]
        BY <1>2, <3>1
      <4>2. Holds(down'[a][u], u)
        BY <2>2, <4>1
      <4> QED
        BY <4>2 DEF Read, Holds
    <3>2. CASE a = r /\ u = t
      <4>1. \/ h.command = "RC_QUERYREPLY" /\ h.tagEPC = t
            \/ Holds(Tail(down[r][t]), t)
        BY <1>3, <2>2, <3>2, HoldsTail DEF h
      <4>2. Acknowledged(tag'[t]) \/ Holds(down'[r][t], t)
        BY <1>2, <1>6, <4>1
      <4> QED
        BY <3>2, <4>2 DEF Read, Holds
    <3> QED
      BY <3>1, <3>2
  <2> QED
    BY <1>15, <2>1, <2>2, ReadDef
<1>16. ASSUME NEW u \in Tags, Covers(r, u)
       PROVE  Read(u)' \/ Covers(r, u)'
  <2>1. CASE sessions[r] = 0 \/ rd[r].qValue # -1
    BY <1>2, <2>1 DEF Covers
  <2>2. CASE Awaits(r, u) /\ u # t
    BY <1>2, <1>8, <1>9, <2>2 DEF Covers, Awaits, HasCounted
  <2>3. CASE Awaits(r, u) /\ u = t
    BY <1>14, <2>3 DEF Awaits, Read
  <2> QED
    BY <1>16, <2>1, <2>2, <2>3 DEF Covers
<1>17. CoverInv'
  BY <1>11, <1>15, <1>16 DEF ReadersInv, CoverInv
<1> QED
  BY <1>1, <1>12, <1>17 DEF ReadersInv

LEMMA ReaderReceivesReaders ==
  ASSUME ReadersInv, NEW r \in Readers, NEW t \in Tags, ReaderReceives(r, t)
  PROVE  ReadersInv'
<1> DEFINE a == Head(up[r][t])
<1>1. TypeOK /\ TypeOK'
  BY ReadersStepType DEF ReadersInv, Next
<1>2. /\ rd'[r] = Recv(rd[r], t, a)
      /\ up'[r][t] = Tail(up[r][t])
      /\ \A u \in Tags \ {t} : up'[r][u] = up[r][u]
      /\ \A b \in Readers \ {r} : rd'[b] = rd[b] /\ up'[b] = up[b]
      /\ UNCHANGED <<tag, down, sessions>> /\ up[r][t] # <<>>
  BY <1>1 DEF ReaderReceives, TypeOK
<1>3. /\ rd[r] \in ReaderRecords /\ QReader(rd[r])
      /\ Opened(r) \/ Closed(r)
  BY <1>1 DEF ReadersInv, TypeOK, SlotInv
<1>4. /\ a \in Answers /\ (Opened(r) => a \in SlotAnswers)
      /\ Opened(r) => Tail(up[r][t]) \in Seq(SlotAnswers)
      /\ Closed(r) => Tail(up[r][t]) \in Seq(Answers)
  <2>1. CASE Opened(r)
    BY <1>2, <1>3, <2>1, HeadTailProperties, SeqMonotonic
    DEF Opened, Closed, SlotAnswers
  <2>2. CASE ~Opened(r)
    BY <1>2, <1>3, <2>2, HeadTailProperties DEF Closed
  <2> QED
    BY <2>1, <2>2
<1> HIDE DEF a
<1>5. a.service = "STANDARD" /\ (Opened(r) => a.command # "TC_REPLY")
  BY <1>4 DEF Answers, SlotAnswers
<1>6. /\ QReader(rd'[r]) /\ rd'[r].rs = rd[r].rs /\ rd'[r].qValue = rd[r].qValue
      /\ rd'[r].tagEPC = t
      /\ Opened(r) => rd'[r].counter = rd[r].counter + 1
  <2>1. CASE a.command # "TC_REPLY"
    <3>1. rd'[r] = [rd[r] EXCEPT !.tagEPC = t, !.counter = @ + 1]
      BY <1>2, <1>5, <2>1 DEF Recv, Counted
    <3> QED
      BY <1>3, <3>1 DEF QReader, ReaderRecords
  <2>2. CASE a.command = "TC_REPLY"
    <3>1. rd'[r] = [rd[r] EXCEPT !.tagEPC = t, !.counter = 0]
      BY <1>2, <1>5, <2>2 DEF Recv, Counted
    <3> QED
      BY <1>3, <1>5, <2>2, <3>1 DEF QReader, ReaderRecords
  <2> QED
    BY <2>1, <2>2
<1>7. /\ Opening(r)' = Opening(r) /\ Closing(r)' = Closing(r)
      /\ SlotAnswers' = SlotAnswers /\ Answers' = Answers
      /\ Running(r)' = Running(r)
  BY <1>6 DEF Opening, Closing, SlotAnswers, Answers, Running, QPacket
<1>8. ASSUME Opened(r) PROVE Opened(r)'
  BY <1>2, <1>4, <1>6, <1>7, <1>8 DEF Opened
<1>9. ASSUME Closed(r) PROVE Closed(r)'
  BY <1>2, <1>4, <1>7, <1>9 DEF Closed
<1>10. ASSUME NEW b \in Readers \ {r}
       PROVE  /\ Opened(b)' = Opened(b) /\ Closed(b)' = Closed(b)
              /\ \A u \in Tags : Covers(b, u)' = Covers(b, u)
  BY <1>2, OtherReader
<1>11. SlotInv'
  BY <1>2, <1>3, <1>6, <1>8, <1>9, <1>10 DEF ReadersInv, SlotInv
<1>12. \A u \in Tags : Read(u)' = Read(u)
  BY <1>2 DEF Read
<1>13. ASSUME NEW u \in Tags, Covers(r, u)
       PROVE  Covers(r, u)'
  <2>1. CASE sessions[r] = 0 \/ rd[r].qValue # -1
    BY <1>2, <1>6, <2>1 DEF Covers
  <2>2. CASE Awaits(r, u)
    <3>1. /\ Running(r)' /\ Opened(r)'
          /\ rd[r].counter \in Nat /\ rd'[r].counter = rd[r].counter + 1
      BY <1>3, <1>6, <1>7, <1>8, <2>2, FieldType DEF Awaits
    <3>2. CASE u = t
      BY <1>6, <3>1, <3>2 DEF Covers, Awaits, HasCounted
    <3>3. CASE u # t /\ HasCounted(r, u)
      BY <3>1, <3>3 DEF Covers, Awaits, HasCounted
    <3>4. CASE u # t /\ ~HasCounted(r, u)
      BY <1>2, <2>2, <3>1, <3>4 DEF Covers, Awaits
    <3> QED
      BY <3>2, <3>3, <3>4
  <2> QED
    BY <1>13, <2>1, <2>2 DEF Covers
<1>14. CoverInv'
  BY <1>10, <1>12, <1>13 DEF ReadersInv, CoverInv
<1> QED
  BY <1>1, <1>11, <1>14 DEF ReadersInv

LEMMA StepReaders == ReadersInv /\ [Next]_vars => ReadersInv'
<1> SUFFICES ASSUME ReadersInv, [Next]_vars PROVE ReadersInv'
  OBVIOUS
<1>1. CASE UNCHANGED vars
  <2>1. UNCHANGED <<rd, tag, down, up, sessions>>
    BY <1>1 DEF vars
  <2>2. TypeOK'
    BY ReadersStepType DEF ReadersInv
  <2>3. \A a \in Readers :
          /\ Opened(a)' = Opened(a) /\ Closed(a)' = Closed(a)
          /\ \A t \in Tags : Covers(a, t)' = Covers(a, t)
    BY <2>1, OtherReader
  <2>4. \A t \in Tags : Read(t)' = Read(t)
    BY <2>1 DEF Read
  <2> QED
    BY <2>1, <2>2, <2>3, <2>4 DEF ReadersInv, SlotInv, CoverInv
<1> QED
  BY <1>1, CommandReaders, TimeoutReaders, TagReceivesReaders,
     ReaderReceivesReaders DEF Next

(***************************************************************************)
(* Any number of readers that disturb each other leave no tag out: once    *)
(* all have ended by the rule of the Q algorithm, every tag has been       *)
(* acknowledged by one of them since it last drew a slot, whatever the     *)
(* tags draw and in whatever order the packets of different pairs arrive   *)
(* (start_sing, RfidTagAgent::recv).                                       *)
(***************************************************************************)
THEOREM ReadersMissNoTag ==
  ASSUME Service = "STANDARD"
  PROVE  Spec => []NoTagLeftOut
<1>1. Init => ReadersInv
  BY InitReaders
<1>2. ReadersInv => NoTagLeftOut
  <2> SUFFICES ASSUME ReadersInv, \A r \in Readers : Concluded(r), NEW t \in Tags
               PROVE  Read(t)
    BY DEF NoTagLeftOut
  <2>1. \A r \in Readers : ~Covers(r, t)
    BY DEF Concluded, Covers, Awaits
  <2> QED
    BY <2>1 DEF ReadersInv, CoverInv
<1> QED
  BY <1>1, <1>2, StepReaders, PTL DEF Spec
===============================================================================
