---------------------------- MODULE RfidAgentProofs ----------------------------
(***************************************************************************)
(* What the methods of the reader and of the tag do to the fields of their *)
(* agent: every one of them keeps the types, for all tags, services and    *)
(* estimation methods, one lemma per method; and what the reader and the   *)
(* tags do in the Q algorithm.                                             *)
(***************************************************************************)
EXTENDS RfidReader, RfidTag, TLAPS

-------------------------------------------------------------------------------
\* What a record of the reader's fields holds, and which updates keep it one.

LEMMA FieldType ==
  ASSUME NEW r \in ReaderRecords
  PROVE  /\ r.service \in Services /\ r.mechanism \in {0, 1}
         /\ r.estMethod \in Methods
         /\ r.qValue \in Int /\ r.Qfp \in Int /\ r.finalQ \in Int
         /\ r.counter \in Nat /\ r.tagEPC \in Tags \cup {NoTag}
         /\ r.uniqCounter \in Int /\ r.collisions \in Nat
         /\ r.success \in Nat /\ r.idle \in Nat /\ r.estCounter \in Nat
         /\ r.exact \in BOOLEAN /\ r.subQValue \in Int
         /\ r.subSlotNumber \in Nat /\ r.slotNumber \in Int
         /\ r.operation \in {0, 1, 2, 3, 4} /\ r.rebuttal \in {0, 1}
BY DEF ReaderRecords

LEMMA IncrementType ==
  ASSUME NEW r \in ReaderRecords
  PROVE  /\ r.counter + 1 \in Nat /\ r.success + 1 \in Nat
         /\ r.idle + 1 \in Nat /\ r.collisions + 1 \in Nat
         /\ r.estCounter + 1 \in Nat /\ r.subSlotNumber + 1 \in Nat
         /\ r.uniqCounter + 1 \in Int /\ r.slotNumber + 1 \in Int
         /\ r.qValue + 1 \in Int
BY FieldType

LEMMA UpdateNatType ==
  ASSUME NEW r \in ReaderRecords, NEW v \in Nat
  PROVE  /\ [r EXCEPT !.counter = v] \in ReaderRecords
         /\ [r EXCEPT !.collisions = v] \in ReaderRecords
         /\ [r EXCEPT !.success = v] \in ReaderRecords
         /\ [r EXCEPT !.idle = v] \in ReaderRecords
         /\ [r EXCEPT !.estCounter = v] \in ReaderRecords
         /\ [r EXCEPT !.subSlotNumber = v] \in ReaderRecords
BY DEF ReaderRecords

LEMMA UpdateIntType ==
  ASSUME NEW r \in ReaderRecords, NEW v \in Int
  PROVE  /\ [r EXCEPT !.qValue = v] \in ReaderRecords
         /\ [r EXCEPT !.Qfp = v] \in ReaderRecords
         /\ [r EXCEPT !.uniqCounter = v] \in ReaderRecords
         /\ [r EXCEPT !.finalQ = v] \in ReaderRecords
         /\ [r EXCEPT !.subQValue = v] \in ReaderRecords
         /\ [r EXCEPT !.slotNumber = v] \in ReaderRecords
BY DEF ReaderRecords

LEMMA UpdateChoiceType ==
  ASSUME NEW r \in ReaderRecords
  PROVE  /\ \A v \in {0, 1, 2, 3, 4} : [r EXCEPT !.operation = v] \in ReaderRecords
         /\ \A v \in Services : [r EXCEPT !.service = v] \in ReaderRecords
         /\ \A v \in Methods : [r EXCEPT !.estMethod = v] \in ReaderRecords
         /\ \A v \in {0, 1} : [r EXCEPT !.rebuttal = v] \in ReaderRecords
         /\ \A v \in BOOLEAN : [r EXCEPT !.exact = v] \in ReaderRecords
         /\ \A v \in Tags : [r EXCEPT !.tagEPC = v] \in ReaderRecords
BY DEF ReaderRecords

LEMMA UpdateLinkType ==
  ASSUME NEW r \in ReaderRecords
  PROVE  /\ \A v \in Timers : [r EXCEPT !.rs = v] \in ReaderRecords
         /\ \A v \in Timers : [r EXCEPT !.col = v] \in ReaderRecords
         /\ \A v \in Headers : [r EXCEPT !.uni = v] \in ReaderRecords
         /\ \A v \in Headers : [r EXCEPT !.bcast = v] \in ReaderRecords
BY DEF ReaderRecords

LEMMA NoHeaderType == NoHeader \in Headers
BY DEF NoHeader, Headers, Services

LEMMA ReaderInitsType == ReaderInits \subseteq ReaderRecords
<1> SUFFICES ASSUME NEW r \in ReaderInits PROVE r \in ReaderRecords
  OBVIOUS
<1>1. PICK m \in Mechanisms, e \in EstMethods : r =
        [operation |-> 0, service |-> Service, mechanism |-> m, estMethod |-> e,
         qValue |-> InitialQ, Qfp |-> InitialQfp, counter |-> 0,
         tagEPC |-> NoTag, uniqCounter |-> 1, collisions |-> 0, success |-> 0,
         idle |-> 0, estCounter |-> 1, rebuttal |-> 0, finalQ |-> 0,
         exact |-> TRUE, subQValue |-> 0, subSlotNumber |-> 0,
         slotNumber |-> 0, rs |-> "IDLE", col |-> "IDLE",
         uni |-> NoHeader, bcast |-> NoHeader]
  BY DEF ReaderInits
<1>2. m \in {0, 1} /\ e \in Methods
  BY MechanismsAssumption, MethodsAssumption
<1> QED
  BY <1>1, <1>2, NoHeaderType, ServiceAssumption, QAssumption, QfpAssumption
  DEF ReaderRecords, Timers

-------------------------------------------------------------------------------
\* The packets the reader sends are packets, and sending one keeps the types.

LEMMA HeaderType ==
  ASSUME NEW r \in ReaderRecords, NEW command \in ReaderCommands,
         NEW epc \in Tags \cup {Broadcast, NoTag},
         NEW slotNumber \in Int, NEW rep \in Int
  PROVE  Header(r, command, epc, slotNumber, rep) \in Headers
BY FieldType DEF Header, Headers

LEMMA QueryType ==
  ASSUME NEW r \in ReaderRecords, NEW slotNumber \in Int, NEW rep \in Int
  PROVE  /\ Query(r, "RC_QUERY", slotNumber, rep) \in ReaderRecords
         /\ Query(r, "RC_SING", slotNumber, rep) \in ReaderRecords
<1>1. /\ Header(r, "RC_QUERY", Broadcast, slotNumber, rep) \in Headers
      /\ Header(r, "RC_SING", Broadcast, slotNumber, rep) \in Headers
  BY HeaderType DEF ReaderCommands
<1> QED
  BY <1>1, UpdateLinkType DEF Query

LEMMA SendType ==
  ASSUME NEW r \in ReaderRecords
  PROVE  /\ SendQueryEstimate(r) \in ReaderRecords
         /\ SendQueryAjust(r) \in ReaderRecords
         /\ SendQueryReply(r) \in ReaderRecords
         /\ SendQueryReplyUpdateSlot(r) \in ReaderRecords
         /\ Finish(r) \in ReaderRecords
         /\ Resched(r) \in ReaderRecords
         /\ ReschedCol(r) \in ReaderRecords
<1>1. r.tagEPC \in Tags \cup {Broadcast, NoTag}
  BY FieldType
<1>2. ASSUME NEW c \in ReaderCommands, NEW e \in {Broadcast, r.tagEPC}
      PROVE  Header(r, c, e, 0, 0) \in Headers
  <2>1. e \in Tags \cup {Broadcast, NoTag} /\ 0 \in Int
    BY <1>1
  <2> QED
    BY <2>1, HeaderType, Zenon
<1>3. /\ Header(r, "RC_EST", Broadcast, 0, 0) \in Headers
      /\ Header(r, "RC_QUERYADJUST", Broadcast, 0, 0) \in Headers
      /\ Header(r, "RC_QUERYREPLY", r.tagEPC, 0, 0) \in Headers
      /\ Header(r, "RC_QUERYREPLY", Broadcast, 0, 0) \in Headers
      /\ Header(r, "RC_EST_FINISH", Broadcast, 0, 0) \in Headers
  BY <1>2 DEF ReaderCommands
<1> QED
  BY <1>3, UpdateLinkType
  DEF SendQueryEstimate, SendQueryAjust, SendQueryReply, Finish,
      SendQueryReplyUpdateSlot, Resched, ReschedCol, Timers

-------------------------------------------------------------------------------
\* The commands, and the answer of a tag.

LEMMA RestartType ==
  ASSUME NEW r \in ReaderRecords, NEW op \in {0, 1, 2, 3, 4}, NEW u \in Int
  PROVE  Restart(r, op, u) \in ReaderRecords
<1>1. [r EXCEPT !.operation = op, !.uniqCounter = u] \in ReaderRecords
  BY UpdateNatType, UpdateIntType, UpdateChoiceType
<1>2. [r EXCEPT !.operation = op, !.uniqCounter = u, !.estCounter = 1,
                !.collisions = 0] \in ReaderRecords
  BY <1>1, UpdateNatType, UpdateIntType, UpdateChoiceType
<1>3. [r EXCEPT !.operation = op, !.uniqCounter = u, !.estCounter = 1,
                !.collisions = 0, !.idle = 0, !.success = 0] \in ReaderRecords
  BY <1>2, UpdateNatType, UpdateIntType, UpdateChoiceType
<1> QED
  BY <1>3, UpdateChoiceType DEF Restart

LEMMA CommandType ==
  ASSUME NEW r \in ReaderRecords
  PROVE  /\ StandardQueryTags(r) \in ReaderRecords
         /\ StandardWithEstimation(r) \in ReaderRecords
         /\ EdfsaQuery(r) \in ReaderRecords
         /\ EstimationDfsaQuery(r) \in ReaderRecords
<1>1. [r EXCEPT !.operation = 0, !.success = 0] \in ReaderRecords
  BY UpdateNatType, UpdateChoiceType
<1>2. StandardQueryTags(r) \in ReaderRecords
  <2>1. 0 \in Int
    OBVIOUS
  <2>2. Query([r EXCEPT !.operation = 0, !.success = 0], "RC_QUERY", 0, 0)
          \in ReaderRecords
    BY <1>1, <2>1, QueryType, Zenon
  <2> QED
    BY <2>2, SendType DEF StandardQueryTags
<1>3. StandardWithEstimation(r) \in ReaderRecords
  BY RestartType, SendType DEF StandardWithEstimation
<1>4. EdfsaQuery(r) \in ReaderRecords
  BY RestartType, QueryType, SendType DEF EdfsaQuery
<1>5. EstimationDfsaQuery(r) \in ReaderRecords
  BY RestartType, SendType DEF EstimationDfsaQuery
<1> QED
  BY <1>2, <1>3, <1>4, <1>5

LEMMA RecvType ==
  ASSUME NEW r \in ReaderRecords, NEW t \in Tags, NEW reply \in Replies
  PROVE  Recv(r, t, reply) \in ReaderRecords
<1> DEFINE s == [r EXCEPT !.tagEPC = t]
<1>1. s \in ReaderRecords
  BY UpdateChoiceType
<1>2. s.counter \in Nat /\ s.counter + 1 \in Nat
  BY <1>1, FieldType, IncrementType
<1>3. \A v \in Nat : [s EXCEPT !.counter = v] \in ReaderRecords
  BY <1>1, UpdateNatType
<1> QED
  BY <1>2, <1>3 DEF Recv

-------------------------------------------------------------------------------
\* The Q algorithm.

LEMMA RoundQType ==
  ASSUME NEW f \in Int
  PROVE  RoundQ(f) \subseteq Int
<1>1. (2 * f + Unit) \div (2 * Unit) \in Int
  BY QfpAssumption
<1> QED
  BY <1>1 DEF RoundQ

LEMMA ClampType ==
  ASSUME NEW f \in Int
  PROVE  Clamp(f) \in Int
BY QfpAssumption, QAssumption DEF Clamp

LEMMA StartSingType ==
  ASSUME NEW r \in ReaderRecords
  PROVE  StartSing(r) \subseteq ReaderRecords
<1>1. SingIdle(r) \subseteq ReaderRecords
  <2> DEFINE f == Clamp(r.Qfp - C)
             qs == IF r.qValue = -1 THEN {-1} ELSE RoundQ(f)
  <2>1. f \in Int /\ qs \subseteq Int
    BY FieldType, ClampType, RoundQType, QfpAssumption
  <2>2. [r EXCEPT !.Qfp = f] \in ReaderRecords
    BY <2>1, UpdateIntType
  <2>3. ASSUME NEW q \in qs
        PROVE  Resched(SendQueryAjust(
                 [r EXCEPT !.Qfp = f, !.qValue = IF q = 0 THEN -1 ELSE q]))
                   \in ReaderRecords
    <3>1. (IF q = 0 THEN -1 ELSE q) \in Int
      BY <2>1
    <3>2. [r EXCEPT !.Qfp = f, !.qValue = IF q = 0 THEN -1 ELSE q]
            \in ReaderRecords
      BY <2>2, <3>1, UpdateIntType
    <3> QED
      BY <3>2, SendType
  <2> QED
    BY <2>2, <2>3 DEF SingIdle
<1>2. SingSuccess(r) \in ReaderRecords
  <2>1. [r EXCEPT !.success = @ + 1, !.counter = 0] \in ReaderRecords
    BY IncrementType, UpdateNatType
  <2> QED
    BY <2>1, SendType DEF SingSuccess
<1>3. SingCollision(r) \subseteq ReaderRecords
  <2> DEFINE f == Clamp(r.Qfp + C)
             Adjusted(q) ==
               SendQueryAjust([r EXCEPT !.Qfp = f, !.qValue = q, !.counter = 0])
  <2>1. f \in Int /\ RoundQ(f) \subseteq Int
    BY FieldType, ClampType, RoundQType, QfpAssumption
  <2>2. ASSUME NEW q \in RoundQ(f)
        PROVE  Adjusted(q) \in ReaderRecords
    <3>1. [r EXCEPT !.Qfp = f, !.qValue = q] \in ReaderRecords
      BY <2>1, UpdateNatType, UpdateIntType
    <3>2. [r EXCEPT !.Qfp = f, !.qValue = q, !.counter = 0] \in ReaderRecords
      BY <3>1, UpdateNatType, UpdateIntType
    <3> QED
      BY <3>2, SendType
  <2> QED
    BY <2>2, SendType DEF SingCollision
<1> QED
  BY <1>1, <1>2, <1>3 DEF StartSing

-------------------------------------------------------------------------------
\* DFSA, with and without sub-frames.

LEMMA NextFrameType ==
  ASSUME NEW col \in Nat, NEW method \in Methods
  PROVE  NextFrame(col, method) \subseteq Int
BY MaxRatioAssumption DEF NextFrame, EomLee, Methods

LEMMA CalculateNextQType ==
  ASSUME NEW r \in ReaderRecords, NEW col \in Nat, NEW rep \in Int
  PROVE  CalculateNextQ(r, col, rep) \subseteq ReaderRecords
<1>1. ASSUME NEW q \in NextFrame(col, r.estMethod)
      PROVE  /\ Resched(Query([r EXCEPT !.qValue = q],
                              "RC_QUERY", r.uniqCounter, 0)) \in ReaderRecords
             /\ ReschedCol(Query([r EXCEPT !.subQValue = q],
                                 "RC_QUERY", r.subSlotNumber, rep))
                  \in ReaderRecords
  <2>1. /\ q \in Int /\ 0 \in Int
        /\ r.uniqCounter \in Int /\ r.subSlotNumber \in Int
    BY FieldType, NextFrameType
  <2>2. /\ [r EXCEPT !.qValue = q] \in ReaderRecords
        /\ [r EXCEPT !.subQValue = q] \in ReaderRecords
    BY <2>1, UpdateIntType
  <2>3. Query([r EXCEPT !.qValue = q], "RC_QUERY", r.uniqCounter, 0)
          \in ReaderRecords
    BY <2>1, <2>2, QueryType, Zenon
  <2>4. Query([r EXCEPT !.subQValue = q], "RC_QUERY", r.subSlotNumber, rep)
          \in ReaderRecords
    BY <2>1, <2>2, QueryType
  <2> QED
    BY <2>3, <2>4, SendType
<1>2. Resched(Query([r EXCEPT !.uniqCounter = r.slotNumber + 1, !.counter = 0],
                    "RC_SING", r.slotNumber + 1, 0)) \in ReaderRecords
  <2>1. r.slotNumber + 1 \in Int
    BY IncrementType
  <2>2. [r EXCEPT !.uniqCounter = r.slotNumber + 1, !.counter = 0]
          \in ReaderRecords
    BY <2>1, UpdateNatType, UpdateIntType
  <2> QED
    BY <2>1, <2>2, QueryType, SendType
<1> QED
  BY <1>1, <1>2 DEF CalculateNextQ

LEMMA CountSlotType ==
  ASSUME NEW r \in ReaderRecords
  PROVE  CountSlot(r) \in ReaderRecords
<1>1. [r EXCEPT !.success = @ + 1] \in ReaderRecords
  BY IncrementType, UpdateNatType
<1>2. [r EXCEPT !.collisions = @ + 1] \in ReaderRecords
  BY IncrementType, UpdateNatType
<1>3. r.counter = 0 \/ r.counter = 1 \/ r.counter > 1
  BY FieldType
<1> QED
  BY <1>1, <1>2, <1>3, SendType DEF CountSlot

LEMMA StartEdfsaType ==
  ASSUME NEW r \in ReaderRecords
  PROVE  StartEdfsa(r) \subseteq ReaderRecords
<1> DEFINE s == CountSlot([r EXCEPT !.uniqCounter = @ + 1])
<1>1. s \in ReaderRecords
  BY IncrementType, UpdateIntType, CountSlotType
<1>2. s.uniqCounter \in Int /\ s.collisions \in Nat
  BY <1>1, FieldType
<1> HIDE DEF s
<1>3. [s EXCEPT !.counter = 0] \in ReaderRecords
  BY <1>1, UpdateNatType, UpdateIntType
<1>4. [s EXCEPT !.collisions = 0, !.counter = 0, !.uniqCounter = 1]
        \in ReaderRecords
  <2>1. [s EXCEPT !.collisions = 0, !.counter = 0] \in ReaderRecords
    BY <1>1, UpdateNatType
  <2>2. 1 \in Int
    OBVIOUS
  <2> QED
    BY <2>1, <2>2, UpdateIntType, Zenon
<1>5. Resched(Query([s EXCEPT !.counter = 0], "RC_SING", s.uniqCounter, 0))
        \in ReaderRecords
  BY <1>2, <1>3, QueryType, SendType
<1>6. CalculateNextQ([s EXCEPT !.collisions = 0, !.counter = 0,
                               !.uniqCounter = 1], s.collisions, 0)
        \subseteq ReaderRecords
  BY <1>2, <1>4, CalculateNextQType
<1> QED
  BY <1>5, <1>6 DEF StartEdfsa, s

LEMMA StartEstimationDFSAType ==
  ASSUME NEW r \in ReaderRecords
  PROVE  StartEstimationDFSA(r) \in ReaderRecords
<1> DEFINE u == r.uniqCounter
           next == [r EXCEPT !.uniqCounter = u + 1]
           s == IF r.counter = 1 THEN CountSlot(next) ELSE next
           opened == [r EXCEPT !.slotNumber = u, !.uniqCounter = r.qValue + 1,
                               !.subQValue = InitialFrame, !.subSlotNumber = 1,
                               !.counter = 0, !.collisions = 0]
<1>1. s \in ReaderRecords
  BY IncrementType, UpdateIntType, CountSlotType
<1>2. opened \in ReaderRecords
  <2>1. u \in Int /\ r.qValue + 1 \in Int /\ InitialFrame \in Int
    BY FieldType, IncrementType, EstimationAssumption
  <2>2. [r EXCEPT !.slotNumber = u, !.uniqCounter = r.qValue + 1]
          \in ReaderRecords
    BY <2>1, UpdateNatType, UpdateIntType
  <2>3. [r EXCEPT !.slotNumber = u, !.uniqCounter = r.qValue + 1,
                  !.subQValue = InitialFrame, !.subSlotNumber = 1]
          \in ReaderRecords
    BY <2>1, <2>2, UpdateNatType, UpdateIntType
  <2> QED
    BY <2>3, UpdateNatType
<1>3. u \in Int /\ s.uniqCounter \in Int
  BY <1>1, FieldType
<1> HIDE DEF s, opened
<1>4. ReschedCol(Query(opened, "RC_QUERY", 1, u)) \in ReaderRecords
  BY <1>2, <1>3, QueryType, SendType
<1>5. Resched(Query([s EXCEPT !.counter = 0], "RC_SING", s.uniqCounter, 0))
        \in ReaderRecords
  <2>1. [s EXCEPT !.counter = 0] \in ReaderRecords
    BY <1>1, UpdateNatType
  <2> QED
    BY <1>3, <2>1, QueryType, SendType
<1> QED
  BY <1>1, <1>4, <1>5 DEF StartEstimationDFSA, s, opened

LEMMA ResolveCollisionsType ==
  ASSUME NEW r \in ReaderRecords
  PROVE  ResolveCollisions(r) \subseteq ReaderRecords
<1> DEFINE s == CountSlot([r EXCEPT !.subSlotNumber = @ + 1])
<1>1. s \in ReaderRecords
  BY IncrementType, UpdateNatType, CountSlotType
<1>2. /\ s.subSlotNumber \in Int /\ s.slotNumber \in Int
      /\ s.collisions \in Nat
  BY <1>1, FieldType
<1> HIDE DEF s
<1>3. [s EXCEPT !.counter = 0] \in ReaderRecords
  BY <1>1, UpdateNatType
<1>4. [s EXCEPT !.collisions = 0, !.counter = 0, !.subSlotNumber = 1]
        \in ReaderRecords
  <2>1. [s EXCEPT !.collisions = 0, !.counter = 0] \in ReaderRecords
    BY <1>1, UpdateNatType
  <2> QED
    BY <2>1, UpdateNatType
<1>5. ReschedCol(Query([s EXCEPT !.counter = 0],
                       "RC_SING", s.subSlotNumber, s.slotNumber))
        \in ReaderRecords
  BY <1>2, <1>3, QueryType, SendType
<1>6. CalculateNextQ([s EXCEPT !.collisions = 0, !.counter = 0,
                               !.subSlotNumber = 1], s.collisions, s.slotNumber)
        \subseteq ReaderRecords
  BY <1>2, <1>4, CalculateNextQType
<1> QED
  BY <1>5, <1>6 DEF ResolveCollisions, s

-------------------------------------------------------------------------------
\* The estimation of Q.

LEMMA ResetEstType ==
  ASSUME NEW r \in ReaderRecords
  PROVE  ResetEst(r) \in ReaderRecords
<1>1. [r EXCEPT !.estCounter = 1, !.collisions = 0] \in ReaderRecords
  BY UpdateNatType
<1>2. [r EXCEPT !.estCounter = 1, !.collisions = 0, !.idle = 0, !.success = 0]
        \in ReaderRecords
  BY <1>1, UpdateNatType
<1> QED
  BY <1>2, UpdateNatType DEF ResetEst

LEMMA UpdateQType ==
  ASSUME NEW r \in ReaderRecords, NEW f \in Int
  PROVE  UpdateQ(r, f) \subseteq ReaderRecords
<1> DEFINE xs == IF f = r.Qfp THEN {r.exact} ELSE BOOLEAN
<1>1. xs \subseteq BOOLEAN
  BY FieldType
<1>2. ASSUME NEW q \in RoundQ(f), NEW x \in xs
      PROVE  [r EXCEPT !.Qfp = f, !.qValue = q, !.exact = x] \in ReaderRecords
  <2>1. q \in Int
    BY RoundQType
  <2>2. [r EXCEPT !.Qfp = f, !.qValue = q] \in ReaderRecords
    BY <2>1, UpdateIntType
  <2> QED
    BY <1>1, <2>2, UpdateChoiceType, Zenon
<1>3. \A x \in xs :
        {[r EXCEPT !.Qfp = f, !.qValue = q, !.exact = x] : q \in RoundQ(f)}
          \subseteq ReaderRecords
  BY <1>2, ZenonT(60)
<1> QED
  BY <1>3, Zenon DEF UpdateQ

LEMMA FrameOfType ==
  ASSUME NEW q \in Int
  PROVE  FrameOf(q) \in Int
BY EstimationAssumption DEF FrameOf

LEMMA FinishStartType ==
  ASSUME NEW r \in ReaderRecords
  PROVE  FinishStart(r) \in ReaderRecords
<1> DEFINE s == [r EXCEPT !.service = "EDFSA", !.estMethod = Backlog,
                          !.operation = 4, !.qValue = FrameOf(r.qValue)]
<1>1. FrameOf(r.qValue) \in Int /\ r.uniqCounter \in Int
  BY FieldType, FrameOfType
<1>2. [r EXCEPT !.service = "EDFSA", !.estMethod = Backlog] \in ReaderRecords
  BY MethodsAssumption, UpdateChoiceType DEF Services
<1>3. s \in ReaderRecords
  BY <1>1, <1>2, UpdateIntType, UpdateChoiceType
<1> HIDE DEF s
<1>4. Resched(Query(s, "RC_QUERY", r.uniqCounter, 0)) \in ReaderRecords
  BY <1>1, <1>3, QueryType, SendType
<1> QED
  BY <1>4, SendType DEF FinishStart, s

LEMMA NextGroupType ==
  ASSUME NEW r \in ReaderRecords
  PROVE  NextGroup(r) \in ReaderRecords
BY ResetEstType, SendType DEF NextGroup

LEMMA CheckRebuttalType ==
  ASSUME NEW r \in ReaderRecords
  PROVE  CheckRebuttal(r) \subseteq ReaderRecords
<1>1. FinishStart(ResetEst(r)) \in ReaderRecords
  BY ResetEstType, FinishStartType
<1>2. ASSUME NEW q \in RoundQ(r.finalQ)
      PROVE  NextGroup([r EXCEPT !.Qfp = r.finalQ, !.qValue = q, !.exact = TRUE,
                                 !.rebuttal = 0]) \in ReaderRecords
  <2>1. r.finalQ \in Int /\ q \in Int
    BY FieldType, RoundQType
  <2>2. [r EXCEPT !.Qfp = r.finalQ, !.qValue = q] \in ReaderRecords
    BY <2>1, UpdateIntType, UpdateChoiceType
  <2>3. [r EXCEPT !.Qfp = r.finalQ, !.qValue = q, !.exact = TRUE]
          \in ReaderRecords
    BY <2>2, UpdateIntType, UpdateChoiceType
  <2>4. [r EXCEPT !.Qfp = r.finalQ, !.qValue = q, !.exact = TRUE,
                  !.rebuttal = 0] \in ReaderRecords
    BY <2>3, UpdateIntType, UpdateChoiceType
  <2> QED
    BY <2>4, NextGroupType
<1> QED
  BY <1>1, <1>2 DEF CheckRebuttal

LEMMA EndOfGroupType ==
  ASSUME NEW r \in ReaderRecords
  PROVE  EndOfGroup(r) \subseteq ReaderRecords
<1> DEFINE estimates == IF r.idle = EstConstant THEN Decreased(r)
                        ELSE IF r.collisions = EstConstant THEN Increased(r)
                        ELSE {r}
<1>1. estimates \subseteq ReaderRecords
  <2>1. r.Qfp - C \in Int /\ r.Qfp + C \in Int /\ WrapQ * Unit \in Int
    BY FieldType, QAssumption, QfpAssumption
  <2>2. Decreased(r) \subseteq ReaderRecords
    BY <2>1, UpdateQType DEF Decreased
  <2>3. Increased(r) \subseteq ReaderRecords
    BY <2>1, UpdateQType DEF Increased
  <2> QED
    BY <2>2, <2>3
<1>2. ASSUME NEW q \in RoundQ(r.Qfp)
      PROVE  NextGroup([r EXCEPT !.finalQ = r.Qfp, !.rebuttal = 1, !.qValue = q])
               \in ReaderRecords
  <2>1. r.Qfp \in Int /\ q \in Int
    BY FieldType, RoundQType
  <2>2. [r EXCEPT !.finalQ = r.Qfp, !.rebuttal = 1] \in ReaderRecords
    BY <2>1, UpdateIntType, UpdateChoiceType
  <2>3. [r EXCEPT !.finalQ = r.Qfp, !.rebuttal = 1, !.qValue = q]
          \in ReaderRecords
    BY <2>1, <2>2, UpdateIntType, UpdateChoiceType
  <2> QED
    BY <2>3, NextGroupType
<1> HIDE DEF estimates
<1>3. \A e \in estimates : NextGroup(e) \in ReaderRecords
  BY <1>1, NextGroupType
<1>4. UNION {CheckRebuttal(e) : e \in estimates} \subseteq ReaderRecords
  BY <1>1, CheckRebuttalType
<1> QED
  BY <1>2, <1>3, <1>4 DEF EndOfGroup, estimates

LEMMA StartEstType ==
  ASSUME NEW r \in ReaderRecords
  PROVE  StartEst(r) \subseteq ReaderRecords
<1> DEFINE counted == CASE r.counter = 0 -> [r EXCEPT !.idle = @ + 1]
                        [] r.counter = 1 -> SendQueryReply([r EXCEPT !.success = @ + 1])
                        [] r.counter > 1 -> [r EXCEPT !.collisions = @ + 1]
           s == [counted EXCEPT !.estCounter = @ + 1]
<1>1. counted \in ReaderRecords
  <2>1. /\ [r EXCEPT !.idle = @ + 1] \in ReaderRecords
        /\ [r EXCEPT !.success = @ + 1] \in ReaderRecords
        /\ [r EXCEPT !.collisions = @ + 1] \in ReaderRecords
    BY IncrementType, UpdateNatType
  <2>2. r.counter = 0 \/ r.counter = 1 \/ r.counter > 1
    BY FieldType
  <2> QED
    BY <2>1, <2>2, SendType
<1> HIDE DEF counted
<1>2. s \in ReaderRecords
  BY <1>1, IncrementType, UpdateNatType
<1> HIDE DEF s
<1>3. EndOfGroup(s) \subseteq ReaderRecords
  BY <1>2, EndOfGroupType
<1>4. Resched(SendQueryEstimate(s)) \in ReaderRecords
  BY <1>2, SendType
<1> QED
  BY <1>3, <1>4 DEF StartEst, s, counted

LEMMA ExpireType ==
  ASSUME NEW r \in ReaderRecords
  PROVE  Expire(r) \subseteq ReaderRecords /\ ExpireCol(r) \subseteq ReaderRecords
<1>1. /\ [r EXCEPT !.rs = "IDLE"] \in ReaderRecords
      /\ [r EXCEPT !.col = "IDLE"] \in ReaderRecords
  BY UpdateLinkType DEF Timers
<1>2. r.operation \in {0, 1, 2, 3, 4}
  BY FieldType
<1>3. Expire(r) \subseteq ReaderRecords
  BY <1>1, <1>2, StartSingType, StartEstType, StartEdfsaType,
     StartEstimationDFSAType DEF Expire
<1>4. ExpireCol(r) \subseteq ReaderRecords
  BY <1>1, ResolveCollisionsType DEF ExpireCol
<1> QED
  BY <1>3, <1>4

-------------------------------------------------------------------------------
\* The tag.

LEMMA OutcomeType ==
  ASSUME NEW tg \in TagRecords
  PROVE  /\ Silent(tg) \in Outcomes
         /\ \A s, polled \in Int, cmd \in TagCommands :
              Poll(tg, s, polled, cmd) \in Outcomes
BY DEF Silent, Poll, Outcomes, TagRecords, TagStates

LEMMA TagStateType ==
  ASSUME NEW tg \in TagRecords, NEW state \in TagStates
  PROVE  [tg EXCEPT !.state = state] \in TagRecords
BY DEF TagRecords

LEMMA DrawType ==
  ASSUME NEW q \in Int
  PROVE  DrawSlot(q) \subseteq Int /\ DrawSlot2(q) \subseteq Int
BY DEF DrawSlot, DrawSlot2

LEMMA RecvStandardType ==
  ASSUME NEW t \in Tags, NEW tg \in TagRecords, NEW hdr \in Headers
  PROVE  RecvStandard(t, tg, hdr) \subseteq Outcomes
<1> DEFINE obeying == [tg EXCEPT !.served = TRUE]
<1>1. obeying \in TagRecords
  BY DEF TagRecords
<1>2. hdr.qValue \in Int /\ tg.slot - 1 \in Int /\ obeying.slot - 1 \in Int
  BY <1>1 DEF Headers, TagRecords
<1> HIDE DEF obeying
<1>3. ASSUME Redraws(tg, hdr), NEW s \in DrawSlot(hdr.qValue)
      PROVE  Poll(obeying, s, 0, hdr.command) \in Outcomes
  <2>1. hdr.command \in TagCommands
    BY <1>3 DEF Redraws, TagCommands
  <2> QED
    BY <1>1, <1>2, <2>1, DrawType, OutcomeType
<1>4. [tag |-> [obeying EXCEPT !.state = "T_ACKNOWLEDGED", !.slot = @ - 1],
       reply |-> "TC_REPLY"] \in Outcomes
  <2>1. [obeying EXCEPT !.state = "T_ACKNOWLEDGED", !.slot = @ - 1] \in TagRecords
    BY <1>1, <1>2 DEF TagRecords, TagStates
  <2> QED
    BY <2>1 DEF Outcomes, TagCommands
<1>5. /\ Silent(obeying) \in Outcomes /\ Silent(tg) \in Outcomes
      /\ Poll(obeying, tg.slot - 1, 0, "RC_QUERYREPLY") \in Outcomes
  BY <1>1, <1>2, OutcomeType DEF TagCommands
<1> QED
  BY <1>3, <1>4, <1>5 DEF RecvStandard, obeying

LEMMA RecvEbtsaType ==
  ASSUME NEW tg \in TagRecords, NEW hdr \in Headers
  PROVE  RecvEbtsa(tg, hdr) \subseteq Outcomes
<1>1. hdr.qValue \in Int
  BY DEF Headers
<1>2. \A s \in DrawSlot(hdr.qValue) : Poll(tg, s, 0, "TR_EST_REPLY") \in Outcomes
  BY <1>1, DrawType, OutcomeType DEF TagCommands
<1>3. Silent([tg EXCEPT !.state = "T_READY"]) \in Outcomes
  BY TagStateType, OutcomeType DEF TagStates
<1> QED
  BY <1>2, <1>3, OutcomeType DEF RecvEbtsa

LEMMA RecvEdfsaType ==
  ASSUME NEW tg \in TagRecords, NEW hdr \in Headers
  PROVE  RecvEdfsa(tg, hdr) \subseteq Outcomes
<1> DEFINE joined == IF hdr.reply > 0 THEN [tg EXCEPT !.memory2 = hdr.reply]
                                      ELSE tg
<1>1. hdr.qValue \in Int /\ hdr.slotNumber \in Int /\ hdr.reply \in Int
  BY DEF Headers
<1>2. joined \in TagRecords
  BY <1>1 DEF TagRecords
<1> HIDE DEF joined
<1>3. \A s \in DrawSlot2(hdr.qValue) :
        Poll(joined, s, hdr.slotNumber, "TC_REPLY") \in Outcomes
  BY <1>1, <1>2, DrawType, OutcomeType DEF TagCommands
<1>4. [tag |-> [tg EXCEPT !.state = "T_REPLY"], reply |-> "TC_REPLY"] \in Outcomes
  BY TagStateType DEF Outcomes, TagStates, TagCommands
<1>5. Silent([tg EXCEPT !.state = "T_ACKNOWLEDGED"]) \in Outcomes
  BY TagStateType, OutcomeType DEF TagStates
<1> QED
  BY <1>3, <1>4, <1>5, OutcomeType DEF RecvEdfsa, joined

LEMMA TagRecvType ==
  ASSUME NEW t \in Tags, NEW tg \in TagRecords, NEW hdr \in Headers
  PROVE  TagRecv(t, tg, hdr) \subseteq Outcomes
<1>1. hdr.service \in Services
  BY DEF Headers
<1> QED
  BY <1>1, RecvStandardType, RecvEbtsaType, RecvEdfsaType DEF TagRecv, Services

-------------------------------------------------------------------------------
\* The Q algorithm: what the end of a slot, a command and a packet do.

\* The value Q is rounded to is not negative when Qfp_ is not.
LEMMA RoundQNat ==
  ASSUME NEW f \in Nat
  PROVE  RoundQ(f) \subseteq Nat
<1> DEFINE a == 2 * f + Unit
           b == 2 * Unit
           n == a \div b
<1>1. a \in Nat /\ b \in Nat /\ a > 0 /\ b > 0
  BY QfpAssumption
<1> HIDE DEF a, b
<1>2. n \in Nat
  BY <1>1
<1>3. ASSUME a % b = 0 PROVE n # 0
  BY <1>1, <1>3
<1> HIDE DEF n
<1>4. RoundQ(f) = IF a % b = 0 THEN {n - 1, n} ELSE {n}
  BY DEF RoundQ, a, b, n
<1> QED
  BY <1>2, <1>3, <1>4

LEMMA ClampNat ==
  ASSUME NEW f \in Int
  PROVE  Clamp(f) \in Nat
BY QfpAssumption, QAssumption DEF Clamp

\* The fields of a reader that takes inventories by the Q algorithm, between
\* two events
QReader(r) ==
  /\ r.service = "STANDARD" /\ r.operation = 0 /\ r.col = "IDLE"
  /\ r.uni = NoHeader /\ r.bcast = NoHeader

\* A packet of the Q algorithm, sent by a reader with the fields r
QPacket(r, h) ==
  /\ h \in Headers /\ h.service = "STANDARD" /\ h.qValue = r.qValue

(***************************************************************************)
(* What the end of a slot does to the reader: the new fields s follow r,   *)
(* and the tags draw again, or one is acknowledged, or the round is over.  *)
(***************************************************************************)
Adjusts(r, s) ==
  /\ s.uni = NoHeader
  /\ QPacket(s, s.bcast) /\ s.bcast.command = "RC_QUERYADJUST"
  /\ s.bcast.tagEPC = Broadcast /\ s.bcast.reply = 0
  /\ s.success = r.success
  /\ \/ r.counter = 0 /\ s.rs = "PENDING"
     \/ r.counter > 1 /\ s.qValue # -1

Acknowledges(r, s) ==
  /\ r.counter = 1 /\ s.rs = "PENDING"
  /\ QPacket(s, s.uni) /\ s.uni.command = "RC_QUERYREPLY"
  /\ s.uni.tagEPC = r.tagEPC
  /\ QPacket(s, s.bcast) /\ s.bcast.command = "RC_QUERYREPLY"
  /\ s.bcast.tagEPC = Broadcast
  /\ s.qValue = r.qValue /\ s.success = r.success + 1

Stops(r, s) ==
  /\ r.counter = 0 /\ r.qValue = -1
  /\ s.rs = "IDLE" /\ s.qValue = -1 /\ s.success = r.success
  /\ s.uni = NoHeader /\ s.bcast = NoHeader

SlotEnds(r, s) ==
  /\ s.service = "STANDARD" /\ s.operation = 0 /\ s.col = "IDLE"
  /\ s.counter = 0
  /\ Adjusts(r, s) \/ Acknowledges(r, s) \/ Stops(r, s)

\* An adjustment, and a query, carry the Q of the reader that sends them.
LEMMA AdjustFields ==
  ASSUME NEW r \in ReaderRecords, QReader(r)
  PROVE  LET s == SendQueryAjust(r)
         IN /\ s \in ReaderRecords
            /\ s.service = "STANDARD" /\ s.operation = 0 /\ s.col = "IDLE"
            /\ s.counter = r.counter /\ s.rs = r.rs
            /\ s.success = r.success /\ s.qValue = r.qValue
            /\ s.uni = NoHeader
            /\ QPacket(s, s.bcast) /\ s.bcast.command = "RC_QUERYADJUST"
            /\ s.bcast.tagEPC = Broadcast /\ s.bcast.reply = 0
<1> DEFINE h == Header(r, "RC_QUERYADJUST", Broadcast, 0, 0)
           s == SendQueryAjust(r)
<1>1. h \in Headers
  BY FieldType DEF Header, Headers, ReaderCommands
<1>2. /\ h.service = "STANDARD" /\ h.qValue = r.qValue /\ h.reply = 0
      /\ h.command = "RC_QUERYADJUST" /\ h.tagEPC = Broadcast
  BY DEF Header, QReader
<1>3. s = [r EXCEPT !.bcast = h]
  BY DEF SendQueryAjust
<1> HIDE DEF h, s
<1>4. /\ s \in ReaderRecords /\ s.bcast = h
      /\ s.service = "STANDARD" /\ s.operation = 0 /\ s.col = "IDLE"
      /\ s.counter = r.counter /\ s.rs = r.rs /\ s.uni = NoHeader
      /\ s.success = r.success /\ s.qValue = r.qValue
  BY <1>1, <1>3, UpdateLinkType DEF QReader, ReaderRecords
<1> QED
  BY <1>1, <1>2, <1>4 DEF QPacket, s

LEMMA ReschedFields ==
  ASSUME NEW r \in ReaderRecords
  PROVE  /\ Resched(r) \in ReaderRecords /\ Resched(r).rs = "PENDING"
         /\ Resched(r).service = r.service /\ Resched(r).col = r.col
         /\ Resched(r).operation = r.operation
         /\ Resched(r).counter = r.counter /\ Resched(r).success = r.success
         /\ Resched(r).qValue = r.qValue
         /\ Resched(r).uni = r.uni /\ Resched(r).bcast = r.bcast
BY SendType DEF Resched, ReaderRecords

LEMMA SingIdleEnds ==
  ASSUME NEW r \in ReaderRecords, QReader(r), r.rs = "IDLE", r.counter = 0,
         NEW s \in SingIdle(r)
  PROVE  SlotEnds(r, s)
<1> DEFINE f == Clamp(r.Qfp - C)
           qs == IF r.qValue = -1 THEN {-1} ELSE RoundQ(f)
<1>1. f \in Nat
  BY FieldType, QfpAssumption, ClampNat
<1>2. PICK q \in qs :
        s = IF q = -1
              THEN [r EXCEPT !.Qfp = f]
              ELSE Resched(SendQueryAjust(
                     [r EXCEPT !.Qfp = f, !.qValue = IF q = 0 THEN -1 ELSE q]))
  BY DEF SingIdle
<1>3. q \in Int /\ (q = -1 => r.qValue = -1)
  BY <1>1, RoundQNat
<1> HIDE DEF f, qs
<1>4. CASE q = -1
  BY <1>2, <1>3, <1>4 DEF SlotEnds, Stops, QReader, ReaderRecords
<1>5. CASE q # -1
  <2> DEFINE v == IF q = 0 THEN -1 ELSE q
             g == [r EXCEPT !.Qfp = f, !.qValue = v]
  <2>1. v \in Int /\ f \in Int
    BY <1>1, <1>3
  <2>2. g \in ReaderRecords
    <3>1. [r EXCEPT !.Qfp = f] \in ReaderRecords
      BY <2>1, UpdateIntType
    <3> QED
      BY <2>1, <3>1, UpdateIntType
  <2> HIDE DEF v
  <2>3. /\ QReader(g) /\ g.counter = 0 /\ g.success = r.success
        /\ g.qValue = v
    BY <2>2 DEF QReader, ReaderRecords
  <2>4. s = Resched(SendQueryAjust(g))
    BY <1>2, <1>5 DEF v
  <2> HIDE DEF g
  <2> DEFINE a == SendQueryAjust(g)
  <2>5. /\ a \in ReaderRecords
        /\ a.service = "STANDARD" /\ a.operation = 0 /\ a.col = "IDLE"
        /\ a.counter = 0 /\ a.success = r.success /\ a.uni = NoHeader
        /\ QPacket(a, a.bcast) /\ a.bcast.command = "RC_QUERYADJUST"
        /\ a.bcast.tagEPC = Broadcast /\ a.bcast.reply = 0
    BY <2>2, <2>3, AdjustFields
  <2> HIDE DEF a
  <2>6. /\ s.rs = "PENDING" /\ s.qValue = a.qValue /\ s.bcast = a.bcast
        /\ s.service = "STANDARD" /\ s.operation = 0 /\ s.col = "IDLE"
        /\ s.counter = 0 /\ s.success = r.success /\ s.uni = NoHeader
    BY <2>4, <2>5, ReschedFields DEF a
  <2> QED
    BY <2>5, <2>6 DEF SlotEnds, Adjusts, QPacket
<1> QED
  BY <1>4, <1>5

LEMMA SingCollisionEnds ==
  ASSUME NEW r \in ReaderRecords, QReader(r), r.rs = "IDLE", r.counter > 1,
         NEW s \in SingCollision(r)
  PROVE  SlotEnds(r, s)
<1> DEFINE f == Clamp(r.Qfp + C)
           g(q) == [r EXCEPT !.Qfp = f, !.qValue = q, !.counter = 0]
<1>1. f \in Nat
  BY FieldType, QfpAssumption, ClampNat
<1>2. PICK q \in RoundQ(f) :
        s = IF q = MaxQ THEN SendQueryAjust(g(q))
                        ELSE Resched(SendQueryAjust(g(q)))
  BY DEF SingCollision
<1>3. q \in Nat
  BY <1>1, RoundQNat
<1>4. g(q) \in ReaderRecords
  <2>1. f \in Int /\ q \in Int
    BY <1>1, <1>3
  <2>2. [r EXCEPT !.Qfp = f] \in ReaderRecords
    BY <2>1, UpdateIntType
  <2>3. [r EXCEPT !.Qfp = f, !.qValue = q] \in ReaderRecords
    BY <2>1, <2>2, UpdateIntType
  <2> QED
    BY <2>3, UpdateNatType
<1> DEFINE n == g(q)
           a == SendQueryAjust(n)
<1> HIDE DEF f
<1>5. /\ n \in ReaderRecords /\ QReader(n)
      /\ n.counter = 0 /\ n.success = r.success /\ n.qValue = q
  BY <1>4 DEF QReader, ReaderRecords
<1>6. s = IF q = MaxQ THEN a ELSE Resched(a)
  BY <1>2
<1> HIDE DEF n
<1>7. /\ a \in ReaderRecords
      /\ a.service = "STANDARD" /\ a.operation = 0 /\ a.col = "IDLE"
      /\ a.counter = 0 /\ a.success = r.success /\ a.uni = NoHeader
      /\ a.qValue = q
      /\ QPacket(a, a.bcast) /\ a.bcast.command = "RC_QUERYADJUST"
      /\ a.bcast.tagEPC = Broadcast /\ a.bcast.reply = 0
  BY <1>5, AdjustFields
<1> HIDE DEF a, g
<1>8. /\ s.qValue = q /\ s.bcast = a.bcast
      /\ s.service = "STANDARD" /\ s.operation = 0 /\ s.col = "IDLE"
      /\ s.counter = 0 /\ s.success = r.success /\ s.uni = NoHeader
  BY <1>6, <1>7, ReschedFields
<1> QED
  BY <1>3, <1>7, <1>8 DEF SlotEnds, Adjusts, QPacket

LEMMA SingSuccessEnds ==
  ASSUME NEW r \in ReaderRecords, QReader(r), r.counter = 1
  PROVE  SlotEnds(r, SingSuccess(r))
<1> DEFINE g == [r EXCEPT !.success = @ + 1, !.counter = 0]
           hu == Header(g, "RC_QUERYREPLY", g.tagEPC, 0, 0)
           u == SendQueryReply(g)
           hb == Header(u, "RC_QUERYREPLY", Broadcast, 0, 0)
           b == SendQueryReplyUpdateSlot(u)
<1>1. g \in ReaderRecords
  BY IncrementType, UpdateNatType
<1>2. /\ QReader(g) /\ g.counter = 0 /\ g.success = r.success + 1
      /\ g.qValue = r.qValue /\ g.tagEPC = r.tagEPC
  BY DEF QReader, ReaderRecords
<1>3. u = [g EXCEPT !.uni = hu] /\ b = [u EXCEPT !.bcast = hb]
  BY DEF SendQueryReply, SendQueryReplyUpdateSlot
<1>4. SingSuccess(r) = Resched(b)
  BY DEF SingSuccess
<1> HIDE DEF g
<1>5. hu \in Headers
  BY <1>1, FieldType DEF Header, Headers, ReaderCommands
<1>6. /\ hu.service = "STANDARD" /\ hu.qValue = r.qValue
      /\ hu.command = "RC_QUERYREPLY" /\ hu.tagEPC = r.tagEPC
  BY <1>2 DEF Header, QReader
<1>7. /\ u \in ReaderRecords /\ u.uni = hu
      /\ u.service = "STANDARD" /\ u.operation = 0 /\ u.col = "IDLE"
      /\ u.counter = 0 /\ u.success = r.success + 1 /\ u.qValue = r.qValue
  <2> HIDE DEF hu, u
  <2> QED
    BY <1>1, <1>2, <1>3, <1>5, UpdateLinkType DEF QReader, ReaderRecords
<1>8. hb \in Headers
  BY <1>7, FieldType DEF Header, Headers, ReaderCommands
<1>9. /\ hb.service = "STANDARD" /\ hb.qValue = r.qValue
      /\ hb.command = "RC_QUERYREPLY" /\ hb.tagEPC = Broadcast
  BY <1>7 DEF Header
<1>10. /\ b \in ReaderRecords /\ b.uni = hu /\ b.bcast = hb
       /\ b.service = "STANDARD" /\ b.operation = 0 /\ b.col = "IDLE"
       /\ b.counter = 0 /\ b.success = r.success + 1 /\ b.qValue = r.qValue
  <2> HIDE DEF hb, hu, u, b
  <2>1. b = [u EXCEPT !.bcast = hb]
    BY <1>3
  <2>2. b \in ReaderRecords
    BY <1>7, <1>8, <2>1, UpdateLinkType
  <2>3. /\ b.uni = u.uni /\ b.bcast = hb /\ b.service = u.service
        /\ b.operation = u.operation /\ b.col = u.col
        /\ b.counter = u.counter /\ b.success = u.success
        /\ b.qValue = u.qValue
    BY <1>7, <2>1 DEF ReaderRecords
  <2> QED
    BY <1>7, <2>2, <2>3
<1> HIDE DEF b, hb, hu
<1> QED
  BY <1>4, <1>5, <1>6, <1>8, <1>9, <1>10, ReschedFields
  DEF SlotEnds, Acknowledges, QPacket

LEMMA QSlot ==
  ASSUME NEW r \in ReaderRecords, QReader(r), NEW s \in Expire(r)
  PROVE  SlotEnds(r, s)
<1> DEFINE fired == [r EXCEPT !.rs = "IDLE"]
<1>1. fired \in ReaderRecords
  BY UpdateLinkType DEF Timers
<1>2. /\ QReader(fired) /\ fired.rs = "IDLE" /\ fired.counter = r.counter
      /\ fired.success = r.success /\ fired.qValue = r.qValue
      /\ fired.tagEPC = r.tagEPC
  BY DEF QReader, ReaderRecords
<1>3. s \in StartSing(fired)
  BY DEF Expire, QReader
<1> HIDE DEF fired
<1>4. fired.counter = 0 \/ fired.counter = 1 \/ fired.counter > 1
  BY <1>1, FieldType
<1>5. SlotEnds(fired, s)
  BY <1>1, <1>2, <1>3, <1>4, SingIdleEnds, SingSuccessEnds, SingCollisionEnds
  DEF StartSing
<1> QED
  BY <1>2, <1>5 DEF SlotEnds, Adjusts, Acknowledges, Stops

LEMMA StandardQueryFields ==
  ASSUME NEW r \in ReaderRecords, QReader(r)
  PROVE  LET s == StandardQueryTags(r)
         IN /\ s \in ReaderRecords
            /\ s.service = "STANDARD" /\ s.operation = 0 /\ s.col = "IDLE"
            /\ s.rs = "PENDING" /\ s.counter = r.counter
            /\ s.success = 0 /\ s.qValue = r.qValue
            /\ s.uni = NoHeader
            /\ QPacket(s, s.bcast) /\ s.bcast.command = "RC_QUERY"
            /\ s.bcast.tagEPC = Broadcast /\ s.bcast.reply = 0
<1> DEFINE g == [r EXCEPT !.operation = 0, !.success = 0]
           h == Header(g, "RC_QUERY", Broadcast, 0, 0)
           q == [g EXCEPT !.bcast = h]
<1>1. g \in ReaderRecords
  BY UpdateNatType, UpdateChoiceType
<1>2. QReader(g) /\ g.counter = r.counter /\ g.success = 0 /\ g.qValue = r.qValue
  BY DEF QReader, ReaderRecords
<1>3. StandardQueryTags(r) = Resched(q)
  BY DEF StandardQueryTags, Query
<1> HIDE DEF g
<1>4. h \in Headers
  BY <1>1, FieldType DEF Header, Headers, ReaderCommands
<1>5. /\ h.service = "STANDARD" /\ h.qValue = r.qValue /\ h.reply = 0
      /\ h.command = "RC_QUERY" /\ h.tagEPC = Broadcast
  BY <1>2 DEF Header, QReader
<1> HIDE DEF h
<1>6. /\ q \in ReaderRecords /\ q.bcast = h
      /\ q.service = "STANDARD" /\ q.operation = 0 /\ q.col = "IDLE"
      /\ q.counter = r.counter /\ q.success = 0 /\ q.qValue = r.qValue
      /\ q.uni = NoHeader
  BY <1>1, <1>2, <1>4, UpdateLinkType DEF QReader, ReaderRecords
<1> HIDE DEF q
<1> QED
  BY <1>3, <1>4, <1>5, <1>6, ReschedFields DEF QPacket

\* What a tag does with a packet of the Q algorithm.
LEMMA QTag ==
  ASSUME NEW t \in Tags, NEW tg \in TagRecords, NEW h \in Headers,
         h.service = "STANDARD",
         h.command \in {"RC_QUERY", "RC_QUERYADJUST", "RC_QUERYREPLY"},
         NEW o \in TagRecv(t, tg, h)
  PROVE  /\ o.reply \in {"NONE", "TC_REPLY", h.command}
         /\ o.reply = "TC_REPLY" =>
              h.command = "RC_QUERYREPLY" /\ h.tagEPC = t
         /\ h.command = "RC_QUERYREPLY" /\ h.tagEPC = t =>
              Acknowledged(o.tag) /\ o.reply = "TC_REPLY"
         /\ Acknowledged(tg) /\ ~Acknowledged(o.tag) => h.command = "RC_QUERY"
         /\ Acknowledged(o.tag) /\ ~Acknowledged(tg) =>
              h.command = "RC_QUERYREPLY" /\ h.tagEPC = t
         /\ o.reply \notin {"NONE", "TC_REPLY"} => ~Acknowledged(o.tag)
         /\ h.command # "RC_QUERYREPLY" /\ h.qValue = -1 =>
              Acknowledged(o.tag) \/ o.reply = h.command
<1> DEFINE obeying == [tg EXCEPT !.served = TRUE]
<1>1. o \in RecvStandard(t, tg, h)
  BY DEF TagRecv
<1>2. /\ obeying \in TagRecords /\ obeying.state = tg.state
  BY DEF TagRecords
<1> HIDE DEF obeying
<1>3. CASE Redraws(tg, h)
  <2>1. PICK s \in DrawSlot(h.qValue) : o = Poll(obeying, s, 0, h.command)
    BY <1>1, <1>3 DEF RecvStandard, obeying
  <2>2. /\ ~Acknowledged(o.tag)
        /\ o.reply = IF s = 0 THEN h.command ELSE "NONE"
    BY <1>2, <2>1 DEF Poll, Silent, Acknowledged, TagRecords
  <2>3. h.command # "RC_QUERYREPLY"
    BY <1>3 DEF Redraws
  <2>4. Acknowledged(tg) => h.command = "RC_QUERY"
    BY <1>3 DEF Redraws
  <2>5. h.qValue = -1 => s = 0
    BY <2>1 DEF DrawSlot
  <2> QED
    BY <2>2, <2>3, <2>4, <2>5
<1>4. CASE /\ ~Redraws(tg, h)
           /\ h.command = "RC_QUERYREPLY" /\ h.tagEPC = t
  <2>1. o = [tag |-> [obeying EXCEPT !.state = "T_ACKNOWLEDGED", !.slot = @ - 1],
             reply |-> "TC_REPLY"]
    BY <1>1, <1>4 DEF RecvStandard, obeying
  <2>2. o.reply = "TC_REPLY" /\ Acknowledged(o.tag)
    BY <1>2, <2>1 DEF Acknowledged, TagRecords
  <2> QED
    BY <1>4, <2>2
<1>5. CASE /\ ~Redraws(tg, h)
           /\ ~(h.command = "RC_QUERYREPLY" /\ h.tagEPC = t)
           /\ h.command = "RC_QUERYREPLY" /\ h.tagEPC = Broadcast /\ tg.slot > 0
  <2>1. o = IF Acknowledged(tg) THEN Silent(obeying)
            ELSE Poll(obeying, tg.slot - 1, 0, h.command)
    BY <1>1, <1>5 DEF RecvStandard, obeying
  <2>2. CASE Acknowledged(tg)
    BY <1>2, <1>5, <2>1, <2>2 DEF Silent, Acknowledged
  <2>3. CASE ~Acknowledged(tg)
    <3>1. /\ ~Acknowledged(o.tag)
          /\ o.reply \in {"NONE", h.command}
      BY <1>2, <2>1, <2>3 DEF Poll, Silent, Acknowledged, TagRecords
    <3> QED
      BY <1>5, <2>3, <3>1
  <2> QED
    BY <2>2, <2>3
<1>6. CASE /\ ~Redraws(tg, h)
           /\ ~(h.command = "RC_QUERYREPLY" /\ h.tagEPC = t)
           /\ ~(/\ h.command = "RC_QUERYREPLY"
                /\ h.tagEPC = Broadcast /\ tg.slot > 0)
  <2>1. o = Silent(tg)
    BY <1>1, <1>6 DEF RecvStandard
  <2>2. o.tag = tg /\ o.reply = "NONE"
    BY <2>1 DEF Silent
  <2>3. h.command # "RC_QUERYREPLY" => Acknowledged(tg)
    BY <1>6 DEF Redraws
  <2> QED
    BY <1>6, <2>2, <2>3
<1> QED
  BY <1>3, <1>4, <1>5, <1>6
===============================================================================
