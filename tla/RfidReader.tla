------------------------------ MODULE RfidReader ------------------------------
(***************************************************************************)
(* Agent/RfidReader: the inventory procedures a scenario starts with a Tcl *)
(* command.  operation_ says which one is under way:                       *)
(*   0  standard-query-tags, the Q algorithm of EPC Gen-2                  *)
(*   1  standard-with-estimation, which only estimates Q                   *)
(*   2  edfsa-query, dynamic framed slotted ALOHA (DFSA)                   *)
(*   3  estimation-dfsa-query, which estimates Q and goes on as            *)
(*   4  DFSA that resolves each collision at once in sub-frames.           *)
(* All are driven by timers: the reader sends a query, counts in counter_  *)
(* the answers that arrive during t2_, and decides when rs_timer_, or in a *)
(* sub-frame col_timer_, expires.                                          *)
(*                                                                         *)
(* Each operator is a method of the class on a record r of its fields; one *)
(* whose result r does not determine gives the set of results.  uni and    *)
(* bcast are the packets the current event has sent: never more than one   *)
(* acknowledgement and, after it, one broadcast.                           *)
(*                                                                         *)
(* Left out, because they only feed the trace file: slotCounter_,          *)
(* slotEstCounter_, total_, bigQ_, session_, rng16_, suc_; idle_ outside   *)
(* the estimation; collisions_ and uniqCounter_ during the Q algorithm;    *)
(* tagIP_, always the address of the tag in tagEPC_.                       *)
(***************************************************************************)
EXTENDS RfidPacket

CONSTANTS
  Service,       \* service_, which the scenario sets to match its commands
  Mechanisms,    \* the values mechanism_ may be given
  EstMethods,    \* the values estMethod_ may be given
  Backlog,       \* backlog_, the method that replaces estMethod_ in operation 4
  InitialQ,      \* qValue_ as the scenario sets it
  InitialQfp,    \* Qfp_ as the scenario sets it, in units of 1/Unit
  C,             \* c_, in units of 1/Unit (3 and 10 for the default 0.3)
  Unit,
  MaxQ,          \* the largest Q, 15 in the code
  WrapQ,         \* the Q the estimation goes back to beyond it, 4 in the code
  EstConstant,   \* estConstant_, the slots in a group of the estimation
  Multiplier,    \* frameMultiplier_, in hundredths
  InitialFrame,  \* initialFrameSize_, the size of a first sub-frame
  MaxRatio       \* the largest frame eomlee() returns, per collision

\* the methods calculate_next_Q() knows
Methods == {0, 1, 2, 3, 4}

ASSUME ServiceAssumption == Service \in Services
ASSUME MechanismsAssumption == Mechanisms \subseteq {0, 1}
ASSUME MethodsAssumption == EstMethods \subseteq Methods /\ Backlog \in Methods
ASSUME QAssumption ==
  /\ InitialQ \in Int
  /\ Service = "EDFSA" => InitialQ >= 1
  /\ MaxQ \in Nat \ {0}
  /\ WrapQ \in Nat
ASSUME QfpAssumption == InitialQfp \in Nat /\ C \in Nat /\ Unit \in Nat \ {0}
ASSUME EstimationAssumption ==
  /\ EstConstant \in Nat \ {0} /\ InitialFrame \in Nat \ {0}
  /\ Multiplier \in Nat /\ Multiplier < 100
ASSUME MaxRatioAssumption == MaxRatio \in Nat /\ MaxRatio >= 2

Timers == {"IDLE", "PENDING"}

ReaderRecords ==
  [operation : {0, 1, 2, 3, 4}, service : Services, mechanism : {0, 1},
   estMethod : Methods, qValue : Int, Qfp : Int, counter : Nat,
   tagEPC : Tags \cup {NoTag}, uniqCounter : Int, collisions : Nat,
   success : Nat, idle : Nat, estCounter : Nat, rebuttal : {0, 1},
   finalQ : Int, exact : BOOLEAN, subQValue : Int, subSlotNumber : Nat,
   slotNumber : Int, rs : Timers, col : Timers, uni : Headers, bcast : Headers]

NoHeader ==
  [command |-> "NONE", service |-> "STANDARD", qValue |-> 0, tagEPC |-> NoTag,
   slotNumber |-> 0, reply |-> 0, mechanism |-> 0]

\* RfidReaderAgent(), once the scenario has set the bound variables.  exact
\* says that Qfp_, a double, has a value that finalQ_, a float, can hold.
ReaderInits ==
  {[operation |-> 0, service |-> Service, mechanism |-> m, estMethod |-> e,
    qValue |-> InitialQ, Qfp |-> InitialQfp, counter |-> 0, tagEPC |-> NoTag,
    uniqCounter |-> 1, collisions |-> 0, success |-> 0, idle |-> 0,
    estCounter |-> 1, rebuttal |-> 0, finalQ |-> 0, exact |-> TRUE,
    subQValue |-> 0, subSlotNumber |-> 0, slotNumber |-> 0,
    rs |-> "IDLE", col |-> "IDLE", uni |-> NoHeader, bcast |-> NoHeader] :
     m \in Mechanisms, e \in EstMethods}

-------------------------------------------------------------------------------
\* Sending: the packet joins the ones the event has sent.

Header(r, command, epc, slotNumber, rep) ==
  [command |-> command, service |-> r.service,
   qValue |-> IF rep = 0 THEN r.qValue ELSE r.subQValue,
   tagEPC |-> epc, slotNumber |-> slotNumber, reply |-> rep,
   mechanism |-> r.mechanism]

Query(r, command, slotNumber, rep) ==
  [r EXCEPT !.bcast = Header(r, command, Broadcast, slotNumber, rep)]

SendQueryEstimate(r) ==
  [r EXCEPT !.bcast = Header(r, "RC_EST", Broadcast, 0, 0)]

SendQueryAjust(r) ==
  [r EXCEPT !.bcast = Header(r, "RC_QUERYADJUST", Broadcast, 0, 0)]

\* Mutant: the acknowledgement carries RC_ACK, Gen-2's name for it.
SendQueryReplyAsAck(r) ==
  [r EXCEPT !.uni = Header(r, "RC_ACK", r.tagEPC, 0, 0)]

SendQueryReply(r) ==
  [r EXCEPT !.uni = Header(r, "RC_QUERYREPLY", r.tagEPC, 0, 0)]

SendQueryReplyUpdateSlot(r) ==
  [r EXCEPT !.bcast = Header(r, "RC_QUERYREPLY", Broadcast, 0, 0)]

\* finish(): the round value of finalQ_ the packet carries is for the trace.
Finish(r) ==
  [r EXCEPT !.bcast = Header(r, "RC_EST_FINISH", Broadcast, 0, 0)]

\* rs_timer_.resched(t2_): a pending timer is cancelled and starts afresh.
Resched(r) == [r EXCEPT !.rs = "PENDING"]

\* col_timer_.resched(t2_)
ReschedCol(r) == [r EXCEPT !.col = "PENDING"]

-------------------------------------------------------------------------------
\* command(): what the scenario orders.  No command touches counter_ or stops
\* col_timer_.

\* What the commands of the estimation and of DFSA start from
Restart(r, operation, uniqCounter) ==
  [r EXCEPT !.operation = operation, !.uniqCounter = uniqCounter,
            !.estCounter = 1, !.collisions = 0, !.idle = 0, !.success = 0,
            !.rebuttal = 0]

StandardQueryTags(r) ==
  Resched(Query([r EXCEPT !.operation = 0, !.success = 0], "RC_QUERY", 0, 0))

StandardWithEstimation(r) == Resched(SendQueryEstimate(Restart(r, 1, 0)))

EdfsaQuery(r) == Resched(Query(Restart(r, 2, 1), "RC_QUERY", 1, 0))

EstimationDfsaQuery(r) == Resched(SendQueryEstimate(Restart(r, 3, 1)))

-------------------------------------------------------------------------------
\* recv(), for the answer of tag t.  In the Q algorithm a TC_REPLY confirms
\* an acknowledgement; in DFSA it is the answer to a poll.

Counted(reply) ==
  CASE reply.service = "STANDARD" -> reply.command # "TC_REPLY"
    [] reply.service = "EBTSA" -> reply.command = "TR_EST_REPLY"
    [] reply.service = "EDFSA" -> reply.command = "TC_REPLY"

\* Mutant: DFSA takes TC_REPLY for a confirmation, as the Q algorithm does.
RecvConfirms(r, t, reply) ==
  [r EXCEPT !.tagEPC = t,
            !.counter = IF reply.command = "TC_REPLY" THEN 0 ELSE @ + 1]

Recv(r, t, reply) ==
  [r EXCEPT !.tagEPC = t,
            !.counter = IF Counted(reply) THEN @ + 1
                        ELSE IF reply.service = "STANDARD" THEN 0 ELSE @]

-------------------------------------------------------------------------------
(***************************************************************************)
(* start_sing(): one slot of the Q algorithm has ended.                    *)
(*                                                                         *)
(* round(Qfp_): exactly halfway between two integers the last bit of the   *)
(* accumulated Qfp_ decides, so either neighbour may come out.             *)
(***************************************************************************)
RoundQ(f) ==
  LET n == (2 * f + Unit) \div (2 * Unit)
  IN IF (2 * f + Unit) % (2 * Unit) = 0 THEN {n - 1, n} ELSE {n}

Clamp(f) == IF f < 0 THEN 0 ELSE IF f > MaxQ * Unit THEN MaxQ * Unit ELSE f

\* No answer: Q shrinks; below 0 the round is over.
\* Mutant: the round ends at Q = 0, without a last adjustment for all tags.
SingIdleAtZero(r) ==
  LET f  == Clamp(r.Qfp - C)
      qs == IF r.qValue = -1 THEN {-1} ELSE RoundQ(f)
  IN {IF q <= 0
        THEN [r EXCEPT !.Qfp = f, !.qValue = -1]
        ELSE Resched(SendQueryAjust([r EXCEPT !.Qfp = f, !.qValue = q])) : q \in qs}

SingIdle(r) ==
  LET f  == Clamp(r.Qfp - C)
      qs == IF r.qValue = -1 THEN {-1} ELSE RoundQ(f)
  IN {IF q = -1
        THEN [r EXCEPT !.Qfp = f]
        ELSE Resched(SendQueryAjust(
               [r EXCEPT !.Qfp = f, !.qValue = IF q = 0 THEN -1 ELSE q])) : q \in qs}

\* One answer: acknowledge it, and let the other tags count their slot down.
\* Mutant: the tag is counted but never told.
SingSuccessNoAck(r) ==
  Resched(SendQueryReplyUpdateSlot([r EXCEPT !.success = @ + 1, !.counter = 0]))

SingSuccess(r) ==
  Resched(SendQueryReplyUpdateSlot(SendQueryReply(
    [r EXCEPT !.success = @ + 1, !.counter = 0])))

\* Several answers: Q grows; at the largest Q the reader does not go on.
\* Mutant: Q shrinks, as after an idle slot.
SingCollisionShrinks(r) ==
  LET f == Clamp(r.Qfp - C)
  IN {Resched(SendQueryAjust([r EXCEPT !.Qfp = f, !.qValue = q, !.counter = 0])) :
        q \in RoundQ(f)}

SingCollision(r) ==
  LET f == Clamp(r.Qfp + C)
      Adjusted(q) ==
        SendQueryAjust([r EXCEPT !.Qfp = f, !.qValue = q, !.counter = 0])
  IN {IF q = MaxQ THEN Adjusted(q) ELSE Resched(Adjusted(q)) : q \in RoundQ(f)}

StartSing(r) ==
  IF r.counter = 0 THEN SingIdle(r)
  ELSE IF r.counter = 1 THEN {SingSuccess(r)}
  ELSE SingCollision(r)

-------------------------------------------------------------------------------
(***************************************************************************)
(* eomlee(): a fixpoint iteration in floating point, which returns between *)
(* 2 and MaxRatio times the collisions when it converges.                  *)
(***************************************************************************)
EomLee(col) == (2 * col) .. (MaxRatio * col)

\* calculate_next_Q(): the size of the next frame, by the method chosen.
\* Mutant: a slot for each collision, not for each tag that collided.
NextFrameTight(col, method) == {col}

NextFrame(col, method) ==
  CASE method = 0 -> {2 * col}
    [] method = 1 -> {(239 * col + 50) \div 100}
    [] method = 2 -> EomLee(col)
    [] method = 3 -> {(245 * col) \div 100}
    [] method = 4 -> {(262 * col) \div 100}

\* Without collisions the inventory ends, or the frame that was interrupted
\* to resolve slot rep goes on with the slot after it.
CalculateNextQ(r, col, rep) ==
  IF col > 0 /\ rep = 0
    THEN {Resched(Query([r EXCEPT !.qValue = q], "RC_QUERY", r.uniqCounter, 0)) :
            q \in NextFrame(col, r.estMethod)}
  ELSE IF col > 0
    THEN {ReschedCol(Query([r EXCEPT !.subQValue = q],
                           "RC_QUERY", r.subSlotNumber, rep)) :
            q \in NextFrame(col, r.estMethod)}
  ELSE IF rep # 0
    THEN {Resched(Query([r EXCEPT !.uniqCounter = r.slotNumber + 1, !.counter = 0],
                        "RC_SING", r.slotNumber + 1, 0))}
  ELSE {r}

\* start_edfsa(): one slot of a frame has ended.
\* Mutant: every slot with an answer counts as a success.
CountSlotAnswered(r) ==
  CASE r.counter = 0 -> r
    [] r.counter = 1 -> SendQueryReply([r EXCEPT !.success = @ + 1])
    [] r.counter > 1 -> [r EXCEPT !.success = @ + 1, !.collisions = @ + 1]

CountSlot(r) ==
  CASE r.counter = 0 -> r
    [] r.counter = 1 -> SendQueryReply([r EXCEPT !.success = @ + 1])
    [] r.counter > 1 -> [r EXCEPT !.collisions = @ + 1]

\* Mutant: the last slot of a frame is never polled.
StartEdfsaShort(r) ==
  LET s == CountSlot([r EXCEPT !.uniqCounter = @ + 1])
  IN IF s.uniqCounter < s.qValue
       THEN {Resched(Query([s EXCEPT !.counter = 0], "RC_SING", s.uniqCounter, 0))}
       ELSE CalculateNextQ(
              [s EXCEPT !.collisions = 0, !.counter = 0, !.uniqCounter = 1],
              s.collisions, 0)

\* Mutant: counter_ is reset between frames only.
StartEdfsaNoReset(r) ==
  LET s == CountSlot([r EXCEPT !.uniqCounter = @ + 1])
  IN IF s.uniqCounter <= s.qValue
       THEN {Resched(Query(s, "RC_SING", s.uniqCounter, 0))}
       ELSE CalculateNextQ(
              [s EXCEPT !.collisions = 0, !.counter = 0, !.uniqCounter = 1],
              s.collisions, 0)

StartEdfsa(r) ==
  LET s == CountSlot([r EXCEPT !.uniqCounter = @ + 1])
  IN IF s.uniqCounter <= s.qValue
       THEN {Resched(Query([s EXCEPT !.counter = 0], "RC_SING", s.uniqCounter, 0))}
       ELSE CalculateNextQ(
              [s EXCEPT !.collisions = 0, !.counter = 0, !.uniqCounter = 1],
              s.collisions, 0)

-------------------------------------------------------------------------------
\* start_estimationDFSA(): like start_edfsa(), but a collision opens a
\* sub-frame for the tags of the slot, and nothing is reset at the end.
StartEstimationDFSA(r) ==
  LET u == r.uniqCounter
      next == [r EXCEPT !.uniqCounter = u + 1]
      s == IF r.counter = 1 THEN CountSlot(next) ELSE next
  IN IF r.counter > 1
       THEN ReschedCol(Query(
              [r EXCEPT !.slotNumber = u, !.uniqCounter = r.qValue + 1,
                        !.subQValue = InitialFrame, !.subSlotNumber = 1,
                        !.counter = 0, !.collisions = 0],
              "RC_QUERY", 1, u))
     ELSE IF s.uniqCounter <= s.qValue
       THEN Resched(Query([s EXCEPT !.counter = 0], "RC_SING", s.uniqCounter, 0))
     ELSE s

\* resolve_collisions(): one slot of a sub-frame has ended.
\* Mutant: the last slot of a sub-frame is never polled.
ResolveCollisionsShort(r) ==
  LET s == CountSlot([r EXCEPT !.subSlotNumber = @ + 1])
  IN IF s.subSlotNumber < s.subQValue
       THEN {ReschedCol(Query([s EXCEPT !.counter = 0],
                              "RC_SING", s.subSlotNumber, s.slotNumber))}
       ELSE CalculateNextQ(
              [s EXCEPT !.collisions = 0, !.counter = 0, !.subSlotNumber = 1],
              s.collisions, s.slotNumber)

ResolveCollisions(r) ==
  LET s == CountSlot([r EXCEPT !.subSlotNumber = @ + 1])
  IN IF s.subSlotNumber <= s.subQValue
       THEN {ReschedCol(Query([s EXCEPT !.counter = 0],
                              "RC_SING", s.subSlotNumber, s.slotNumber))}
       ELSE CalculateNextQ(
              [s EXCEPT !.collisions = 0, !.counter = 0, !.subSlotNumber = 1],
              s.collisions, s.slotNumber)

-------------------------------------------------------------------------------
(***************************************************************************)
(* The estimation of Q: groups of EstConstant slots, each a query that     *)
(* every tag answers with probability 1/2^Q.  counter_ goes on counting    *)
(* through a group.  A group that is neither all idle nor all collisions   *)
(* gives an estimate, which a second group, the rebuttal, has to confirm.  *)
(***************************************************************************)
ResetEst(r) ==
  [r EXCEPT !.estCounter = 1, !.collisions = 0, !.idle = 0, !.success = 0,
            !.counter = 0]

\* update_Q(): adding c_ gives a value that, as a rule, no float holds.
UpdateQ(r, f) ==
  UNION {{[r EXCEPT !.Qfp = f, !.qValue = q, !.exact = x] : q \in RoundQ(f)} :
           x \in IF f = r.Qfp THEN {r.exact} ELSE BOOLEAN}

Decreased(r) == UpdateQ(r, r.Qfp - C)
Increased(r) == UpdateQ(r, IF r.Qfp + C > MaxQ * Unit THEN WrapQ * Unit
                                                      ELSE r.Qfp + C)

\* round(pow(2,qValue_)*frameMultiplier_), which is below a half for Q < 0
FrameOf(q) == IF q >= 0 THEN (2^(q + 1) * Multiplier + 100) \div 200 ELSE 0

FinishStart(r) ==
  IF r.estMethod = 4 THEN Finish(r)
  ELSE IF r.estMethod = 3
    THEN Resched(Query([r EXCEPT !.service = "EDFSA", !.estMethod = Backlog,
                                 !.operation = 4, !.qValue = FrameOf(r.qValue)],
                       "RC_QUERY", r.uniqCounter, 0))
  ELSE r

NextGroup(r) == Resched(SendQueryEstimate(ResetEst(r)))

\* finalQ_ = Qfp_ compares the estimate, rounded to a float, with the double.
CheckRebuttal(r) ==
  IF r.finalQ = r.Qfp /\ r.exact
    THEN {FinishStart(ResetEst(r))}
    ELSE {NextGroup([r EXCEPT !.Qfp = r.finalQ, !.qValue = q, !.exact = TRUE,
                              !.rebuttal = 0]) : q \in RoundQ(r.finalQ)}

EndOfGroup(r) ==
  LET allIdle == r.idle = EstConstant
      allCollide == r.collisions = EstConstant
      estimates == IF allIdle THEN Decreased(r)
                   ELSE IF allCollide THEN Increased(r)
                   ELSE {r}
  IN IF r.rebuttal = 1 THEN UNION {CheckRebuttal(e) : e \in estimates}
     ELSE IF allIdle \/ allCollide THEN {NextGroup(e) : e \in estimates}
     ELSE {NextGroup([r EXCEPT !.finalQ = r.Qfp, !.rebuttal = 1, !.qValue = q]) :
             q \in RoundQ(r.Qfp)}

StartEst(r) ==
  LET counted == CASE r.counter = 0 -> [r EXCEPT !.idle = @ + 1]
                   [] r.counter = 1 -> SendQueryReply([r EXCEPT !.success = @ + 1])
                   [] r.counter > 1 -> [r EXCEPT !.collisions = @ + 1]
      s == [counted EXCEPT !.estCounter = @ + 1]
  IN IF s.estCounter = EstConstant + 1 THEN EndOfGroup(s)
                                       ELSE {Resched(SendQueryEstimate(s))}

-------------------------------------------------------------------------------
\* RetransmitTimer::expire and CollisionsTimer::expire.  A TimerHandler is
\* idle again once expire returns, unless expire has rescheduled it.
Expire(r) ==
  LET fired == [r EXCEPT !.rs = "IDLE"]
  IN CASE r.operation = 0 -> StartSing(fired)
       [] r.operation \in {1, 3} -> StartEst(fired)
       [] r.operation = 2 -> StartEdfsa(fired)
       [] r.operation = 4 -> {StartEstimationDFSA(fired)}

ExpireCol(r) == ResolveCollisions([r EXCEPT !.col = "IDLE"])
===============================================================================
