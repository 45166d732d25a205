----------------------------- MODULE RfidTracking -----------------------------
(***************************************************************************)
(* SERVICE_TRACKING: several readers watch which of them a tag is near to. *)
(* A reader's query-tags command broadcasts a query (resend()); a tag      *)
(* answers every reader other than the one in its id_, at once or, when    *)
(* the reader's singularization_ says so, after a random time; the reader  *)
(* confirms the answer (FLOW_RT_ACK), and the tag then holds its peace     *)
(* towards that reader until another one confirms it.                      *)
(*                                                                         *)
(* Packets between a reader and a tag keep their order, except that the    *)
(* answers of a tag that waits a random time leave in any order.  A tag    *)
(* out of range of a reader is a tag whose packets are lost.               *)
(***************************************************************************)
EXTENDS Naturals, Sequences, FiniteSets

CONSTANTS
  Readers,      \* the readers, each standing for its id_
  Tags,
  NoReader,     \* the id_ 0 of a tag no reader has confirmed
  RandomTime,   \* the readers whose singularization_ is SING_RANDOMTIME
  MaxAnswers,   \* bound on a tag's answers under way to one reader
  MaxLost       \* bound on lost packets

ASSUME TrackingAssumption ==
  /\ NoReader \notin Readers /\ RandomTime \subseteq Readers
  /\ MaxAnswers \in Nat \ {0} /\ MaxLost \in Nat

VARIABLES
  id,        \* id_ of each tag: the reader that confirmed it last
  down,      \* packets under way from a reader to a tag
  waiting,   \* answers a tag has scheduled for a reader
  up,        \* answers under way from a tag to a reader
  lost,
  patient,   \* do readers query only when their last query is settled?
  (* History, which no action reads: *)
  known,     \* the <<reader, tag>> of which the reader has had an answer
  heard,     \* the ones it has had since another reader confirmed the tag
  twice      \* the ones it has had more than once since then

history == <<known, heard, twice>>
vars == <<id, down, waiting, up, lost, patient, history>>

Pairs == Readers \X Tags

Init ==
  /\ id = [t \in Tags |-> NoReader]
  /\ down = [p \in Pairs |-> <<>>]
  /\ waiting = [p \in Pairs |-> 0]
  /\ up = [p \in Pairs |-> 0]
  /\ lost = 0 /\ patient \in BOOLEAN
  /\ known = {} /\ heard = {} /\ twice = {}

-------------------------------------------------------------------------------
Settled(r) ==
  \A t \in Tags : down[<<r, t>>] = <<>> /\ waiting[<<r, t>>] = 0 /\ up[<<r, t>>] = 0

\* The answers of t to r that are under way, or that the packets to t may cause
Pending(r, t) == Len(down[<<r, t>>]) + waiting[<<r, t>>] + up[<<r, t>>]

\* The scenario's query-tags: resend() broadcasts a query.
QueryTags(r) ==
  /\ \A t \in Tags : Pending(r, t) < MaxAnswers
  /\ patient => Settled(r)
  /\ down' = [p \in Pairs |-> IF p[1] = r THEN Append(down[p], "FLOW_RT")
                                          ELSE down[p]]
  /\ UNCHANGED <<id, waiting, up, lost, patient, history>>

Arrives(r, t, tipo) ==
  /\ down[<<r, t>>] # <<>> /\ Head(down[<<r, t>>]) = tipo
  /\ down' = [down EXCEPT ![<<r, t>>] = Tail(@)]

\* Mutant: a tag records the reader as soon as it hears its query.
TagHearsQueryEagerly(r, t) ==
  /\ Arrives(r, t, "FLOW_RT")
  /\ id' = [id EXCEPT ![t] = r]
  /\ up' = [up EXCEPT ![<<r, t>>] = IF id[t] # r THEN @ + 1 ELSE @]
  /\ UNCHANGED <<waiting, lost, patient, history>>

\* Mutant: a tag answers every query.
TagHearsQueryAlways(r, t) ==
  /\ Arrives(r, t, "FLOW_RT")
  /\ up' = [up EXCEPT ![<<r, t>>] = @ + 1]
  /\ UNCHANGED <<id, waiting, lost, patient, history>>

\* Mutant: a tag that some reader has confirmed answers no other one.
TagHearsQueryOnce(r, t) ==
  /\ Arrives(r, t, "FLOW_RT")
  /\ up' = [up EXCEPT ![<<r, t>>] = IF id[t] = NoReader THEN @ + 1 ELSE @]
  /\ UNCHANGED <<id, waiting, lost, patient, history>>

\* RfidTagAgent::recv of a query: the tag answers, unless r confirmed it last.
TagHearsQuery(r, t) ==
  /\ Arrives(r, t, "FLOW_RT")
  /\ LET answers == IF id[t] # r THEN 1 ELSE 0
     IN IF r \in RandomTime
          THEN waiting' = [waiting EXCEPT ![<<r, t>>] = @ + answers] /\ UNCHANGED up
          ELSE up' = [up EXCEPT ![<<r, t>>] = @ + answers] /\ UNCHANGED waiting
  /\ UNCHANGED <<id, lost, patient, history>>

\* Mutant: the scheduled answer is not taken out of the schedule.
AnswerLeavesAgain(r, t) ==
  /\ waiting[<<r, t>>] > 0
  /\ up' = [up EXCEPT ![<<r, t>>] = @ + 1]
  /\ UNCHANGED <<id, down, waiting, lost, patient, history>>

\* The scheduler sends an answer whose random time has passed.
AnswerLeaves(r, t) ==
  /\ waiting[<<r, t>>] > 0
  /\ waiting' = [waiting EXCEPT ![<<r, t>>] = @ - 1]
  /\ up' = [up EXCEPT ![<<r, t>>] = @ + 1]
  /\ UNCHANGED <<id, down, lost, patient, history>>

\* RfidTagAgent::recv of a confirmation
TagHearsAck(r, t) ==
  /\ Arrives(r, t, "FLOW_RT_ACK")
  /\ id' = [id EXCEPT ![t] = r]
  /\ heard' = {p \in heard : p[2] # t \/ p[1] = r}
  /\ twice' = {p \in twice : p[2] # t \/ p[1] = r}
  /\ UNCHANGED <<waiting, up, lost, patient, known>>

\* RfidReaderAgent::recv of an answer: the reader confirms it.
ReaderHears(r, t) ==
  /\ up[<<r, t>>] > 0
  /\ up' = [up EXCEPT ![<<r, t>>] = @ - 1]
  /\ down' = [down EXCEPT ![<<r, t>>] = Append(@, "FLOW_RT_ACK")]
  /\ known' = known \cup {<<r, t>>}
  /\ heard' = heard \cup {<<r, t>>}
  /\ twice' = IF <<r, t>> \in heard THEN twice \cup {<<r, t>>} ELSE twice
  /\ UNCHANGED <<id, waiting, lost, patient>>

\* The oldest packet between r and t is lost, in one direction or the other.
Lose(r, t) ==
  /\ lost < MaxLost
  /\ lost' = lost + 1
  /\ \/ /\ down[<<r, t>>] # <<>>
        /\ down' = [down EXCEPT ![<<r, t>>] = Tail(@)] /\ UNCHANGED up
     \/ /\ up[<<r, t>>] > 0
        /\ up' = [up EXCEPT ![<<r, t>>] = @ - 1] /\ UNCHANGED down
  /\ UNCHANGED <<id, waiting, patient, history>>

Next ==
  \/ \E r \in Readers : QueryTags(r)
  \/ \E r \in Readers, t \in Tags :
       \/ TagHearsQuery(r, t) \/ AnswerLeaves(r, t) \/ TagHearsAck(r, t)
       \/ ReaderHears(r, t) \/ Lose(r, t)

Spec == Init /\ [][Next]_vars

\* A scenario repeats its queries, and the scheduler dispatches every event.
FairSpec ==
  /\ Spec
  /\ \A r \in Readers :
       /\ WF_vars(QueryTags(r))
       /\ \A t \in Tags :
            /\ WF_vars(TagHearsQuery(r, t)) /\ WF_vars(AnswerLeaves(r, t))
            /\ WF_vars(TagHearsAck(r, t)) /\ WF_vars(ReaderHears(r, t))

-------------------------------------------------------------------------------
TypeOK ==
  /\ id \in [Tags -> Readers \cup {NoReader}]
  /\ down \in [Pairs -> Seq({"FLOW_RT", "FLOW_RT_ACK"})]
  /\ waiting \in [Pairs -> 0 .. MaxAnswers]
  /\ up \in [Pairs -> 0 .. MaxAnswers]
  /\ lost \in 0 .. MaxLost /\ patient \in BOOLEAN
  /\ known \subseteq Pairs /\ heard \subseteq known /\ twice \subseteq heard

(***************************************************************************)
(* A tag keeps silent only towards a reader that has had its answer: id_   *)
(* is written by the confirmation and not by the query, whose answer may   *)
(* be lost or still wait for its random time (rfidTag.cc, FLOW_RT_ACK).    *)
(***************************************************************************)
SilentOnlyWhenHeard == \A t \in Tags : id[t] # NoReader => <<id[t], t>> \in known

(***************************************************************************)
(* Readers that wait for a query to settle, on a link that loses nothing,  *)
(* hear a tag once per visit: never again before another reader has        *)
(* confirmed it, whatever the other readers' packets do in between.        *)
(***************************************************************************)
HeardOncePerVisit == patient /\ lost = 0 => twice = {}

(***************************************************************************)
(* A reader in range that keeps querying gets every tag confirmed again    *)
(* and again, however the readers' queries, answers and confirmations      *)
(* interleave and although packets are lost.                               *)
(***************************************************************************)
EachReaderTracks == \A r \in Readers, t \in Tags : []<>(id[t] = r)
===============================================================================
