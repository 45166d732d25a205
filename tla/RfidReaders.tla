------------------------------ MODULE RfidReaders ------------------------------
(***************************************************************************)
(* Several readers run the Q algorithm over the same tags.  A tag obeys    *)
(* every reader: whoever polls makes it draw a new slot or count its slot  *)
(* down, and a tag acknowledged by one reader is silent to the others'     *)
(* adjustments.  id_ is the reader obeyed last; with mechanism_ = 1 an     *)
(* acknowledged tag answers a new query only of another reader.            *)
(*                                                                         *)
(* The agents are those of RfidReader and RfidTag.  Each reader has its    *)
(* own timers and its own FIFO links to the tags; it drops the answers to  *)
(* other readers (recv compares hdr->id_ with id_).  A reader's timer does *)
(* not expire while its own packets are under way, whatever the others do. *)
(***************************************************************************)
EXTENDS RfidTag, RfidReader, Sequences, FiniteSets

CONSTANTS
  Readers,
  NoReader,      \* the id_ of a tag that has obeyed nobody
  MaxSessions    \* bound on the commands of one reader

ASSUME ReadersAssumption ==
  Readers # {} /\ NoReader \notin Readers /\ MaxSessions \in Nat

VARIABLES
  rd,          \* the fields of each reader
  tag,         \* the fields of each tag, id_ apart
  id,          \* id_ of each tag
  down, up,    \* the packets under way between a reader and a tag
  sessions     \* the commands each reader has had

vars == <<rd, tag, id, down, up, sessions>>

Init ==
  /\ rd \in [Readers -> ReaderInits]
  /\ tag = [t \in Tags |-> TagInit]
  /\ id = [t \in Tags |-> NoReader]
  /\ down = [r \in Readers |-> [t \in Tags |-> <<>>]]
  /\ up = [r \in Readers |-> [t \in Tags |-> <<>>]]
  /\ sessions = [r \in Readers |-> 0]

-------------------------------------------------------------------------------
Quiet(r) == \A t \in Tags : down[r][t] = <<>> /\ up[r][t] = <<>>

Running(r) == rd[r].rs = "PENDING"

\* The packets of reader r with the fields f reach its links, the
\* acknowledgement first.
Sent(r, f, t) ==
  down[r][t]
    \o (IF f.uni.command # "NONE" /\ f.uni.tagEPC = t THEN <<f.uni>> ELSE <<>>)
    \o (IF f.bcast.command # "NONE" THEN <<f.bcast>> ELSE <<>>)

Emit(r, f) ==
  /\ rd' = [rd EXCEPT ![r] = [f EXCEPT !.uni = NoHeader, !.bcast = NoHeader]]
  /\ down' = [down EXCEPT ![r] = [t \in Tags |-> Sent(r, f, t)]]

\* standard-query-tags
Command(r) ==
  /\ sessions[r] < MaxSessions /\ ~Running(r) /\ Quiet(r)
  /\ Emit(r, StandardQueryTags(rd[r]))
  /\ sessions' = [sessions EXCEPT ![r] = @ + 1]
  /\ UNCHANGED <<tag, id, up>>

Timeout(r) ==
  /\ Running(r) /\ Quiet(r)
  /\ \E f \in Expire(rd[r]) : Emit(r, f)
  /\ UNCHANGED <<tag, id, up, sessions>>

\* The tag as reader r finds it: served says that r was obeyed last.
View(r, t) == [tag[t] EXCEPT !.served = (id[t] = r)]

TagReceives(r, t) ==
  /\ down[r][t] # <<>>
  /\ \E o \in TagRecv(t, View(r, t), Head(down[r][t])) :
       /\ tag' = [tag EXCEPT ![t] = [o.tag EXCEPT !.served = FALSE]]
       /\ id' = IF o.tag.served THEN [id EXCEPT ![t] = r] ELSE id
       /\ up' = IF o.reply = "NONE" THEN up
                ELSE [up EXCEPT ![r][t] = Append(@,
                        [command |-> o.reply, service |-> Head(down[r][t]).service])]
  /\ down' = [down EXCEPT ![r][t] = Tail(@)]
  /\ UNCHANGED <<rd, sessions>>

ReaderReceives(r, t) ==
  /\ up[r][t] # <<>>
  /\ rd' = [rd EXCEPT ![r] = Recv(@, t, Head(up[r][t]))]
  /\ up' = [up EXCEPT ![r][t] = Tail(@)]
  /\ UNCHANGED <<tag, id, down, sessions>>

Next ==
  \/ \E r \in Readers : Command(r) \/ Timeout(r)
  \/ \E r \in Readers, t \in Tags : TagReceives(r, t) \/ ReaderReceives(r, t)

Spec == Init /\ [][Next]_vars

-------------------------------------------------------------------------------
TypeOK ==
  /\ rd \in [Readers -> ReaderRecords]
  /\ tag \in [Tags -> TagRecords]
  /\ id \in [Tags -> Readers \cup {NoReader}]
  /\ down \in [Readers -> [Tags -> Seq(Headers)]]
  /\ up \in [Readers -> [Tags -> Seq(Replies)]]
  /\ sessions \in [Readers -> 0 .. MaxSessions]

Read(t) ==
  \/ Acknowledged(tag[t])
  \/ \E r \in Readers : \E i \in 1 .. Len(down[r][t]) :
       down[r][t][i].command = "RC_QUERYREPLY" /\ down[r][t][i].tagEPC = t

Concluded(r) == sessions[r] > 0 /\ ~Running(r) /\ rd[r].qValue = -1

(***************************************************************************)
(* Readers that disturb each other leave nobody out: when all of them have *)
(* ended by the rule of the Q algorithm, every tag has been read by one of *)
(* them since it last drew a slot, although each reader takes the tags the *)
(* others have acknowledged for absent, and although slots drawn for one   *)
(* reader are counted down by another (start_sing, RfidTagAgent::recv).    *)
(***************************************************************************)
NoTagLeftOut == (\A r \in Readers : Concluded(r)) => \A t \in Tags : Read(t)
================================================================================
