---------------------------- MODULE TrackingProofs ----------------------------
(***************************************************************************)
(* The tracking service, for any number of readers, tags and packets under *)
(* way.                                                                    *)
(***************************************************************************)
EXTENDS RfidTracking, TLAPS

USE TrackingAssumption

-------------------------------------------------------------------------------
Flows == {"FLOW_RT", "FLOW_RT_ACK"}

Types ==
  /\ id \in [Tags -> Readers \cup {NoReader}]
  /\ down \in [Pairs -> Seq(Flows)]
  /\ waiting \in [Pairs -> Nat] /\ up \in [Pairs -> Nat]
  /\ lost \in 0 .. MaxLost /\ patient \in BOOLEAN
  /\ known \subseteq Pairs /\ heard \subseteq known /\ twice \subseteq heard

\* The bound on the answers under way, counted with the packets that cause them
Bounded == \A p \in Pairs : Len(down[p]) + waiting[p] + up[p] <= MaxAnswers

\* A reader confirms only a tag it has heard.
AckedIsKnown ==
  \A p \in Pairs : \A i \in 1 .. Len(down[p]) : down[p][i] = "FLOW_RT_ACK" => p \in known

\* With patient readers and no loss a reader and a tag have one packet between
\* them, and a tag that was heard either has its confirmation under way or
\* names the reader, in which case it answers no more.
OneAtATime ==
  patient /\ lost = 0 =>
    /\ twice = {}
    /\ \A p \in Pairs : Len(down[p]) + waiting[p] + up[p] <= 1
    /\ \A p \in heard : \/ down[p] = <<"FLOW_RT_ACK">>
                        \/ id[p[2]] = p[1] /\ waiting[p] = 0 /\ up[p] = 0

TrackInv == Types /\ Bounded /\ AckedIsKnown /\ SilentOnlyWhenHeard /\ OneAtATime

-------------------------------------------------------------------------------
LEMMA InitTrackInv == Init => TrackInv
<1> SUFFICES ASSUME Init PROVE TrackInv
  OBVIOUS
<1>0. \A p \in Pairs : down[p] = <<>> /\ waiting[p] = 0 /\ up[p] = 0
  BY DEF Init
<1>1. Types
  BY DEF Init, Types
<1>2. Bounded /\ AckedIsKnown
  BY <1>0 DEF Bounded, AckedIsKnown
<1>3. SilentOnlyWhenHeard
  BY DEF Init, SilentOnlyWhenHeard
<1>4. OneAtATime
  BY <1>0 DEF Init, OneAtATime
<1> QED
  BY <1>1, <1>2, <1>3, <1>4 DEF TrackInv

\* What the actions do to the sequence of packets to a tag
LEMMA FlowSequence ==
  ASSUME NEW s \in Seq(Flows)
  PROVE  /\ Len(s) \in Nat
         /\ \A m \in Flows : /\ Append(s, m) \in Seq(Flows) /\ Len(Append(s, m)) = Len(s) + 1
                             /\ \A i \in 1 .. Len(s) + 1 :
                                  Append(s, m)[i] = IF i <= Len(s) THEN s[i] ELSE m
         /\ s # <<>> => /\ Tail(s) \in Seq(Flows) /\ Len(Tail(s)) = Len(s) - 1 /\ Len(s) > 0
                        /\ \A i \in 1 .. Len(s) - 1 : Tail(s)[i] = s[i + 1]
                        /\ Head(s) = s[1] /\ Head(s) \in Flows
  OBVIOUS

\* A step that adds nothing to what is under way between any reader and tag
LEMMA NoMoreUnderWay ==
  ASSUME TrackInv,
         down' \in [Pairs -> Seq(Flows)], waiting' \in [Pairs -> Nat], up' \in [Pairs -> Nat],
         \A p \in Pairs :
           Len(down'[p]) + waiting'[p] + up'[p] <= Len(down[p]) + waiting[p] + up[p]
  PROVE  /\ Bounded'
         /\ patient /\ lost = 0 =>
              \A p \in Pairs : Len(down'[p]) + waiting'[p] + up'[p] <= 1
<1>y. Types /\ Bounded /\ OneAtATime
  BY DEF TrackInv
<1>s. ASSUME NEW p \in Pairs
      PROVE  /\ Len(down'[p]) \in Nat /\ waiting'[p] \in Nat /\ up'[p] \in Nat
             /\ Len(down[p]) \in Nat /\ waiting[p] \in Nat /\ up[p] \in Nat
  BY <1>y, <1>s DEF Types
<1>1. MaxAnswers \in Nat
  BY TrackingAssumption
<1>2. ASSUME NEW p \in Pairs
      PROVE  Len(down'[p]) + waiting'[p] + up'[p] <= MaxAnswers
  <2>1. Len(down[p]) + waiting[p] + up[p] <= MaxAnswers
    BY <1>2, <1>y DEF Bounded
  <2> QED
    BY <2>1, <1>1, <1>2, <1>s
<1>3. ASSUME patient, lost = 0, NEW p \in Pairs
      PROVE  Len(down'[p]) + waiting'[p] + up'[p] <= 1
  <2>1. Len(down[p]) + waiting[p] + up[p] <= 1
    BY <1>3, <1>y DEF OneAtATime
  <2> QED
    BY <2>1, <1>3, <1>s
<1> QED
  BY <1>2, <1>3 DEF Bounded

\* A step that changes what is under way between one reader and one tag, and
\* does not add to it
LEMMA OnePair ==
  ASSUME TrackInv, NEW q \in Pairs, NEW d \in Seq(Flows), NEW w \in Nat, NEW u \in Nat,
         down' = [down EXCEPT ![q] = d],
         waiting' = [waiting EXCEPT ![q] = w],
         up' = [up EXCEPT ![q] = u],
         Len(d) + w + u <= Len(down[q]) + waiting[q] + up[q],
         known \subseteq known',
         \A i \in 1 .. Len(d) : d[i] = "FLOW_RT_ACK" => q \in known'
  PROVE  /\ down' \in [Pairs -> Seq(Flows)]
         /\ waiting' \in [Pairs -> Nat] /\ up' \in [Pairs -> Nat]
         /\ down'[q] = d /\ waiting'[q] = w /\ up'[q] = u
         /\ \A p \in Pairs \ {q} : /\ down'[p] = down[p]
                                   /\ waiting'[p] = waiting[p] /\ up'[p] = up[p]
         /\ Bounded' /\ AckedIsKnown'
         /\ patient /\ lost = 0 =>
              \A p \in Pairs : Len(down'[p]) + waiting'[p] + up'[p] <= 1
<1>y. Types /\ Bounded /\ AckedIsKnown /\ OneAtATime
  BY DEF TrackInv
<1>s. \A p \in Pairs : Len(down[p]) \in Nat /\ waiting[p] \in Nat /\ up[p] \in Nat
  BY <1>y DEF Types
<1>n. Len(d) \in Nat
  OBVIOUS
<1>1. down' \in [Pairs -> Seq(Flows)] /\ waiting' \in [Pairs -> Nat] /\ up' \in [Pairs -> Nat]
  BY <1>y DEF Types
<1>2. down'[q] = d /\ waiting'[q] = w /\ up'[q] = u
  BY <1>y DEF Types
<1>3. \A p \in Pairs \ {q} : /\ down'[p] = down[p]
                             /\ waiting'[p] = waiting[p] /\ up'[p] = up[p]
  BY <1>y DEF Types
<1>4. \A p \in Pairs : Len(down'[p]) + waiting'[p] + up'[p] <= Len(down[p]) + waiting[p] + up[p]
  <2> TAKE p \in Pairs
  <2>1. CASE p = q
    BY <2>1, <1>2
  <2>2. CASE p # q
    BY <2>2, <1>3, <1>s
  <2> QED
    BY <2>1, <2>2
<1>5. /\ Bounded'
      /\ patient /\ lost = 0 =>
           \A p \in Pairs : Len(down'[p]) + waiting'[p] + up'[p] <= 1
  BY <1>1, <1>4, NoMoreUnderWay
<1>6. AckedIsKnown'
  BY <1>2, <1>3, <1>y DEF AckedIsKnown
<1> QED
  BY <1>1, <1>2, <1>3, <1>5, <1>6

LEMMA QueryTagsInv ==
  ASSUME NEW r \in Readers, TrackInv, QueryTags(r) PROVE TrackInv'
<1>y. Types /\ Bounded /\ AckedIsKnown /\ SilentOnlyWhenHeard /\ OneAtATime
  BY DEF TrackInv
<1>u. UNCHANGED <<id, waiting, up, lost, patient, known, heard, twice>>
  BY DEF QueryTags, history
<1>d. /\ \A p \in Pairs : p[1] = r => down'[p] = Append(down[p], "FLOW_RT")
      /\ \A p \in Pairs : p[1] # r => down'[p] = down[p]
  BY DEF QueryTags
<1>s. \A p \in Pairs : /\ down[p] \in Seq(Flows) /\ Len(down[p]) \in Nat
                       /\ waiting[p] \in Nat /\ up[p] \in Nat
  BY <1>y DEF Types
<1>l. \A p \in Pairs : p[1] = r => /\ Len(down'[p]) = Len(down[p]) + 1
                                   /\ down'[p] \in Seq(Flows)
  <2> TAKE p \in Pairs
  <2> HAVE p[1] = r
  <2>1. down'[p] = Append(down[p], "FLOW_RT") /\ down[p] \in Seq(Flows)
    BY <1>d, <1>s
  <2> QED
    BY <2>1, FlowSequence DEF Flows
<1>1. Types'
  <2>1. \A p \in Pairs : down'[p] \in Seq(Flows)
    BY <1>l, <1>d, <1>s
  <2>2. down' = [p \in Pairs |-> down'[p]]
    BY DEF QueryTags
  <2>3. down' \in [Pairs -> Seq(Flows)]
    BY <2>1, <2>2
  <2> QED
    BY <2>3, <1>u, <1>y DEF Types
<1>2. Bounded'
  <2> SUFFICES ASSUME NEW p \in Pairs
               PROVE  Len(down'[p]) + waiting[p] + up[p] <= MaxAnswers
    BY <1>u DEF Bounded
  <2>1. CASE p[1] = r
    <3>1. p[2] \in Tags /\ p = <<r, p[2]>>
      BY <2>1 DEF Pairs
    <3>2. Len(down[p]) + waiting[p] + up[p] < MaxAnswers
      BY <3>1 DEF QueryTags, Pending
    <3> QED
      BY <3>2, <2>1, <1>l, <1>s
  <2>2. CASE p[1] # r
    BY <2>2, <1>d, <1>y DEF Bounded
  <2> QED
    BY <2>1, <2>2
<1>3. AckedIsKnown'
  <2> SUFFICES ASSUME NEW p \in Pairs, NEW i \in 1 .. Len(down'[p]),
                      down'[p][i] = "FLOW_RT_ACK"
               PROVE  p \in known
    BY <1>u DEF AckedIsKnown
  <2>1. CASE p[1] = r
    <3>1. i <= Len(down[p]) /\ down'[p][i] = down[p][i]
      <4>1. /\ down'[p] = Append(down[p], "FLOW_RT") /\ down[p] \in Seq(Flows)
            /\ Len(down'[p]) = Len(down[p]) + 1 /\ Len(down[p]) \in Nat
        BY <2>1, <1>d, <1>s, <1>l
      <4>2. down'[p][i] = IF i <= Len(down[p]) THEN down[p][i] ELSE "FLOW_RT"
        BY <4>1, FlowSequence DEF Flows
      <4> QED
        BY <4>1, <4>2
    <3> QED
      BY <3>1, <1>s, <1>y DEF AckedIsKnown
  <2>2. CASE p[1] # r
    BY <2>2, <1>d, <1>y DEF AckedIsKnown
  <2> QED
    BY <2>1, <2>2
<1>4. SilentOnlyWhenHeard'
  BY <1>u, <1>y DEF SilentOnlyWhenHeard
<1>5. OneAtATime'
  <2> SUFFICES ASSUME patient, lost = 0 PROVE OneAtATime'
    BY <1>u DEF OneAtATime
  <2>1. \A p \in Pairs : p[1] = r => down[p] = <<>> /\ waiting[p] = 0 /\ up[p] = 0
    <3> SUFFICES ASSUME NEW p \in Pairs, p[1] = r
                 PROVE  down[p] = <<>> /\ waiting[p] = 0 /\ up[p] = 0
      OBVIOUS
    <3>1. p[2] \in Tags /\ p = <<r, p[2]>>
      BY DEF Pairs
    <3> QED
      BY <3>1 DEF QueryTags, Settled
  <2>2. \A p \in Pairs : Len(down'[p]) + waiting[p] + up[p] <= 1
    BY <2>1, <1>d, <1>l, <1>s, <1>y DEF OneAtATime
  <2>3. ASSUME NEW p \in heard
        PROVE  down'[p] = <<"FLOW_RT_ACK">> \/ (id[p[2]] = p[1] /\ waiting[p] = 0 /\ up[p] = 0)
    <3>1. p \in Pairs
      BY <1>y DEF Types
    <3>2. CASE p[1] = r
      <4>1. down[p] # <<"FLOW_RT_ACK">>
        BY <3>1, <3>2, <2>1
      <4> QED
        BY <4>1, <1>y DEF OneAtATime
    <3>3. CASE p[1] # r
      BY <3>1, <3>3, <1>d, <1>y DEF OneAtATime
    <3> QED
      BY <3>2, <3>3
  <2> QED
    BY <2>2, <2>3, <1>u, <1>y DEF OneAtATime
<1> QED
  BY <1>1, <1>2, <1>3, <1>4, <1>5 DEF TrackInv

\* A packet arrives at the tag.
LEMMA ArrivesLemma ==
  ASSUME NEW r \in Readers, NEW t \in Tags, TrackInv, down[<<r, t>>] # <<>>
  PROVE  /\ <<r, t>> \in Pairs
         /\ Tail(down[<<r, t>>]) \in Seq(Flows)
         /\ Len(down[<<r, t>>]) \in Nat \ {0}
         /\ Len(Tail(down[<<r, t>>])) = Len(down[<<r, t>>]) - 1
         /\ Head(down[<<r, t>>]) = down[<<r, t>>][1]
         /\ \A i \in 1 .. Len(Tail(down[<<r, t>>])) :
              Tail(down[<<r, t>>])[i] = "FLOW_RT_ACK" => <<r, t>> \in known
<1> DEFINE q == <<r, t>>
<1>1. q \in Pairs
  BY DEF Pairs
<1> HIDE DEF q
<1>2. down[q] \in Seq(Flows)
  BY <1>1 DEF TrackInv, Types
<1>3. /\ Tail(down[q]) \in Seq(Flows) /\ Len(down[q]) \in Nat \ {0}
      /\ Len(Tail(down[q])) = Len(down[q]) - 1 /\ Head(down[q]) = down[q][1]
      /\ \A i \in 1 .. Len(down[q]) - 1 : Tail(down[q])[i] = down[q][i + 1]
  BY <1>2, FlowSequence DEF q
<1>4. \A i \in 1 .. Len(Tail(down[q])) : Tail(down[q])[i] = "FLOW_RT_ACK" => q \in known
  BY <1>1, <1>3 DEF TrackInv, AckedIsKnown
<1> QED
  BY <1>1, <1>3, <1>4 DEF q

LEMMA TagHearsQueryInv ==
  ASSUME NEW r \in Readers, NEW t \in Tags, TrackInv, TagHearsQuery(r, t) PROVE TrackInv'
<1> DEFINE q == <<r, t>>
           d == Tail(down[q])
           answers == IF id[t] # r THEN 1 ELSE 0
           w == IF r \in RandomTime THEN waiting[q] + answers ELSE waiting[q]
           u == IF r \in RandomTime THEN up[q] ELSE up[q] + answers
<1>y. Types /\ SilentOnlyWhenHeard /\ OneAtATime
  BY DEF TrackInv
<1>u. UNCHANGED <<id, lost, patient, known, heard, twice>>
  BY DEF TagHearsQuery, history
<1>h. down[q] # <<>> /\ Head(down[q]) = "FLOW_RT" /\ down' = [down EXCEPT ![q] = d]
  BY DEF TagHearsQuery, Arrives
<1>a. /\ q \in Pairs /\ d \in Seq(Flows) /\ Len(down[q]) \in Nat \ {0}
      /\ Len(d) = Len(down[q]) - 1
      /\ \A i \in 1 .. Len(d) : d[i] = "FLOW_RT_ACK" => q \in known
  BY <1>h, ArrivesLemma
<1>t. waiting[q] \in Nat /\ up[q] \in Nat
  BY <1>a, <1>y DEF Types
<1>w. w \in Nat /\ u \in Nat /\ w + u <= waiting[q] + up[q] + 1
      /\ (id[t] = r => w = waiting[q] /\ u = up[q])
  BY <1>t
<1>f. waiting' = [waiting EXCEPT ![q] = w] /\ up' = [up EXCEPT ![q] = u]
  <2>1. CASE r \in RandomTime
    <3>1. waiting' = [waiting EXCEPT ![q] = @ + answers] /\ up' = up
      BY <2>1 DEF TagHearsQuery
    <3> QED
      BY <3>1, <2>1, <1>a, <1>y DEF Types
  <2>2. CASE r \notin RandomTime
    <3>1. up' = [up EXCEPT ![q] = @ + answers] /\ waiting' = waiting
      BY <2>2 DEF TagHearsQuery
    <3> QED
      BY <3>1, <2>2, <1>a, <1>y DEF Types
  <2> QED
    BY <2>1, <2>2
<1> HIDE DEF q, d, w, u, answers
<1>l. Len(d) + w + u <= Len(down[q]) + waiting[q] + up[q]
  BY <1>a, <1>t, <1>w
<1>o. /\ down' \in [Pairs -> Seq(Flows)]
      /\ waiting' \in [Pairs -> Nat] /\ up' \in [Pairs -> Nat]
      /\ down'[q] = d /\ waiting'[q] = w /\ up'[q] = u
      /\ \A p \in Pairs \ {q} : /\ down'[p] = down[p]
                                /\ waiting'[p] = waiting[p] /\ up'[p] = up[p]
      /\ Bounded' /\ AckedIsKnown'
      /\ patient /\ lost = 0 =>
           \A p \in Pairs : Len(down'[p]) + waiting'[p] + up'[p] <= 1
  BY <1>a, <1>w, <1>h, <1>f, <1>l, <1>u, OnePair
<1>1. Types'
  BY <1>o, <1>u, <1>y DEF Types
<1>2. SilentOnlyWhenHeard'
  BY <1>u, <1>y DEF SilentOnlyWhenHeard
<1>3. OneAtATime'
  <2> SUFFICES ASSUME patient, lost = 0 PROVE OneAtATime'
    BY <1>u DEF OneAtATime
  <2>1. q \in heard => id[t] = r /\ waiting[q] = 0 /\ up[q] = 0
    <3>1. down[q] # <<"FLOW_RT_ACK">>
      BY <1>h
    <3> QED
      BY <3>1, <1>y DEF OneAtATime, q
  <2>2. ASSUME NEW p \in heard
        PROVE  down'[p] = <<"FLOW_RT_ACK">> \/ (id[p[2]] = p[1] /\ waiting'[p] = 0 /\ up'[p] = 0)
    <3>1. p \in Pairs
      BY <1>y DEF Types
    <3>2. CASE p = q
      BY <3>2, <2>1, <1>w, <1>o DEF q
    <3>3. CASE p # q
      BY <3>1, <3>3, <1>o, <1>y DEF OneAtATime
    <3> QED
      BY <3>2, <3>3
  <2> QED
    BY <2>2, <1>o, <1>u, <1>y DEF OneAtATime
<1> QED
  BY <1>1, <1>2, <1>3, <1>o DEF TrackInv

LEMMA AnswerLeavesInv ==
  ASSUME NEW r \in Readers, NEW t \in Tags, TrackInv, AnswerLeaves(r, t) PROVE TrackInv'
<1> DEFINE q == <<r, t>>
<1>y. Types /\ AckedIsKnown /\ SilentOnlyWhenHeard /\ OneAtATime
  BY DEF TrackInv
<1>u. UNCHANGED <<id, down, lost, patient, known, heard, twice>>
  BY DEF AnswerLeaves, history
<1>a. /\ q \in Pairs /\ down[q] \in Seq(Flows) /\ Len(down[q]) \in Nat
      /\ waiting[q] \in Nat /\ waiting[q] > 0 /\ up[q] \in Nat
  BY <1>y DEF Types, Pairs, AnswerLeaves
<1>f. /\ down' = [down EXCEPT ![q] = down[q]]
      /\ waiting' = [waiting EXCEPT ![q] = waiting[q] - 1]
      /\ up' = [up EXCEPT ![q] = up[q] + 1]
  BY <1>u, <1>y DEF AnswerLeaves, Types
<1>k. \A i \in 1 .. Len(down[q]) : down[q][i] = "FLOW_RT_ACK" => q \in known
  BY <1>a, <1>y DEF AckedIsKnown
<1> HIDE DEF q
<1>l. /\ waiting[q] - 1 \in Nat /\ up[q] + 1 \in Nat
      /\ Len(down[q]) + (waiting[q] - 1) + (up[q] + 1) <= Len(down[q]) + waiting[q] + up[q]
  <2>1. ASSUME NEW l \in Nat, NEW w \in Nat, NEW u \in Nat, w > 0
        PROVE  w - 1 \in Nat /\ u + 1 \in Nat /\ l + (w - 1) + (u + 1) <= l + w + u
    BY <2>1
  <2> QED
    BY <1>a, <2>1
<1>o. /\ down' \in [Pairs -> Seq(Flows)]
      /\ waiting' \in [Pairs -> Nat] /\ up' \in [Pairs -> Nat]
      /\ \A p \in Pairs \ {q} : /\ down'[p] = down[p]
                                /\ waiting'[p] = waiting[p] /\ up'[p] = up[p]
      /\ Bounded' /\ AckedIsKnown'
      /\ patient /\ lost = 0 =>
           \A p \in Pairs : Len(down'[p]) + waiting'[p] + up'[p] <= 1
  BY <1>a, <1>f, <1>l, <1>k, <1>u, OnePair
<1>1. Types'
  BY <1>o, <1>u, <1>y DEF Types
<1>2. SilentOnlyWhenHeard'
  BY <1>u, <1>y DEF SilentOnlyWhenHeard
<1>3. OneAtATime'
  <2> SUFFICES ASSUME patient, lost = 0 PROVE OneAtATime'
    BY <1>u DEF OneAtATime
  <2>1. q \notin heard
    <3>1. Len(down[q]) = 0
      BY <1>a, <1>y DEF OneAtATime
    <3>2. down[q] # <<"FLOW_RT_ACK">>
      BY <3>1
    <3> QED
      BY <3>2, <1>a, <1>y DEF OneAtATime
  <2>2. ASSUME NEW p \in heard
        PROVE  down'[p] = <<"FLOW_RT_ACK">> \/ (id[p[2]] = p[1] /\ waiting'[p] = 0 /\ up'[p] = 0)
    BY <2>1, <1>o, <1>y DEF OneAtATime, Types
  <2> QED
    BY <2>2, <1>o, <1>u, <1>y DEF OneAtATime
<1> QED
  BY <1>1, <1>2, <1>3, <1>o DEF TrackInv

LEMMA TagHearsAckInv ==
  ASSUME NEW r \in Readers, NEW t \in Tags, TrackInv, TagHearsAck(r, t) PROVE TrackInv'
<1> DEFINE q == <<r, t>>
           d == Tail(down[q])
<1>y. Types /\ AckedIsKnown /\ SilentOnlyWhenHeard /\ OneAtATime
  BY DEF TrackInv
<1>u. /\ UNCHANGED <<waiting, up, lost, patient, known>>
      /\ id' = [id EXCEPT ![t] = r]
      /\ heard' = {p \in heard : p[2] # t \/ p[1] = r}
      /\ twice' = {p \in twice : p[2] # t \/ p[1] = r}
  BY DEF TagHearsAck
<1>h. down[q] # <<>> /\ Head(down[q]) = "FLOW_RT_ACK" /\ down' = [down EXCEPT ![q] = d]
  BY DEF TagHearsAck, Arrives
<1>a. /\ q \in Pairs /\ d \in Seq(Flows) /\ Len(down[q]) \in Nat \ {0}
      /\ Len(d) = Len(down[q]) - 1 /\ Head(down[q]) = down[q][1]
      /\ \A i \in 1 .. Len(d) : d[i] = "FLOW_RT_ACK" => q \in known
  BY <1>h, ArrivesLemma
<1>k. q \in known
  BY <1>a, <1>h, <1>y DEF AckedIsKnown
<1>t. waiting[q] \in Nat /\ up[q] \in Nat
  BY <1>a, <1>y DEF Types
<1>f. waiting' = [waiting EXCEPT ![q] = waiting[q]] /\ up' = [up EXCEPT ![q] = up[q]]
  BY <1>u, <1>y DEF Types
<1> HIDE DEF q, d
<1>l. Len(d) + waiting[q] + up[q] <= Len(down[q]) + waiting[q] + up[q]
  BY <1>a, <1>t
<1>o. /\ down' \in [Pairs -> Seq(Flows)]
      /\ down'[q] = d /\ \A p \in Pairs \ {q} : down'[p] = down[p]
      /\ Bounded' /\ AckedIsKnown'
      /\ patient /\ lost = 0 =>
           \A p \in Pairs : Len(down'[p]) + waiting'[p] + up'[p] <= 1
  <2>1. known \subseteq known' /\ \A i \in 1 .. Len(d) : d[i] = "FLOW_RT_ACK" => q \in known'
    BY <1>a, <1>u
  <2> QED
    BY <2>1, <1>a, <1>t, <1>f, <1>h, <1>l, OnePair
<1>1. Types'
  BY <1>o, <1>u, <1>y DEF Types
<1>2. SilentOnlyWhenHeard'
  BY <1>u, <1>k, <1>y DEF SilentOnlyWhenHeard, Types, q
<1>3. OneAtATime'
  <2> SUFFICES ASSUME patient, lost = 0 PROVE OneAtATime'
    BY <1>u DEF OneAtATime
  <2>1. Len(down[q]) + waiting[q] + up[q] <= 1
    BY <1>a, <1>y DEF OneAtATime
  <2>2. waiting[q] = 0 /\ up[q] = 0
    BY <2>1, <1>a, <1>t
  <2>3. ASSUME NEW p \in heard'
        PROVE  down'[p] = <<"FLOW_RT_ACK">> \/ (id'[p[2]] = p[1] /\ waiting'[p] = 0 /\ up'[p] = 0)
    <3>1. p \in heard /\ p \in Pairs /\ (p[2] # t \/ p[1] = r)
      BY <1>u, <1>y DEF Types
    <3>2. CASE p = q
      <4>1. id'[t] = r
        BY <1>u, <1>y DEF Types
      <4> QED
        BY <4>1, <3>2, <2>2, <1>u DEF q
    <3>3. CASE p # q
      <4>1. p[2] \in Tags /\ p[2] # t
        BY <3>1, <3>3 DEF q, Pairs
      <4>2. id'[p[2]] = id[p[2]]
        BY <4>1, <1>u, <1>y DEF Types
      <4> QED
        BY <4>2, <3>1, <3>3, <1>o, <1>u, <1>y DEF OneAtATime
    <3> QED
      BY <3>2, <3>3
  <2> QED
    BY <2>3, <1>o, <1>u, <1>y DEF OneAtATime
<1> QED
  BY <1>1, <1>2, <1>3, <1>o DEF TrackInv

LEMMA ReaderHearsInv ==
  ASSUME NEW r \in Readers, NEW t \in Tags, TrackInv, ReaderHears(r, t) PROVE TrackInv'
<1> DEFINE q == <<r, t>>
           d == Append(down[q], "FLOW_RT_ACK")
<1>y. Types /\ AckedIsKnown /\ SilentOnlyWhenHeard /\ OneAtATime
  BY DEF TrackInv
<1>u. /\ UNCHANGED <<id, waiting, lost, patient>>
      /\ up[q] > 0 /\ up' = [up EXCEPT ![q] = @ - 1]
      /\ down' = [down EXCEPT ![q] = d]
      /\ known' = known \cup {q} /\ heard' = heard \cup {q}
      /\ twice' = IF q \in heard THEN twice \cup {q} ELSE twice
  BY DEF ReaderHears
<1>a. /\ q \in Pairs /\ down[q] \in Seq(Flows) /\ Len(down[q]) \in Nat
      /\ waiting[q] \in Nat /\ up[q] \in Nat
  BY <1>y DEF Types, Pairs
<1>d. d \in Seq(Flows) /\ Len(d) = Len(down[q]) + 1
  BY <1>a, FlowSequence DEF Flows
<1>f. /\ waiting' = [waiting EXCEPT ![q] = waiting[q]]
      /\ up' = [up EXCEPT ![q] = up[q] - 1]
  BY <1>u, <1>y DEF Types
<1> HIDE DEF q
<1>l. /\ up[q] - 1 \in Nat
      /\ Len(d) + waiting[q] + (up[q] - 1) <= Len(down[q]) + waiting[q] + up[q]
  BY <1>a, <1>d, <1>u
<1> HIDE DEF d
<1>o. /\ down' \in [Pairs -> Seq(Flows)] /\ up' \in [Pairs -> Nat]
      /\ down'[q] = d
      /\ \A p \in Pairs \ {q} : /\ down'[p] = down[p]
                                /\ waiting'[p] = waiting[p] /\ up'[p] = up[p]
      /\ Bounded' /\ AckedIsKnown'
      /\ patient /\ lost = 0 =>
           \A p \in Pairs : Len(down'[p]) + waiting'[p] + up'[p] <= 1
  <2>1. known \subseteq known' /\ \A i \in 1 .. Len(d) : d[i] = "FLOW_RT_ACK" => q \in known'
    BY <1>u
  <2>2. down' = [down EXCEPT ![q] = d]
    BY <1>u
  <2> QED
    BY <2>1, <2>2, <1>a, <1>d, <1>f, <1>l, OnePair
<1>1. Types'
  BY <1>a, <1>o, <1>u, <1>y DEF Types
<1>2. SilentOnlyWhenHeard'
  BY <1>u, <1>y DEF SilentOnlyWhenHeard
<1>3. OneAtATime'
  <2> SUFFICES ASSUME patient, lost = 0 PROVE OneAtATime'
    BY <1>u DEF OneAtATime
  <2>1. Len(down[q]) + waiting[q] + up[q] <= 1
    BY <1>a, <1>y DEF OneAtATime
  <2>2. Len(down[q]) = 0
    BY <2>1, <1>a, <1>u
  <2>3. q \notin heard
    <3>1. down[q] # <<"FLOW_RT_ACK">>
      BY <2>2
    <3> QED
      BY <3>1, <1>u, <1>y DEF OneAtATime
  <2>4. d = <<"FLOW_RT_ACK">>
    <3>1. down[q] = <<>>
      BY <2>2, <1>a
    <3> QED
      BY <3>1 DEF d
  <2>5. ASSUME NEW p \in heard'
        PROVE  down'[p] = <<"FLOW_RT_ACK">> \/ (id[p[2]] = p[1] /\ waiting'[p] = 0 /\ up'[p] = 0)
    <3>1. CASE p = q
      BY <3>1, <2>4, <1>o
    <3>2. CASE p # q
      <4>1. p \in heard /\ p \in Pairs
        BY <3>2, <1>u, <1>y DEF Types
      <4> QED
        BY <4>1, <3>2, <1>o, <1>y DEF OneAtATime
    <3> QED
      BY <3>1, <3>2
  <2> QED
    BY <2>3, <2>5, <1>o, <1>u, <1>y DEF OneAtATime
<1> QED
  BY <1>1, <1>2, <1>3, <1>o DEF TrackInv

LEMMA LoseInv ==
  ASSUME NEW r \in Readers, NEW t \in Tags, TrackInv, Lose(r, t) PROVE TrackInv'
<1> DEFINE q == <<r, t>>
<1>y. Types /\ AckedIsKnown /\ SilentOnlyWhenHeard
  BY DEF TrackInv
<1>u. UNCHANGED <<id, waiting, patient, known, heard, twice>> /\ lost < MaxLost /\ lost' = lost + 1
  BY DEF Lose, history
<1>a. /\ q \in Pairs /\ down[q] \in Seq(Flows) /\ Len(down[q]) \in Nat
      /\ waiting[q] \in Nat /\ up[q] \in Nat
  BY <1>y DEF Types, Pairs
<1>f. waiting' = [waiting EXCEPT ![q] = waiting[q]]
  BY <1>u, <1>y DEF Types
<1>o. /\ down' \in [Pairs -> Seq(Flows)] /\ waiting' \in [Pairs -> Nat] /\ up' \in [Pairs -> Nat]
      /\ Bounded' /\ AckedIsKnown'
  <2>1. CASE down[q] # <<>> /\ down' = [down EXCEPT ![q] = Tail(@)] /\ up' = up
    <3>1. /\ Tail(down[q]) \in Seq(Flows) /\ Len(Tail(down[q])) = Len(down[q]) - 1
          /\ \A i \in 1 .. Len(Tail(down[q])) : Tail(down[q])[i] = "FLOW_RT_ACK" => q \in known
      BY <2>1, ArrivesLemma
    <3>2. down' = [down EXCEPT ![q] = Tail(down[q])] /\ up' = [up EXCEPT ![q] = up[q]]
      BY <2>1, <1>y DEF Types
    <3> HIDE DEF q
    <3>3. Len(Tail(down[q])) + waiting[q] + up[q] <= Len(down[q]) + waiting[q] + up[q]
      BY <3>1, <1>a
    <3> QED
      BY <3>1, <3>2, <3>3, <1>a, <1>f, <1>u, OnePair
  <2>2. CASE up[q] > 0 /\ up' = [up EXCEPT ![q] = @ - 1] /\ down' = down
    <3>1. down' = [down EXCEPT ![q] = down[q]] /\ up' = [up EXCEPT ![q] = up[q] - 1]
      BY <2>2, <1>y DEF Types
    <3>2. \A i \in 1 .. Len(down[q]) : down[q][i] = "FLOW_RT_ACK" => q \in known
      BY <1>a, <1>y DEF AckedIsKnown
    <3> HIDE DEF q
    <3>3. /\ up[q] - 1 \in Nat
          /\ Len(down[q]) + waiting[q] + (up[q] - 1) <= Len(down[q]) + waiting[q] + up[q]
      BY <2>2, <1>a
    <3> QED
      BY <3>1, <3>2, <3>3, <1>a, <1>f, <1>u, OnePair
  <2> QED
    BY <2>1, <2>2 DEF Lose
<1>1. Types'
  BY <1>o, <1>u, <1>y DEF Types
<1>2. SilentOnlyWhenHeard'
  BY <1>u, <1>y DEF SilentOnlyWhenHeard
<1>3. OneAtATime'
  BY <1>u, <1>y DEF OneAtATime, Types
<1> QED
  BY <1>1, <1>2, <1>3, <1>o DEF TrackInv

LEMMA TrackInvariance == Spec => []TrackInv
<1>1. TrackInv /\ [Next]_vars => TrackInv'
  <2> SUFFICES ASSUME TrackInv, [Next]_vars PROVE TrackInv'
    OBVIOUS
  <2>1. CASE Next
    BY <2>1, QueryTagsInv, TagHearsQueryInv, AnswerLeavesInv, TagHearsAckInv, ReaderHearsInv,
       LoseInv DEF Next
  <2>2. CASE UNCHANGED vars
    <3>1. UNCHANGED <<id, down, waiting, up, lost, patient, known, heard, twice>>
      BY <2>2 DEF vars, history
    <3> QED
      BY <3>1 DEF TrackInv, Types, Bounded, AckedIsKnown, SilentOnlyWhenHeard, OneAtATime
  <2> QED
    BY <2>1, <2>2
<1> QED
  BY InitTrackInv, <1>1, PTL DEF Spec

-------------------------------------------------------------------------------
(***************************************************************************)
(* The tracking service keeps its types, and the answers under way to a    *)
(* reader never exceed the queries that may cause them (resend(), recv()). *)
(***************************************************************************)
THEOREM TrackingTypeCorrect == Spec => []TypeOK
<1>1. TrackInv => TypeOK
  <2> SUFFICES ASSUME TrackInv PROVE TypeOK
    OBVIOUS
  <2>1. \A p \in Pairs : /\ Len(down[p]) \in Nat /\ waiting[p] \in Nat /\ up[p] \in Nat
                         /\ Len(down[p]) + waiting[p] + up[p] <= MaxAnswers
    BY DEF TrackInv, Types, Bounded
  <2>2. \A p \in Pairs : waiting[p] \in 0 .. MaxAnswers /\ up[p] \in 0 .. MaxAnswers
    BY <2>1
  <2>3. waiting \in [Pairs -> 0 .. MaxAnswers] /\ up \in [Pairs -> 0 .. MaxAnswers]
    BY <2>2 DEF TrackInv, Types
  <2> QED
    BY <2>3 DEF TrackInv, Types, TypeOK, Flows
<1> QED
  BY TrackInvariance, <1>1, PTL

(***************************************************************************)
(* Whatever is lost, delayed or overtaken, a tag keeps silent only towards *)
(* a reader that has had its answer (rfidTag.cc, FLOW_RT_ACK).             *)
(***************************************************************************)
THEOREM SilentTagsWereHeard == Spec => []SilentOnlyWhenHeard
<1>1. TrackInv => SilentOnlyWhenHeard
  BY DEF TrackInv
<1> QED
  BY TrackInvariance, <1>1, PTL

(***************************************************************************)
(* Any number of patient readers on a link that loses nothing hear a tag   *)
(* once per visit (rfidTag.cc, id_; rfidReader.cc, resend).                *)
(***************************************************************************)
THEOREM TagsHeardOncePerVisit == Spec => []HeardOncePerVisit
<1>1. TrackInv => HeardOncePerVisit
  BY DEF TrackInv, OneAtATime, HeardOncePerVisit
<1> QED
  BY TrackInvariance, <1>1, PTL
================================================================================
