------------------------ MODULE EventConsumer_Proofs ------------------------
(***************************************************************************)
(* Proofs about EventOutbox and EventConsumer, for every set of events,    *)
(* dispatchers and servers and every bound.  What a dispatcher holds and   *)
(* has not counted yet, or counted and not sent yet, is what relates the   *)
(* attempts of a row to its messages on the broker.                        *)
(***************************************************************************)
EXTENDS EventConsumer, FiniteSetTheorems, TLAPS

(* A dispatcher is at one row at a time. *)
LEMMA OneAtATime ==
    ASSUME OutboxTypeOK, NEW d \in Dispatchers,
           NEW e \in Events, NEW f \in Events, At(d, e), At(d, f)
    PROVE  e = f
<1>1. e \in Nat /\ f \in Nat
  BY OutboxAssumption
<1>2. e <= f /\ f <= e
  BY DEF At
<1> QED
  BY <1>1, <1>2

(* There are finitely many dispatchers and channels. *)
LEMMA Finite ==
    /\ IsFiniteSet(Dispatchers)
    /\ IsFiniteSet(Channels)
<1>1. IsFiniteSet(Dispatchers)
  BY OutboxAssumption, FS_Union DEF Dispatchers
<1>2. IsFiniteSet(Channels)
  BY ConsumerAssumption, FS_Interval DEF Channels
<1> QED
  BY <1>1, <1>2

-----------------------------------------------------------------------------
(* Types *)

(* Closing a channel returns what it held, and its count is a number. *)
LEMMA RequeuedType ==
    ASSUME OutboxTypeOK, NEW cs \in SUBSET Channels
    PROVE  Requeued(cs) \in [Events -> Nat]
<1> SUFFICES ASSUME NEW e \in Events
             PROVE  Requeued(cs)[e] \in Nat
  BY DEF Requeued
<1> DEFINE held == {c \in cs : unacked[c].event = e /\ unacked[c] # NoDelivery}
<1>1. IsFiniteSet(held)
  BY Finite, FS_Subset
<1>2. Cardinality(held) \in Nat
  BY <1>1, FS_CardinalityType
<1> QED
  BY <1>2 DEF Requeued, OutboxTypeOK

(* The initial state is typed. *)
LEMMA TypeInit == PipelineInit => PipelineTypeOK
  BY OutboxAssumption, ConsumerAssumption
  DEF PipelineInit, OutboxInit, ConsumerInit, PipelineTypeOK, OutboxTypeOK,
      Channels, NoDelivery, Deliveries

(* Finishing a row leaves the dispatcher with the others. *)
LEMMA TypeFinish ==
    ASSUME OutboxTypeOK, NEW d \in Dispatchers, NEW e \in Events,
           pc[d] \in Counted, At(d, e), Finish(d, e)
    PROVE  /\ pc' \in [Dispatchers -> {"idle", "selecting", "counting"} \union Counted]
           /\ todo' \in [Dispatchers -> SUBSET Events]
           /\ \A x \in Dispatchers : todo'[x] = {} <=> pc'[x] \in {"idle", "selecting"}
           /\ \A x \in Dispatchers : todo'[x] \subseteq todo[x]
  BY DEF OutboxTypeOK, Finish, At, Counted

(* A dispatcher's steps keep the types. *)
LEMMA TypeProcess ==
    ASSUME OutboxTypeOK, NEW d \in Dispatchers, Process(d)
    PROVE  OutboxTypeOK'
<1> USE OutboxAssumption DEF OutboxTypeOK, rowVars, brokerVars, Fault
<1> PICK e \in Events :
        \/ CountAttempt(d, e)
        \/ SendToBroker(d, e) \/ SendAndLose(d, e) \/ SendThrows(d, e)
        \/ MarkPublished(d, e) \/ MarkThrows(d, e) \/ MarkFailed(d, e)
  BY DEF Process
<1>1. CASE CountAttempt(d, e)
  BY <1>1 DEF CountAttempt, At, Counted
<1>2. CASE SendToBroker(d, e)
  BY <1>2 DEF SendToBroker, At, Counted
<1>3. CASE SendAndLose(d, e)
  BY <1>3 DEF SendAndLose, At, Counted
<1>4. CASE SendThrows(d, e)
  BY <1>4 DEF SendThrows, AfterThrow, At, Counted
<1>5. CASE MarkPublished(d, e)
  <2>1. pc[d] \in Counted /\ At(d, e) /\ Finish(d, e)
    BY <1>5 DEF MarkPublished, Counted
  <2>2. /\ state' \in [Events -> {"none", "pending", "published", "failed"}]
        /\ \A f \in Events : state[f] # "none" => state'[f] # "none"
    BY <1>5 DEF MarkPublished
  <2> QED
    BY <1>5, <2>1, <2>2, TypeFinish DEF MarkPublished
<1>6. CASE MarkThrows(d, e)
  BY <1>6 DEF MarkThrows, AfterThrow, At, Counted
<1>7. CASE MarkFailed(d, e)
  <2>1. pc[d] \in Counted /\ At(d, e) /\ Finish(d, e)
    BY <1>7 DEF MarkFailed, Counted
  <2>2. /\ state' \in [Events -> {"none", "pending", "published", "failed"}]
        /\ \A f \in Events : state[f] # "none" => state'[f] # "none"
    BY <1>7 DEF MarkFailed, FailedRows
  <2> QED
    BY <1>7, <2>1, <2>2, TypeFinish DEF MarkFailed
<1> QED
  BY <1>1, <1>2, <1>3, <1>4, <1>5, <1>6, <1>7

(* A dispatcher selects committed rows that have attempts left. *)
LEMMA SelectedRows ==
    ASSUME NEW n
    PROVE  /\ Oldest(n) \subseteq Events
           /\ \A e \in Oldest(n) : Eligible(e)
  BY DEF Oldest

(* The outbox's own steps keep the types. *)
LEMMA TypeOutboxStep == OutboxTypeOK /\ OutboxStep => OutboxTypeOK'
<1> SUFFICES ASSUME OutboxTypeOK, OutboxStep PROVE OutboxTypeOK'
  OBVIOUS
<1> USE OutboxAssumption DEF rowVars, brokerVars, Fault
<1>1. ASSUME NEW e \in Events, RecordInTransaction(e) PROVE OutboxTypeOK'
  BY <1>1 DEF RecordInTransaction, OutboxTypeOK
<1>2. ASSUME NEW d \in Dispatchers, NEW e \in Events, RecordAndDispatch(d, e)
      PROVE  OutboxTypeOK'
  BY <1>2 DEF RecordAndDispatch, OutboxTypeOK
<1>3. ASSUME NEW d \in Dispatchers, Select(d) PROVE OutboxTypeOK'
  <2>1. PICK n : todo' = [todo EXCEPT ![d] = Oldest(n)]
    BY <1>3 DEF Select
  <2>2. todo'[d] = Oldest(n) /\ \A x \in Dispatchers \ {d} : todo'[x] = todo[x]
    BY <2>1 DEF OutboxTypeOK
  <2>3. \A e \in todo'[d] : e \in Events /\ state[e] # "none"
    BY <2>2, SelectedRows DEF Eligible
  <2> HIDE DEF Oldest
  <2> QED
    BY <1>3, <2>1, <2>2, <2>3 DEF Select, OutboxTypeOK
<1>4. ASSUME NEW d \in Dispatchers, Abort(d) PROVE OutboxTypeOK'
  BY <1>4 DEF Abort, OutboxTypeOK
<1>5. ASSUME NEW s \in Servers, LinkBreaks(s) PROVE OutboxTypeOK'
  BY <1>5 DEF LinkBreaks, OutboxTypeOK
<1> QED
  BY <1>1, <1>2, <1>3, <1>4, <1>5, TypeProcess DEF OutboxStep

(* The consumer's types, given those of the outbox. *)
ConsumerTypes ==
    /\ channels \in 0..MaxChannels
    /\ current \in 0..channels
    /\ open \subseteq 1..channels
    /\ unacked \in [Channels -> Deliveries \union {NoDelivery}]
    /\ tags \in [Channels -> Nat]
    /\ \A c \in Channels :
          unacked[c] # NoDelivery => c \in open /\ unacked[c].tag \in 1..tags[c]
    /\ running \subseteq [channel : Channels, event : Events, tag : Nat]
    /\ timers \in Nat
    /\ dead \in [Events -> Nat]
    /\ handled \subseteq Events

(* The two halves of the types. *)
LEMMA TypesSplit == PipelineTypeOK <=> OutboxTypeOK /\ ConsumerTypes
  BY DEF PipelineTypeOK, ConsumerTypes

(* A channel that is closed holds nothing, and the others are as before. *)
LEMMA TypeClose ==
    ASSUME PipelineTypeOK, NEW cs \in SUBSET open, NEW n \in Nat, Close(cs, n),
           channels' = channels, tags' = tags, dead' = dead,
           handled' \subseteq Events,
           running' \subseteq running
    PROVE  ConsumerTypes' /\ queued' \in [Events -> Nat]
<1>1. cs \in SUBSET Channels /\ OutboxTypeOK
  BY ConsumerAssumption DEF PipelineTypeOK, Channels
<1>2. queued' \in [Events -> Nat]
  BY <1>1, RequeuedType DEF Close
<1>3. ConsumerTypes'
  BY ConsumerAssumption DEF PipelineTypeOK, Close, ConsumerTypes, Channels
<1> QED
  BY <1>2, <1>3

(* A delivery's fields. *)
LEMMA DeliveryFields ==
    ASSUME NEW e \in Events, NEW t \in Nat
    PROVE  /\ [event |-> e, tag |-> t] \in Deliveries
           /\ [event |-> e, tag |-> t] # NoDelivery
  BY OutboxAssumption DEF Deliveries, NoDelivery

(* The consumer's steps keep the types. *)
LEMMA TypeConsumerStep == PipelineTypeOK /\ ConsumerStep => PipelineTypeOK'
<1> SUFFICES ASSUME PipelineTypeOK, ConsumerStep PROVE PipelineTypeOK'
  OBVIOUS
<1> USE ConsumerAssumption, OutboxAssumption
<1>1. CASE Connect
  <2>1. OutboxTypeOK'
    BY <1>1 DEF Connect, outboxVars, OutboxTypeOK, PipelineTypeOK
  <2>2. ConsumerTypes'
    BY <1>1 DEF Connect, PipelineTypeOK, ConsumerTypes
  <2> QED
    BY <2>1, <2>2 DEF PipelineTypeOK, ConsumerTypes
<1>2. ASSUME NEW c \in Channels, NEW e \in Events, Deliver(c, e)
      PROVE  PipelineTypeOK'
  <2>1. queued' \in [Events -> Nat]
    BY <1>2 DEF Deliver, Left, PipelineTypeOK, OutboxTypeOK
  <2>2. OutboxTypeOK'
    BY <1>2, <2>1 DEF Deliver, rowVars, PipelineTypeOK, OutboxTypeOK
  <2> DEFINE d == [event |-> e, tag |-> tags'[c]]
  <2>3. /\ tags' \in [Channels -> Nat]
        /\ tags'[c] = tags[c] + 1
        /\ \A x \in Channels \ {c} : tags'[x] = tags[x]
    BY <1>2 DEF Deliver, PipelineTypeOK
  <2>4. d \in Deliveries /\ d.tag = tags'[c]
    BY <2>3, DeliveryFields
  <2>5. /\ unacked' = [unacked EXCEPT ![c] = d]
        /\ running' = running \union {[channel |-> c, event |-> e, tag |-> tags'[c]]}
    BY <1>2 DEF Deliver, Held
  <2>6. [channel |-> c, event |-> e, tag |-> tags'[c]]
            \in [channel : Channels, event : Events, tag : Nat]
    BY <2>3
  <2>7. unacked' \in [Channels -> Deliveries \union {NoDelivery}]
    BY <2>4, <2>5 DEF PipelineTypeOK
  <2>8. \A x \in Channels : unacked'[x] # NoDelivery =>
            x \in open' /\ unacked'[x].tag \in 1..tags'[x]
    <3> SUFFICES ASSUME NEW x \in Channels, unacked'[x] # NoDelivery
                 PROVE  x \in open' /\ unacked'[x].tag \in 1..tags'[x]
      OBVIOUS
    <3> HIDE DEF d
    <3>1. CASE x = c
      <4>1. unacked'[c] = d
        BY <2>5 DEF PipelineTypeOK
      <4> QED
        BY <1>2, <2>3, <2>4, <3>1, <4>1 DEF Deliver, PipelineTypeOK
    <3>2. CASE x # c
      BY <1>2, <2>3, <2>5, <3>2 DEF Deliver, PipelineTypeOK
    <3> QED
      BY <3>1, <3>2
  <2> HIDE DEF d
  <2>9. ConsumerTypes'
    BY <1>2, <2>3, <2>5, <2>6, <2>7, <2>8 DEF Deliver, PipelineTypeOK, ConsumerTypes
  <2> QED
    BY <2>2, <2>9, TypesSplit DEF PipelineTypeOK, ConsumerTypes
<1>3. ASSUME NEW h \in running, HandlerEnds(h) PROVE PipelineTypeOK'
  <2>1. /\ handled' \subseteq Events /\ running' \subseteq running
        /\ channels' = channels /\ tags' = tags /\ dead' = dead
    BY <1>3 DEF HandlerEnds, PipelineTypeOK
  <2>2. ConsumerTypes' /\ queued' \in [Events -> Nat]
    <3>1. CASE current = 0
      BY <1>3, <2>1, <3>1
      DEF HandlerEnds, Acknowledge, PipelineTypeOK, OutboxTypeOK, ConsumerTypes
    <3>2. CASE current # 0 /\ unacked[current] # NoDelivery /\ unacked[current].tag = h.tag
      <4>1. /\ unacked' = [unacked EXCEPT ![current] = NoDelivery]
            /\ UNCHANGED <<queued, open, timers, current>>
        BY <1>3, <3>2 DEF HandlerEnds, Acknowledge
      <4> QED
        BY <2>1, <4>1 DEF PipelineTypeOK, OutboxTypeOK, ConsumerTypes
    <3>3. CASE current # 0 /\ ~(unacked[current] # NoDelivery /\ unacked[current].tag = h.tag)
      <4>1. Close({current}, 1)
        BY <1>3, <3>3 DEF HandlerEnds, Acknowledge
      <4>2. /\ queued' = Requeued({current})
            /\ open' = open \ {current}
            /\ unacked' = [c \in Channels |->
                              IF c \in {current} THEN NoDelivery ELSE unacked[c]]
            /\ timers' = timers + 1
            /\ current' = 0
        BY <4>1 DEF Close
      <4>3. queued' \in [Events -> Nat]
        <5>1. {current} \in SUBSET Channels
          BY <3>3 DEF PipelineTypeOK, Channels
        <5>2. Requeued({current}) \in [Events -> Nat]
          BY <5>1, RequeuedType DEF PipelineTypeOK
        <5> QED
          BY <4>2, <5>2
      <4>4. ConsumerTypes'
        BY <2>1, <4>2 DEF PipelineTypeOK, ConsumerTypes
      <4> QED
        BY <4>3, <4>4
    <3> QED
      BY <3>1, <3>2, <3>3
  <2>3. OutboxTypeOK'
    BY <1>3, <2>2 DEF HandlerEnds, rowVars, PipelineTypeOK, OutboxTypeOK
  <2> QED
    BY <2>2, <2>3 DEF PipelineTypeOK, ConsumerTypes
<1>4. ASSUME NEW c \in Channels, ConnectionLost(c) PROVE PipelineTypeOK'
  <2>1. PICK n \in Nat : Close({c}, n)
    BY <1>4 DEF ConnectionLost
  <2>2. ConsumerTypes' /\ queued' \in [Events -> Nat]
    BY <1>4, <2>1, TypeClose DEF ConnectionLost, PipelineTypeOK
  <2>3. OutboxTypeOK'
    BY <1>4, <2>2 DEF ConnectionLost, rowVars, Fault, PipelineTypeOK, OutboxTypeOK
  <2> QED
    BY <2>2, <2>3 DEF PipelineTypeOK, ConsumerTypes
<1>5. CASE ConnectFails
  <2>1. OutboxTypeOK'
    BY <1>5 DEF ConnectFails, rowVars, brokerVars, Fault, OutboxTypeOK, PipelineTypeOK
  <2>2. ConsumerTypes'
    BY <1>5 DEF ConnectFails, PipelineTypeOK, ConsumerTypes
  <2> QED
    BY <2>1, <2>2, TypesSplit DEF PipelineTypeOK, ConsumerTypes
<1>6. ASSUME NEW e \in Events, Expire(e) PROVE PipelineTypeOK'
  <2>1. queued' \in [Events -> Nat] /\ dead' \in [Events -> Nat]
    BY <1>6 DEF Expire, PipelineTypeOK, OutboxTypeOK
  <2>2. OutboxTypeOK'
    BY <1>6, <2>1 DEF Expire, rowVars, PipelineTypeOK, OutboxTypeOK
  <2>3. ConsumerTypes'
    BY <1>6, <2>1 DEF Expire, PipelineTypeOK, ConsumerTypes
  <2> QED
    BY <2>2, <2>3 DEF PipelineTypeOK, ConsumerTypes
<1> QED
  BY <1>1, <1>2, <1>3, <1>4, <1>5, <1>6 DEF ConsumerStep

(* A restart keeps the types. *)
LEMMA TypeRestart ==
    ASSUME PipelineTypeOK, NEW s \in Servers, Restart(s), UNCHANGED sent,
           \/ UNCHANGED <<queued, consumerVars>>
           \/ ConsumerRestarts
    PROVE  PipelineTypeOK'
<1>1. queued' \in [Events -> Nat]
  <2>1. open \in SUBSET Channels
    BY ConsumerAssumption DEF PipelineTypeOK, Channels
  <2>2. Requeued(open) \in [Events -> Nat]
    BY <2>1, RequeuedType DEF PipelineTypeOK
  <2> QED
    BY <2>2 DEF ConsumerRestarts, PipelineTypeOK, OutboxTypeOK
<1>2. OutboxTypeOK'
  <2>1. /\ UNCHANGED <<state, attempts, sent>>
        /\ faults' \in 0..MaxFaults
        /\ link' = [link EXCEPT ![s] = "up"]
        /\ pc' = [d \in Dispatchers |-> IF HostOf[d] = s THEN "idle" ELSE pc[d]]
        /\ todo' = [d \in Dispatchers |-> IF HostOf[d] = s THEN {} ELSE todo[d]]
    BY OutboxAssumption DEF Restart, rowVars, Fault, PipelineTypeOK, OutboxTypeOK
  <2>2. \A d \in Dispatchers :
            (pc'[d] = "idle" /\ todo'[d] = {}) \/ (pc'[d] = pc[d] /\ todo'[d] = todo[d])
    BY <2>1
  <2>3. pc' \in [Dispatchers -> {"idle", "selecting", "counting"} \union Counted]
    BY <2>1 DEF PipelineTypeOK, OutboxTypeOK
  <2>4. todo' \in [Dispatchers -> SUBSET Events]
    BY <2>1 DEF PipelineTypeOK, OutboxTypeOK
  <2>5. link' \in [Servers -> {"up", "broken"}]
    BY <2>1 DEF PipelineTypeOK, OutboxTypeOK
  <2>6. \A d \in Dispatchers :
            /\ todo'[d] = {} <=> pc'[d] \in {"idle", "selecting"}
            /\ \A e \in todo'[d] : state'[e] # "none"
    BY <2>1, <2>2 DEF PipelineTypeOK, OutboxTypeOK
  <2> QED
    BY <1>1, <2>1, <2>3, <2>4, <2>5, <2>6 DEF PipelineTypeOK, OutboxTypeOK
<1>3. CASE UNCHANGED <<queued, consumerVars>>
  BY <1>2, <1>3 DEF consumerVars, PipelineTypeOK
<1>4. CASE ConsumerRestarts
  <2>1. ConsumerTypes'
    BY <1>4, ConsumerAssumption
    DEF ConsumerRestarts, PipelineTypeOK, ConsumerTypes, Channels
  <2> QED
    BY <1>2, <2>1 DEF PipelineTypeOK, ConsumerTypes
<1> QED
  BY <1>3, <1>4

(* Every step of the pipeline keeps the types. *)
LEMMA TypeStep == PipelineTypeOK /\ [PipelineNext]_pipelineVars => PipelineTypeOK'
<1> SUFFICES ASSUME PipelineTypeOK, [PipelineNext]_pipelineVars
             PROVE  PipelineTypeOK'
  OBVIOUS
<1>1. CASE OutboxStep /\ UNCHANGED consumerVars
  <2>1. OutboxTypeOK'
    BY <1>1, TypeOutboxStep DEF PipelineTypeOK
  <2> QED
    BY <1>1, <2>1 DEF PipelineTypeOK, consumerVars
<1>2. CASE ConsumerStep
  BY <1>2, TypeConsumerStep
<1>3. CASE \E s \in Servers \ {Home} :
             Restart(s) /\ UNCHANGED <<brokerVars, consumerVars>>
  BY <1>3, TypeRestart DEF brokerVars
<1>4. CASE Restart(Home) /\ ConsumerRestarts /\ UNCHANGED sent
  BY <1>4, TypeRestart, ConsumerAssumption
<1>5. CASE UNCHANGED pipelineVars
  BY <1>5 DEF pipelineVars, outboxVars, consumerVars, PipelineTypeOK, OutboxTypeOK
<1> QED
  BY <1>1, <1>2, <1>3, <1>4, <1>5 DEF PipelineNext

(* Types hold, for any number of servers, dispatchers, channels and faults. *)
THEOREM PipelineTypeCorrect == PipelineSpec => []PipelineTypeOK
<1>1. PipelineInit => PipelineTypeOK
  BY TypeInit
<1>2. PipelineTypeOK /\ [PipelineNext]_pipelineVars => PipelineTypeOK'
  BY TypeStep
<1> QED
  BY <1>1, <1>2, PTL DEF PipelineSpec

-----------------------------------------------------------------------------
(* The promise of EventDelivery *)

(* What is about to be marked published, and what the broker and the handlers
   hold, was sent. *)
OnlySentTravels ==
    /\ \A d \in Dispatchers, e \in Events :
          pc[d] = "marking" /\ At(d, e) => e \in sent
    /\ \A e \in Events : queued[e] > 0 => e \in sent
    /\ \A c \in Channels : unacked[c] # NoDelivery => unacked[c].event \in sent
    /\ \A h \in running : h.event \in sent

(* What a channel returns when it closes was sent. *)
LEMMA RequeuedWasSent ==
    ASSUME PipelineTypeOK, OnlySentTravels, NEW cs \in SUBSET Channels,
           NEW e \in Events, Requeued(cs)[e] > 0
    PROVE  e \in sent
<1> DEFINE held == {c \in cs : unacked[c].event = e /\ unacked[c] # NoDelivery}
<1>1. CASE queued[e] > 0
  BY <1>1 DEF OnlySentTravels
<1>2. CASE ~(queued[e] > 0)
  <2>1. queued[e] = 0
    BY <1>2 DEF PipelineTypeOK, OutboxTypeOK
  <2>2. Cardinality(held) # 0
    BY <2>1 DEF Requeued
  <2>3. held # {}
    BY <2>2, FS_EmptySet
  <2> QED
    BY <2>3 DEF OnlySentTravels
<1> QED
  BY <1>1, <1>2

(* Nothing on its way changes when a row is finished but the row. *)
LEMMA SentFinish ==
    ASSUME PipelineTypeOK, OnlySentTravels, NEW d \in Dispatchers, NEW e \in Events,
           Finish(d, e), UNCHANGED <<sent, queued, consumerVars>>
    PROVE  OnlySentTravels'
<1>1. \A x \in Dispatchers \ {d} : pc'[x] = pc[x] /\ todo'[x] = todo[x]
  BY DEF Finish, PipelineTypeOK, OutboxTypeOK
<1>2. pc'[d] # "marking"
  BY DEF Finish, PipelineTypeOK, OutboxTypeOK
<1> QED
  BY <1>1, <1>2 DEF OnlySentTravels, At, consumerVars

(* A dispatcher's steps. *)
LEMMA SentProcess ==
    ASSUME PipelineTypeOK, OnlySentTravels, NEW d \in Dispatchers, Process(d),
           UNCHANGED consumerVars
    PROVE  OnlySentTravels'
<1> USE DEF rowVars, brokerVars, consumerVars, At
<1> PICK e \in Events :
        \/ CountAttempt(d, e)
        \/ SendToBroker(d, e) \/ SendAndLose(d, e) \/ SendThrows(d, e)
        \/ MarkPublished(d, e) \/ MarkThrows(d, e) \/ MarkFailed(d, e)
  BY DEF Process
<1>1. CASE CountAttempt(d, e)
  BY <1>1 DEF CountAttempt, OnlySentTravels, PipelineTypeOK, OutboxTypeOK
<1>2. CASE SendToBroker(d, e) \/ SendAndLose(d, e)
  <2>1. /\ pc' = [pc EXCEPT ![d] = "marking"] /\ todo' = todo
        /\ sent' = sent \union {e}
        /\ \A f \in Events \ {e} : queued'[f] = queued[f]
        /\ At(d, e)
    BY <1>2 DEF SendToBroker, SendAndLose, PipelineTypeOK, OutboxTypeOK
  <2>2. \A f \in Events : At(d, f) => f = e
    BY <2>1, OneAtATime DEF PipelineTypeOK
  <2>3. \A x \in Dispatchers \ {d} : pc'[x] = pc[x]
    BY <2>1 DEF PipelineTypeOK, OutboxTypeOK
  <2> QED
    BY <2>1, <2>2, <2>3 DEF OnlySentTravels
<1>3. CASE SendThrows(d, e) \/ MarkThrows(d, e)
  BY <1>3 DEF SendThrows, MarkThrows, AfterThrow, OnlySentTravels, PipelineTypeOK, OutboxTypeOK
<1>4. CASE MarkPublished(d, e) \/ MarkFailed(d, e)
  BY <1>4, SentFinish DEF MarkPublished, MarkFailed
<1> QED
  BY <1>1, <1>2, <1>3, <1>4

(* The outbox's steps. *)
LEMMA SentOutboxStep ==
    ASSUME PipelineTypeOK, OnlySentTravels, OutboxStep, UNCHANGED consumerVars
    PROVE  OnlySentTravels'
<1> USE DEF rowVars, brokerVars, consumerVars, At
<1>1. ASSUME NEW e \in Events, RecordInTransaction(e) PROVE OnlySentTravels'
  BY <1>1 DEF RecordInTransaction, OnlySentTravels
<1>2. ASSUME NEW d \in Dispatchers, NEW e \in Events, RecordAndDispatch(d, e)
      PROVE  OnlySentTravels'
  BY <1>2 DEF RecordAndDispatch, OnlySentTravels, PipelineTypeOK, OutboxTypeOK
<1>3. ASSUME NEW d \in Dispatchers, Select(d) PROVE OnlySentTravels'
  <2>1. /\ pc'[d] # "marking"
        /\ \A x \in Dispatchers \ {d} : pc'[x] = pc[x] /\ todo'[x] = todo[x]
        /\ UNCHANGED <<sent, queued>>
    BY <1>3 DEF Select, PipelineTypeOK, OutboxTypeOK
  <2> QED
    BY <2>1 DEF OnlySentTravels
<1>4. ASSUME NEW d \in Dispatchers, Abort(d) PROVE OnlySentTravels'
  BY <1>4 DEF Abort, OnlySentTravels, PipelineTypeOK, OutboxTypeOK
<1>5. ASSUME NEW s \in Servers, LinkBreaks(s) PROVE OnlySentTravels'
  BY <1>5 DEF LinkBreaks, OnlySentTravels
<1> QED
  BY <1>1, <1>2, <1>3, <1>4, <1>5, SentProcess DEF OutboxStep

(* Closing channels. *)
LEMMA SentClose ==
    ASSUME PipelineTypeOK, OnlySentTravels, NEW cs \in SUBSET Channels, NEW n,
           Close(cs, n), UNCHANGED <<pc, todo, sent>>, running' \subseteq running
    PROVE  OnlySentTravels'
<1>1. \A e \in Events : queued'[e] > 0 => e \in sent
  BY RequeuedWasSent DEF Close
<1>2. \A c \in Channels : unacked'[c] = unacked[c] \/ unacked'[c] = NoDelivery
  BY DEF Close, PipelineTypeOK
<1> QED
  BY <1>1, <1>2 DEF OnlySentTravels, At

(* The consumer's steps. *)
LEMMA SentConsumerStep ==
    ASSUME PipelineTypeOK, OnlySentTravels, ConsumerStep
    PROVE  OnlySentTravels'
<1>1. CASE Connect
  BY <1>1 DEF Connect, outboxVars, OnlySentTravels, At
<1>2. ASSUME NEW c \in Channels, NEW e \in Events, Deliver(c, e)
      PROVE  OnlySentTravels'
  <2>1. e \in sent
    BY <1>2 DEF Deliver, OnlySentTravels
  <2>2. \A f \in Events : queued'[f] > 0 => f \in sent
    BY <1>2, <2>1 DEF Deliver, Left, OnlySentTravels, PipelineTypeOK, OutboxTypeOK
  <2>3. /\ \A h \in running' : h \in running \/ h.event = e
        /\ \A x \in Channels : unacked'[x] = unacked[x] \/ unacked'[x].event = e
    BY <1>2 DEF Deliver, Held, PipelineTypeOK
  <2> QED
    BY <1>2, <2>1, <2>2, <2>3 DEF Deliver, OnlySentTravels, At
<1>3. ASSUME NEW h \in running, HandlerEnds(h) PROVE OnlySentTravels'
  <2>1. UNCHANGED <<pc, todo, sent>> /\ running' \subseteq running
    BY <1>3 DEF HandlerEnds
  <2>2. CASE current # 0 /\ Close({current}, 1)
    <3>1. {current} \in SUBSET Channels
      BY <2>2, ConsumerAssumption DEF PipelineTypeOK, Channels
    <3> QED
      BY <2>1, <2>2, <3>1, SentClose
  <2>3. CASE queued' = queued /\ (unacked' = unacked \/
                                  unacked' = [unacked EXCEPT ![current] = NoDelivery])
    <3>1. \A c \in Channels : unacked'[c] = unacked[c] \/ unacked'[c] = NoDelivery
      BY <2>3 DEF PipelineTypeOK
    <3> QED
      BY <2>1, <2>3, <3>1 DEF OnlySentTravels, At
  <2> QED
    BY <1>3, <2>2, <2>3 DEF HandlerEnds, Acknowledge
<1>4. ASSUME NEW c \in Channels, ConnectionLost(c) PROVE OnlySentTravels'
  <2>1. PICK n : Close({c}, n)
    BY <1>4 DEF ConnectionLost
  <2> QED
    BY <1>4, <2>1, SentClose DEF ConnectionLost
<1>5. CASE ConnectFails
  BY <1>5 DEF ConnectFails, brokerVars, OnlySentTravels, At
<1>6. ASSUME NEW e \in Events, Expire(e) PROVE OnlySentTravels'
  <2>1. \A f \in Events : queued'[f] > 0 => f \in sent
    BY <1>6 DEF Expire, OnlySentTravels, PipelineTypeOK, OutboxTypeOK
  <2> QED
    BY <1>6, <2>1 DEF Expire, OnlySentTravels, At
<1> QED
  BY <1>1, <1>2, <1>3, <1>4, <1>5, <1>6 DEF ConsumerStep

(* A restart. *)
LEMMA SentRestart ==
    ASSUME PipelineTypeOK, OnlySentTravels, NEW s \in Servers, Restart(s),
           UNCHANGED sent,
           \/ UNCHANGED <<queued, consumerVars>>
           \/ ConsumerRestarts
    PROVE  OnlySentTravels'
<1>1. \A d \in Dispatchers :
          pc'[d] = "idle" \/ (pc'[d] = pc[d] /\ todo'[d] = todo[d])
  BY DEF Restart, PipelineTypeOK, OutboxTypeOK
<1>2. CASE UNCHANGED <<queued, consumerVars>>
  BY <1>1, <1>2 DEF OnlySentTravels, At, consumerVars
<1>3. CASE ConsumerRestarts
  <2>1. open \in SUBSET Channels
    BY ConsumerAssumption DEF PipelineTypeOK, Channels
  <2>2. \A e \in Events : queued'[e] > 0 => e \in sent
    BY <1>3, <2>1, RequeuedWasSent DEF ConsumerRestarts
  <2> QED
    BY <1>1, <1>3, <2>2 DEF ConsumerRestarts, OnlySentTravels, At
<1> QED
  BY <1>2, <1>3

(* Every step of the pipeline moves only what was sent. *)
LEMMA SentStep ==
    PipelineTypeOK /\ OnlySentTravels /\ [PipelineNext]_pipelineVars
        => OnlySentTravels'
<1> SUFFICES ASSUME PipelineTypeOK, OnlySentTravels, [PipelineNext]_pipelineVars
             PROVE  OnlySentTravels'
  OBVIOUS
<1>1. CASE OutboxStep /\ UNCHANGED consumerVars
  BY <1>1, SentOutboxStep
<1>2. CASE ConsumerStep
  BY <1>2, SentConsumerStep
<1>3. CASE \E s \in Servers \ {Home} :
             Restart(s) /\ UNCHANGED <<brokerVars, consumerVars>>
  BY <1>3, SentRestart DEF brokerVars
<1>4. CASE Restart(Home) /\ ConsumerRestarts /\ UNCHANGED sent
  BY <1>4, SentRestart, ConsumerAssumption
<1>5. CASE UNCHANGED pipelineVars
  BY <1>5 DEF pipelineVars, outboxVars, consumerVars, OnlySentTravels, At
<1> QED
  BY <1>1, <1>2, <1>3, <1>4, <1>5 DEF PipelineNext

Rows == {e \in Events : state[e] # "none"}
Published == {e \in Events : state[e] = "published"}

(* A dispatcher's step is a step of the promise, or changes nothing in it. *)
LEMMA ProcessKeepsThePromise ==
    ASSUME PipelineTypeOK, OnlySentTravels, NEW d \in Dispatchers, Process(d),
           UNCHANGED handled
    PROVE  [Delivery!DeliveryNext]_(Delivery!deliveryVars)
<1> USE DEF rowVars, brokerVars
<1> PICK e \in Events :
        \/ CountAttempt(d, e)
        \/ SendToBroker(d, e) \/ SendAndLose(d, e) \/ SendThrows(d, e)
        \/ MarkPublished(d, e) \/ MarkThrows(d, e) \/ MarkFailed(d, e)
  BY DEF Process
<1>1. CASE CountAttempt(d, e) \/ SendThrows(d, e) \/ MarkThrows(d, e)
  BY <1>1 DEF CountAttempt, SendThrows, MarkThrows, Delivery!deliveryVars
<1>2. CASE SendToBroker(d, e) \/ SendAndLose(d, e)
  <2>1. e \in Rows /\ UNCHANGED <<state, handled>> /\ sent' = sent \union {e}
    BY <1>2 DEF SendToBroker, SendAndLose, At, Rows, PipelineTypeOK, OutboxTypeOK
  <2>2. Delivery!Send(e)
    BY <2>1 DEF Delivery!Send, Rows
  <2> QED
    BY <2>2 DEF Delivery!DeliveryNext
<1>3. CASE MarkPublished(d, e)
  <2>1. /\ e \in sent /\ state[e] # "none"
        /\ state' = [state EXCEPT ![e] = "published"] /\ UNCHANGED <<sent, handled>>
    BY <1>3 DEF MarkPublished, At, OnlySentTravels, PipelineTypeOK, OutboxTypeOK
  <2>2. Rows' = Rows /\ Published' = Published \union {e}
    BY <2>1 DEF Rows, Published, PipelineTypeOK, OutboxTypeOK
  <2>3. Delivery!Confirm(e)
    BY <2>1, <2>2 DEF Delivery!Confirm, Rows, Published
  <2> QED
    BY <2>3 DEF Delivery!DeliveryNext
<1>4. CASE MarkFailed(d, e)
  <2>1. /\ state[e] # "none"
        /\ state' = [f \in Events |-> IF f \in {e} THEN "failed" ELSE state[f]]
        /\ UNCHANGED <<sent, handled>>
    BY <1>4 DEF MarkFailed, FailedRows, At, PipelineTypeOK, OutboxTypeOK
  <2>2. Rows' = Rows /\ Published' = Published \ {e}
    BY <2>1 DEF Rows, Published, PipelineTypeOK, OutboxTypeOK
  <2>3. Delivery!Retract(e)
    BY <2>1, <2>2 DEF Delivery!Retract, Rows, Published
  <2> QED
    BY <2>3 DEF Delivery!DeliveryNext
<1> QED
  BY <1>1, <1>2, <1>3, <1>4

(* So is every step of the pipeline. *)
LEMMA StepKeepsThePromise ==
    PipelineTypeOK /\ OnlySentTravels /\ [PipelineNext]_pipelineVars
        => [Delivery!DeliveryNext]_(Delivery!deliveryVars)
<1> SUFFICES ASSUME PipelineTypeOK, OnlySentTravels, [PipelineNext]_pipelineVars
             PROVE  [Delivery!DeliveryNext]_(Delivery!deliveryVars)
  OBVIOUS
<1> USE DEF rowVars, brokerVars
<1>1. ASSUME OutboxStep, UNCHANGED consumerVars
      PROVE  [Delivery!DeliveryNext]_(Delivery!deliveryVars)
  <2>1. UNCHANGED handled
    BY <1>1 DEF consumerVars
  <2>2. ASSUME NEW e \in Events,
               RecordInTransaction(e) \/ \E d \in Dispatchers : RecordAndDispatch(d, e)
        PROVE  [Delivery!DeliveryNext]_(Delivery!deliveryVars)
    <3>1. /\ state[e] = "none" /\ state' = [state EXCEPT ![e] = "pending"]
          /\ UNCHANGED sent
      BY <2>2 DEF RecordInTransaction, RecordAndDispatch
    <3>2. Rows' = Rows \union {e} /\ Published' = Published
      BY <3>1 DEF Rows, Published, PipelineTypeOK, OutboxTypeOK
    <3>3. Delivery!Record(e)
      BY <2>1, <3>1, <3>2 DEF Delivery!Record, Rows, Published
    <3> QED
      BY <3>3 DEF Delivery!DeliveryNext
  <2>3. ASSUME NEW d \in Dispatchers, Select(d) \/ Abort(d)
        PROVE  [Delivery!DeliveryNext]_(Delivery!deliveryVars)
    BY <2>1, <2>3 DEF Select, Abort, Delivery!deliveryVars
  <2>4. ASSUME NEW d \in Dispatchers, Process(d)
        PROVE  [Delivery!DeliveryNext]_(Delivery!deliveryVars)
    BY <2>1, <2>4, ProcessKeepsThePromise
  <2>5. ASSUME NEW s \in Servers, LinkBreaks(s)
        PROVE  [Delivery!DeliveryNext]_(Delivery!deliveryVars)
    BY <2>1, <2>5 DEF LinkBreaks, Delivery!deliveryVars
  <2> QED
    BY <1>1, <2>2, <2>3, <2>4, <2>5 DEF OutboxStep
<1>2. ASSUME ConsumerStep
      PROVE  [Delivery!DeliveryNext]_(Delivery!deliveryVars)
  <2>1. ASSUME NEW h \in running, HandlerEnds(h)
        PROVE  [Delivery!DeliveryNext]_(Delivery!deliveryVars)
    <3>1. /\ h.event \in Events /\ h.event \in sent
          /\ handled' = handled \union {h.event} /\ UNCHANGED <<state, sent>>
      BY <2>1 DEF HandlerEnds, OnlySentTravels, PipelineTypeOK
    <3>2. Delivery!Handle(h.event)
      BY <3>1 DEF Delivery!Handle
    <3> QED
      BY <3>1, <3>2 DEF Delivery!DeliveryNext
  <2>2. ASSUME \/ Connect
               \/ ConnectFails
               \/ \E e \in Events : Expire(e)
               \/ \E c \in Channels, e \in Events : Deliver(c, e)
               \/ \E c \in Channels : ConnectionLost(c)
        PROVE  [Delivery!DeliveryNext]_(Delivery!deliveryVars)
    BY <2>2
    DEF Connect, ConnectFails, Deliver, Expire, ConnectionLost, outboxVars, rowVars,
        brokerVars, Delivery!deliveryVars
  <2> QED
    BY <1>2, <2>1, <2>2 DEF ConsumerStep
<1>3. ASSUME UNCHANGED <<state, sent, handled>>
      PROVE  [Delivery!DeliveryNext]_(Delivery!deliveryVars)
  BY <1>3 DEF Delivery!deliveryVars
<1> QED
  BY <1>1, <1>2, <1>3
  DEF PipelineNext, Restart, ConsumerRestarts, consumerVars, pipelineVars, outboxVars

(* The pipeline implements EventDelivery: events are sent once committed, and
   marked published and handled once sent, whatever crashes, repeats or is
   lost in between. *)
THEOREM PipelineKeepsThePromise == PipelineSpec => KeepsThePromise
<1>1. PipelineInit => Delivery!DeliveryInit /\ PipelineTypeOK /\ OnlySentTravels
  <2>1. PipelineInit => Delivery!DeliveryInit
    BY DEF PipelineInit, OutboxInit, ConsumerInit, Delivery!DeliveryInit
  <2>2. PipelineInit => OnlySentTravels
    BY DEF PipelineInit, OutboxInit, ConsumerInit, OnlySentTravels
  <2> QED
    BY <2>1, <2>2, TypeInit
<1>2. PipelineTypeOK /\ OnlySentTravels /\ [PipelineNext]_pipelineVars
          => PipelineTypeOK' /\ OnlySentTravels'
  BY TypeStep, SentStep
<1> QED
  BY <1>1, <1>2, StepKeepsThePromise, PTL
  DEF PipelineSpec, KeepsThePromise, Delivery!DeliverySpec

-----------------------------------------------------------------------------
(* Marks and attempts *)

(* The dispatcher has counted its attempt at the row. *)
Tries(d, e) == pc[d] \in Counted /\ At(d, e)

(* Every mark and every dispatcher at work has an attempt of its own. *)
TriesCounted ==
    /\ \A e \in Events, d \in Dispatchers : Tries(d, e) => attempts[e] >= 1
    /\ \A e \in Events : state[e] = "published" => attempts[e] >= 1
    /\ \A e \in Events, d \in Dispatchers :
          state[e] = "published" /\ Tries(d, e) => attempts[e] >= 2
    /\ \A e \in Events, d1, d2 \in Dispatchers :
          d1 # d2 /\ Tries(d1, e) /\ Tries(d2, e) => attempts[e] >= 2

(* Dispatchers that have selected the row and not counted an attempt yet. *)
Holders(e) == {d \in Dispatchers : e \in todo[d] /\ ~Tries(d, e)}

(* Attempts counted and attempts that will be. *)
HoldersBounded ==
    \A e \in Events :
        attempts[e] + Cardinality(Holders(e))
            <= MaxAttempts - 1 + Cardinality(Dispatchers)

(* The holders of a row are some of the dispatchers. *)
LEMMA HoldersFinite ==
    ASSUME NEW e \in Events, NEW S \in SUBSET Dispatchers
    PROVE  /\ IsFiniteSet(S)
           /\ Cardinality(S) \in Nat
           /\ Cardinality(Dispatchers) \in Nat
           /\ Cardinality(S) <= Cardinality(Dispatchers)
<1>1. IsFiniteSet(S) /\ IsFiniteSet(Dispatchers)
  BY Finite, FS_Subset
<1>2. Cardinality(S) <= Cardinality(Dispatchers)
  BY Finite, FS_Subset
<1> QED
  BY <1>1, <1>2, FS_CardinalityType

(* As long as nothing is counted and nothing selected, both hold on. *)
LEMMA TriesQuiet ==
    ASSUME PipelineTypeOK, TriesCounted, HoldersBounded,
           attempts' = attempts,
           \A e \in Events : state'[e] = "published" => state[e] = "published",
           \A e \in Events, d \in Dispatchers :
               /\ Tries(d, e)' => Tries(d, e)
               /\ e \in todo'[d] /\ ~Tries(d, e)' => e \in todo[d] /\ ~Tries(d, e)
    PROVE  TriesCounted' /\ HoldersBounded'
<1>1. TriesCounted'
  BY DEF TriesCounted
<1>2. HoldersBounded'
  <2> SUFFICES ASSUME NEW e \in Events
               PROVE  attempts'[e] + Cardinality(Holders(e)')
                          <= MaxAttempts - 1 + Cardinality(Dispatchers)
    BY DEF HoldersBounded
  <2>1. Holders(e)' \subseteq Holders(e) /\ Holders(e) \in SUBSET Dispatchers
    BY DEF Holders
  <2>2. Cardinality(Holders(e)') <= Cardinality(Holders(e))
    BY <2>1, HoldersFinite, FS_Subset
  <2>3. Cardinality(Holders(e)') \in Nat /\ Cardinality(Holders(e)) \in Nat
        /\ Cardinality(Dispatchers) \in Nat
    BY <2>1, HoldersFinite
  <2> QED
    BY <2>2, <2>3, OutboxAssumption DEF HoldersBounded, PipelineTypeOK, OutboxTypeOK
<1> QED
  BY <1>1, <1>2

(* Selecting rows with attempts left keeps the bound. *)
LEMMA TriesSelect ==
    ASSUME PipelineTypeOK, TriesCounted, HoldersBounded,
           NEW d \in Dispatchers, Select(d)
    PROVE  TriesCounted' /\ HoldersBounded'
<1>1. PICK n : todo' = [todo EXCEPT ![d] = Oldest(n)]
  BY DEF Select
<1>2. /\ todo'[d] = Oldest(n)
      /\ \A x \in Dispatchers \ {d} : todo'[x] = todo[x] /\ pc'[x] = pc[x]
      /\ pc'[d] \notin Counted /\ pc[d] \notin Counted
      /\ UNCHANGED <<state, attempts>>
  BY <1>1 DEF Select, rowVars, Counted, PipelineTypeOK, OutboxTypeOK
<1>3. \A x \in Dispatchers, e \in Events : Tries(x, e)' <=> Tries(x, e)
  BY <1>2 DEF Tries, At
<1>4. TriesCounted'
  BY <1>2, <1>3 DEF TriesCounted
<1>5. ASSUME NEW e \in Events
      PROVE  attempts'[e] + Cardinality(Holders(e)')
                 <= MaxAttempts - 1 + Cardinality(Dispatchers)
  <2>1. Holders(e)' \in SUBSET Dispatchers /\ Holders(e) \in SUBSET Dispatchers
    BY DEF Holders
  <2>2. CASE e \in Oldest(n)
    <3>1. attempts[e] < MaxAttempts
      BY <2>2, SelectedRows DEF Eligible
    <3>2. Cardinality(Holders(e)') <= Cardinality(Dispatchers)
          /\ Cardinality(Holders(e)') \in Nat /\ Cardinality(Dispatchers) \in Nat
      BY <2>1, HoldersFinite
    <3> QED
      BY <1>2, <3>1, <3>2, OutboxAssumption DEF PipelineTypeOK, OutboxTypeOK
  <2>3. CASE e \notin Oldest(n)
    <3>1. Holders(e)' \subseteq Holders(e)
      BY <1>2, <1>3, <2>3 DEF Holders
    <3>2. Cardinality(Holders(e)') <= Cardinality(Holders(e))
      BY <2>1, <3>1, HoldersFinite, FS_Subset
    <3>3. Cardinality(Holders(e)') \in Nat /\ Cardinality(Holders(e)) \in Nat
          /\ Cardinality(Dispatchers) \in Nat
      BY <2>1, HoldersFinite
    <3> QED
      BY <1>2, <3>2, <3>3, OutboxAssumption
      DEF HoldersBounded, PipelineTypeOK, OutboxTypeOK
  <2> QED
    BY <2>2, <2>3
<1> QED
  BY <1>4, <1>5 DEF HoldersBounded

(* Counting an attempt turns a holder into one that tries. *)
LEMMA TriesCount ==
    ASSUME PipelineTypeOK, TriesCounted, HoldersBounded,
           NEW d \in Dispatchers, NEW e \in Events, CountAttempt(d, e)
    PROVE  TriesCounted' /\ HoldersBounded'
<1>1. /\ UNCHANGED <<state, todo>>
      /\ attempts' = [attempts EXCEPT ![e] = @ + 1]
      /\ pc[d] \notin Counted /\ pc'[d] \in Counted
      /\ \A x \in Dispatchers \ {d} : pc'[x] = pc[x]
      /\ At(d, e)
  BY DEF CountAttempt, Counted, PipelineTypeOK, OutboxTypeOK
<1>2. \A f \in Events : At(d, f) => f = e
  BY <1>1, OneAtATime DEF PipelineTypeOK
<1>3. \A x \in Dispatchers, f \in Events :
          Tries(x, f)' <=> Tries(x, f) \/ (x = d /\ f = e)
  BY <1>1, <1>2 DEF Tries, At
<1>4. attempts'[e] = attempts[e] + 1 /\ attempts[e] \in Nat
      /\ \A f \in Events \ {e} : attempts'[f] = attempts[f]
  BY <1>1 DEF PipelineTypeOK, OutboxTypeOK
<1>5. TriesCounted'
  <2>1. \A f \in Events : attempts[f] \in Nat /\ attempts'[f] >= attempts[f]
    BY <1>1, <1>4 DEF PipelineTypeOK, OutboxTypeOK
  <2>2. \A f \in Events, x \in Dispatchers : Tries(x, f)' => attempts'[f] >= 1
    BY <1>3, <1>4, <2>1 DEF TriesCounted
  <2>3. \A f \in Events : state'[f] = "published" => attempts'[f] >= 1
    BY <1>1, <2>1 DEF TriesCounted
  <2>4. \A f \in Events, x \in Dispatchers :
            state'[f] = "published" /\ Tries(x, f)' => attempts'[f] >= 2
    BY <1>1, <1>3, <1>4, <2>1 DEF TriesCounted
  <2>5. \A f \in Events, x, y \in Dispatchers :
            x # y /\ Tries(x, f)' /\ Tries(y, f)' => attempts'[f] >= 2
    BY <1>3, <1>4, <2>1 DEF TriesCounted
  <2> QED
    BY <2>2, <2>3, <2>4, <2>5 DEF TriesCounted
<1>6. ASSUME NEW f \in Events
      PROVE  attempts'[f] + Cardinality(Holders(f)')
                 <= MaxAttempts - 1 + Cardinality(Dispatchers)
  <2>1. Holders(f) \in SUBSET Dispatchers
    BY DEF Holders
  <2>2. Cardinality(Holders(f)) \in Nat /\ Cardinality(Dispatchers) \in Nat
        /\ IsFiniteSet(Holders(f))
    BY <2>1, HoldersFinite
  <2>3. CASE f = e
    <3>1. d \in Holders(e)
      BY <1>1 DEF Holders, Tries, At
    <3>2. Holders(e)' = Holders(e) \ {d}
      BY <1>1, <1>3 DEF Holders
    <3>3. Cardinality(Holders(e)') = Cardinality(Holders(e)) - 1
      BY <2>2, <2>3, <3>1, <3>2, FS_RemoveElement
    <3> QED
      BY <1>4, <2>2, <2>3, <3>3, OutboxAssumption DEF HoldersBounded
  <2>4. CASE f # e
    <3>1. Holders(f)' = Holders(f)
      BY <1>1, <1>3, <2>4 DEF Holders
    <3> QED
      BY <1>4, <2>4, <3>1 DEF HoldersBounded
  <2> QED
    BY <2>3, <2>4
<1> QED
  BY <1>5, <1>6 DEF HoldersBounded

(* Finishing a row: the dispatcher tries none, and holds what it held. *)
LEMMA TriesFinish ==
    ASSUME PipelineTypeOK, NEW d \in Dispatchers, NEW e \in Events,
           pc[d] \in Counted, At(d, e), Finish(d, e)
    PROVE  \A x \in Dispatchers, f \in Events :
               /\ Tries(x, f)' <=> Tries(x, f) /\ x # d
               /\ f \in todo'[x] /\ ~Tries(x, f)' => f \in todo[x] /\ ~Tries(x, f)
<1>1. /\ pc'[d] \notin Counted
      /\ todo'[d] = todo[d] \ {e}
      /\ \A x \in Dispatchers \ {d} : pc'[x] = pc[x] /\ todo'[x] = todo[x]
  BY DEF Finish, Counted, PipelineTypeOK, OutboxTypeOK
<1>2. \A f \in Events : At(d, f) => f = e
  BY OneAtATime DEF PipelineTypeOK
<1> QED
  BY <1>1, <1>2 DEF Tries, At

(* Publishing marks a row whose attempt is counted; another that still tries
   has counted one more. *)
LEMMA TriesPublish ==
    ASSUME PipelineTypeOK, TriesCounted, HoldersBounded,
           NEW d \in Dispatchers, NEW e \in Events, MarkPublished(d, e)
    PROVE  TriesCounted' /\ HoldersBounded'
<1>1. pc[d] \in Counted /\ At(d, e) /\ Finish(d, e) /\ attempts' = attempts
      /\ \A f \in Events : state'[f] = "published" <=> state[f] = "published" \/ f = e
  BY DEF MarkPublished, Counted, PipelineTypeOK, OutboxTypeOK
<1>2. \A x \in Dispatchers, f \in Events :
          /\ Tries(x, f)' <=> Tries(x, f) /\ x # d
          /\ f \in todo'[x] /\ ~Tries(x, f)' => f \in todo[x] /\ ~Tries(x, f)
  BY <1>1, TriesFinish
<1>3. Tries(d, e)
  BY <1>1 DEF Tries
<1>4. TriesCounted'
  BY <1>1, <1>2, <1>3 DEF TriesCounted
<1>5. HoldersBounded'
  <2> SUFFICES ASSUME NEW f \in Events
               PROVE  attempts'[f] + Cardinality(Holders(f)')
                          <= MaxAttempts - 1 + Cardinality(Dispatchers)
    BY DEF HoldersBounded
  <2>1. Holders(f)' \subseteq Holders(f) /\ Holders(f) \in SUBSET Dispatchers
    BY <1>2 DEF Holders
  <2>2. Cardinality(Holders(f)') <= Cardinality(Holders(f))
    BY <2>1, HoldersFinite, FS_Subset
  <2>3. Cardinality(Holders(f)') \in Nat /\ Cardinality(Holders(f)) \in Nat
        /\ Cardinality(Dispatchers) \in Nat
    BY <2>1, HoldersFinite
  <2> QED
    BY <1>1, <2>2, <2>3, OutboxAssumption DEF HoldersBounded, PipelineTypeOK, OutboxTypeOK
<1> QED
  BY <1>4, <1>5

(* A dispatcher's steps count what they must. *)
LEMMA TriesProcess ==
    ASSUME PipelineTypeOK, TriesCounted, HoldersBounded,
           NEW d \in Dispatchers, Process(d)
    PROVE  TriesCounted' /\ HoldersBounded'
<1> USE DEF rowVars
<1> PICK e \in Events :
        \/ CountAttempt(d, e)
        \/ SendToBroker(d, e) \/ SendAndLose(d, e) \/ SendThrows(d, e)
        \/ MarkPublished(d, e) \/ MarkThrows(d, e) \/ MarkFailed(d, e)
  BY DEF Process
<1>1. CASE SendToBroker(d, e) \/ SendAndLose(d, e) \/ SendThrows(d, e) \/ MarkThrows(d, e)
  <2>1. UNCHANGED <<state, attempts, todo>>
    BY <1>1 DEF SendToBroker, SendAndLose, SendThrows, MarkThrows
  <2>2. \A x \in Dispatchers : pc'[x] \in Counted <=> pc[x] \in Counted
    BY <1>1
    DEF SendToBroker, SendAndLose, SendThrows, MarkThrows, AfterThrow, Counted,
        PipelineTypeOK, OutboxTypeOK
  <2>3. \A x \in Dispatchers, f \in Events : Tries(x, f)' <=> Tries(x, f)
    BY <2>1, <2>2 DEF Tries, At
  <2> QED
    BY <2>1, <2>3, TriesQuiet
<1>2. CASE MarkFailed(d, e)
  <2>1. pc[d] \in Counted /\ At(d, e) /\ Finish(d, e) /\ attempts' = attempts
        /\ \A f \in Events : state'[f] = "published" => state[f] = "published"
    BY <1>2 DEF MarkFailed, Counted
  <2>2. \A x \in Dispatchers, f \in Events :
            /\ Tries(x, f)' => Tries(x, f)
            /\ f \in todo'[x] /\ ~Tries(x, f)' => f \in todo[x] /\ ~Tries(x, f)
    BY <2>1, TriesFinish
  <2> QED
    BY <2>1, <2>2, TriesQuiet
<1> QED
  BY <1>1, <1>2, TriesCount, TriesPublish

(* Every step counts what it must. *)
LEMMA TriesStep ==
    PipelineTypeOK /\ TriesCounted /\ HoldersBounded /\ [PipelineNext]_pipelineVars
        => TriesCounted' /\ HoldersBounded'
<1> SUFFICES ASSUME PipelineTypeOK, TriesCounted, HoldersBounded,
                    [PipelineNext]_pipelineVars
             PROVE  TriesCounted' /\ HoldersBounded'
  OBVIOUS
<1> USE DEF rowVars
<1>1. ASSUME OutboxStep PROVE TriesCounted' /\ HoldersBounded'
  <2>1. ASSUME NEW e \in Events,
               \/ RecordInTransaction(e)
               \/ \E d \in Dispatchers : RecordAndDispatch(d, e)
        PROVE  TriesCounted' /\ HoldersBounded'
    <3>1. /\ UNCHANGED <<attempts, todo>>
          /\ \A f \in Events : state'[f] = "published" => state[f] = "published"
          /\ \A x \in Dispatchers : pc'[x] \in Counted <=> pc[x] \in Counted
      BY <2>1
      DEF RecordInTransaction, RecordAndDispatch, Counted, PipelineTypeOK, OutboxTypeOK
    <3>2. \A x \in Dispatchers, f \in Events : Tries(x, f)' <=> Tries(x, f)
      BY <3>1 DEF Tries, At
    <3> QED
      BY <3>1, <3>2, TriesQuiet
  <2>2. ASSUME NEW d \in Dispatchers, Abort(d)
        PROVE  TriesCounted' /\ HoldersBounded'
    <3>1. /\ UNCHANGED <<state, attempts>>
          /\ pc'[d] = "idle" /\ todo'[d] = {}
          /\ \A x \in Dispatchers \ {d} : pc'[x] = pc[x] /\ todo'[x] = todo[x]
      BY <2>2 DEF Abort, PipelineTypeOK, OutboxTypeOK
    <3>2. \A x \in Dispatchers, f \in Events :
              /\ Tries(x, f)' => Tries(x, f)
              /\ f \in todo'[x] /\ ~Tries(x, f)' => f \in todo[x] /\ ~Tries(x, f)
      BY <3>1 DEF Tries, At, Counted
    <3> QED
      BY <3>1, <3>2, TriesQuiet
  <2>3. ASSUME NEW s \in Servers, LinkBreaks(s)
        PROVE  TriesCounted' /\ HoldersBounded'
    <3>1. UNCHANGED <<state, attempts, pc, todo>>
      BY <2>3 DEF LinkBreaks
    <3>2. \A x \in Dispatchers, f \in Events : Tries(x, f)' <=> Tries(x, f)
      BY <3>1 DEF Tries, At
    <3> QED
      BY <3>1, <3>2, TriesQuiet
  <2> QED
    BY <1>1, <2>1, <2>2, <2>3, TriesSelect, TriesProcess DEF OutboxStep
<1>2. ASSUME UNCHANGED <<state, attempts, pc, todo>>
      PROVE  TriesCounted' /\ HoldersBounded'
  <2>1. \A x \in Dispatchers, f \in Events : Tries(x, f)' <=> Tries(x, f)
    BY <1>2 DEF Tries, At
  <2> QED
    BY <1>2, <2>1, TriesQuiet
<1>3. ASSUME NEW s \in Servers, Restart(s)
      PROVE  TriesCounted' /\ HoldersBounded'
  <2>1. /\ UNCHANGED <<state, attempts>>
        /\ \A d \in Dispatchers :
              \/ pc'[d] = "idle" /\ todo'[d] = {}
              \/ pc'[d] = pc[d] /\ todo'[d] = todo[d]
    BY <1>3 DEF Restart, PipelineTypeOK, OutboxTypeOK
  <2>2. \A x \in Dispatchers, f \in Events :
            /\ Tries(x, f)' => Tries(x, f)
            /\ f \in todo'[x] /\ ~Tries(x, f)' => f \in todo[x] /\ ~Tries(x, f)
    BY <2>1 DEF Tries, At, Counted
  <2> QED
    BY <2>1, <2>2, TriesQuiet
<1>4. CASE ConsumerStep
  BY <1>2, <1>4
  DEF ConsumerStep, Connect, ConnectFails, Deliver, Expire, HandlerEnds,
      ConnectionLost, rowVars, outboxVars
<1> QED
  BY <1>1, <1>2, <1>3, <1>4, ConsumerAssumption DEF PipelineNext, pipelineVars, outboxVars

(* Initially nothing is counted and nothing held. *)
LEMMA TriesInit == PipelineInit => TriesCounted /\ HoldersBounded
<1> SUFFICES ASSUME PipelineInit PROVE TriesCounted /\ HoldersBounded
  OBVIOUS
<1>1. TriesCounted
  BY DEF PipelineInit, OutboxInit, TriesCounted, Tries, Counted
<1>2. ASSUME NEW e \in Events
      PROVE  attempts[e] + Cardinality(Holders(e))
                 <= MaxAttempts - 1 + Cardinality(Dispatchers)
  <2>1. Holders(e) = {} /\ attempts[e] = 0
    BY DEF PipelineInit, OutboxInit, Holders
  <2>2. Cardinality(Holders(e)) = 0 /\ Cardinality(Dispatchers) \in Nat
    BY <2>1, FS_EmptySet, Finite, FS_CardinalityType
  <2> QED
    BY <2>1, <2>2, OutboxAssumption
<1> QED
  BY <1>1, <1>2 DEF HoldersBounded

(* A row is tried at most once for each attempt it may have and each other
   dispatcher. *)
THEOREM AttemptsAreBounded == PipelineSpec => []AttemptsBounded
<1>1. PipelineInit => PipelineTypeOK /\ TriesCounted /\ HoldersBounded
  BY TypeInit, TriesInit
<1>2. PipelineTypeOK /\ TriesCounted /\ HoldersBounded /\ [PipelineNext]_pipelineVars
          => (PipelineTypeOK /\ TriesCounted /\ HoldersBounded)'
  BY TypeStep, TriesStep
<1>3. PipelineTypeOK /\ HoldersBounded => AttemptsBounded
  <2> SUFFICES ASSUME PipelineTypeOK, HoldersBounded, NEW e \in Events
               PROVE  attempts[e] <= MaxAttempts - 1 + Cardinality(Dispatchers)
    BY DEF AttemptsBounded
  <2>1. Holders(e) \in SUBSET Dispatchers
    BY DEF Holders
  <2>2. Cardinality(Holders(e)) \in Nat /\ Cardinality(Dispatchers) \in Nat
    BY <2>1, HoldersFinite
  <2> QED
    BY <2>2, OutboxAssumption DEF HoldersBounded, PipelineTypeOK, OutboxTypeOK
<1> QED
  BY <1>1, <1>2, <1>3, PTL DEF PipelineSpec

(* A row that was published turns failed only after a second attempt. *)
THEOREM MarksRaceOnly == PipelineSpec => MarksRace
<1> DEFINE Raced == \A e \in Events :
                        state[e] = "published" /\ state'[e] = "failed" => attempts[e] > 1
<1>1. PipelineInit => PipelineTypeOK /\ TriesCounted /\ HoldersBounded
  BY TypeInit, TriesInit
<1>2. PipelineTypeOK /\ TriesCounted /\ HoldersBounded /\ [PipelineNext]_pipelineVars
          => (PipelineTypeOK /\ TriesCounted /\ HoldersBounded)'
  BY TypeStep, TriesStep
<1>3. PipelineTypeOK /\ TriesCounted /\ [PipelineNext]_pipelineVars => Raced
  <2> SUFFICES ASSUME PipelineTypeOK, TriesCounted, [PipelineNext]_pipelineVars,
                      NEW e \in Events, state[e] = "published", state'[e] = "failed"
               PROVE  attempts[e] > 1
    OBVIOUS
  <2>1. \E d \in Dispatchers, f \in Events : MarkPublished(d, f) \/ MarkFailed(d, f)
    BY DEF PipelineNext, OutboxStep, RecordInTransaction, RecordAndDispatch, Select,
           Process, CountAttempt, SendToBroker, SendAndLose, SendThrows, MarkThrows,
           Abort, LinkBreaks, Restart, ConsumerStep, Connect, ConnectFails, Deliver,
           Expire, HandlerEnds, ConnectionLost, rowVars, outboxVars, pipelineVars, PipelineTypeOK, OutboxTypeOK
  <2>2. PICK d \in Dispatchers, f \in Events : MarkPublished(d, f) \/ MarkFailed(d, f)
    BY <2>1
  <2>3. f = e /\ MarkFailed(d, f)
    BY <2>2 DEF MarkPublished, MarkFailed, FailedRows, PipelineTypeOK, OutboxTypeOK
  <2>4. Tries(d, e)
    BY <2>3 DEF MarkFailed, Tries, Counted
  <2> QED
    BY <2>4 DEF TriesCounted, PipelineTypeOK, OutboxTypeOK
<1>4. PipelineTypeOK /\ TriesCounted /\ [PipelineNext]_pipelineVars
          => [Raced]_pipelineVars
  BY <1>3
<1> QED
  BY <1>1, <1>2, <1>4, PTL DEF PipelineSpec, MarksRace

-----------------------------------------------------------------------------
(* Messages on the broker *)

(* Channels that hold a message of the event. *)
HeldBy(e) == {c \in Channels : unacked[c].event = e}

(* Dispatchers that counted an attempt at the event and send it next. *)
Senders(e) == {d \in Dispatchers : pc[d] = "sending" /\ At(d, e)}

(* Each message, and each message about to be sent, has an attempt. *)
CopiesAndSenders ==
    \A e \in Events : Copies(e) + Cardinality(Senders(e)) <= attempts[e]

(* A running handler's message, if it is still unacknowledged, is found under
   its channel and tag. *)
Tagged ==
    \A h \in running :
        /\ h.channel <= channels
        /\ h.tag <= tags[h.channel]
        /\ unacked[h.channel] # NoDelivery /\ unacked[h.channel].tag = h.tag
              => unacked[h.channel].event = h.event

(* Copies are counted in numbers. *)
LEMMA CopiesType ==
    ASSUME PipelineTypeOK, NEW e \in Events
    PROVE  /\ IsFiniteSet(HeldBy(e)) /\ Cardinality(HeldBy(e)) \in Nat
           /\ IsFiniteSet(Senders(e)) /\ Cardinality(Senders(e)) \in Nat
           /\ Copies(e) = queued[e] + dead[e] + Cardinality(HeldBy(e))
           /\ queued[e] \in Nat /\ dead[e] \in Nat
           /\ Copies(e) \in Nat
<1>1. IsFiniteSet(HeldBy(e)) /\ IsFiniteSet(Senders(e))
  <2>1. HeldBy(e) \subseteq Channels /\ Senders(e) \subseteq Dispatchers
    BY DEF HeldBy, Senders
  <2> QED
    BY <2>1, Finite, FS_Subset
<1>2. Cardinality(HeldBy(e)) \in Nat /\ Cardinality(Senders(e)) \in Nat
  BY <1>1, FS_CardinalityType
<1>3. Copies(e) = queued[e] + dead[e] + Cardinality(HeldBy(e))
  BY DEF Copies, HeldBy
<1> QED
  BY <1>1, <1>2, <1>3 DEF PipelineTypeOK, OutboxTypeOK

(* The same in the next state. *)
LEMMA CopiesNext ==
    ASSUME NEW e \in Events
    PROVE  Copies(e)' = queued'[e] + dead'[e] + Cardinality(HeldBy(e)')
  BY DEF Copies, HeldBy

(* A channel that closes returns what it held. *)
LEMMA CloseKeepsCopies ==
    ASSUME PipelineTypeOK, NEW cs \in SUBSET Channels,
           queued' = Requeued(cs),
           \A c \in cs : unacked'[c] = NoDelivery,
           \A c \in Channels \ cs : unacked'[c] = unacked[c],
           dead' = dead, NEW e \in Events
    PROVE  Copies(e)' = Copies(e)
<1> DEFINE returned == {c \in cs : unacked[c].event = e /\ unacked[c] # NoDelivery}
<1>1. e # 0 /\ NoDelivery.event = 0
  BY OutboxAssumption DEF NoDelivery
<1>2. HeldBy(e) = HeldBy(e)' \union returned /\ HeldBy(e)' \intersect returned = {}
  BY <1>1 DEF HeldBy
<1>3. IsFiniteSet(HeldBy(e)') /\ IsFiniteSet(returned)
  BY <1>2, CopiesType, FS_Subset
<1>4. Cardinality(HeldBy(e)) = Cardinality(HeldBy(e)') + Cardinality(returned)
  <2>1. Cardinality(HeldBy(e)' \union returned) =
            Cardinality(HeldBy(e)') + Cardinality(returned)
                - Cardinality(HeldBy(e)' \intersect returned)
    BY <1>3, FS_Union
  <2>2. Cardinality(HeldBy(e)' \intersect returned) = 0
    BY <1>2, FS_EmptySet
  <2>3. Cardinality(HeldBy(e)') \in Nat /\ Cardinality(returned) \in Nat
    BY <1>3, FS_CardinalityType
  <2> QED
    BY <1>2, <2>1, <2>2, <2>3
<1>5. queued'[e] = queued[e] + Cardinality(returned)
  BY DEF Requeued
<1>6. Cardinality(HeldBy(e)') \in Nat /\ Cardinality(returned) \in Nat /\ queued[e] \in Nat
  BY <1>3, FS_CardinalityType DEF PipelineTypeOK, OutboxTypeOK
<1> HIDE DEF returned
<1> QED
  BY <1>4, <1>5, <1>6, CopiesType, CopiesNext

(* A delivery moves a message from the queue to a channel. *)
LEMMA DeliverKeepsCopies ==
    ASSUME PipelineTypeOK, NEW c \in Channels, NEW f \in Events, Deliver(c, f),
           NEW e \in Events
    PROVE  Copies(e)' = Copies(e)
<1>1. /\ unacked[c] = NoDelivery
      /\ queued[f] > 0
      /\ queued' = [queued EXCEPT ![f] = @ - 1]
      /\ unacked'[c].event = f
      /\ \A x \in Channels \ {c} : unacked'[x] = unacked[x]
      /\ dead' = dead
  BY DEF Deliver, Left, Held, PipelineTypeOK
<1>2. NoDelivery.event = 0 /\ e # 0 /\ f # 0
  BY OutboxAssumption DEF NoDelivery
<1>3. CASE e = f
  <2>1. HeldBy(e)' = HeldBy(e) \union {c} /\ c \notin HeldBy(e)
    BY <1>1, <1>2, <1>3 DEF HeldBy
  <2>2. Cardinality(HeldBy(e)') = Cardinality(HeldBy(e)) + 1
    BY <2>1, CopiesType, FS_AddElement
  <2> QED
    BY <1>1, <1>3, <2>2, CopiesType, CopiesNext DEF PipelineTypeOK, OutboxTypeOK
<1>4. CASE e # f
  <2>1. HeldBy(e)' = HeldBy(e)
    BY <1>1, <1>2, <1>4 DEF HeldBy
  <2> QED
    BY <1>1, <1>4, <2>1, CopiesType, CopiesNext DEF PipelineTypeOK, OutboxTypeOK
<1> QED
  BY <1>3, <1>4

(* A message that expires is a dead letter. *)
LEMMA ExpireKeepsCopies ==
    ASSUME PipelineTypeOK, NEW f \in Events, Expire(f), NEW e \in Events
    PROVE  Copies(e)' = Copies(e)
<1>1. HeldBy(e)' = HeldBy(e)
  BY DEF Expire, HeldBy
<1>2. queued'[e] + dead'[e] = queued[e] + dead[e]
  BY DEF Expire, PipelineTypeOK, OutboxTypeOK
<1> QED
  BY <1>1, <1>2, CopiesType, CopiesNext

(* An acknowledgement removes the message of the current channel that has its
   tag, if there is one, and no other. *)
LEMMA AcknowledgeRemovesOne ==
    ASSUME PipelineTypeOK, Tagged, NEW h \in running, HandlerEnds(h),
           NEW e \in Events
    PROVE  /\ Copies(e)' <= Copies(e)
           /\ Copies(e)' < Copies(e) => e = h.event \/ channels > 1
<1> dead' = dead
  BY DEF HandlerEnds
<1>1. CASE current = 0
  <2>1. HeldBy(e)' = HeldBy(e) /\ queued' = queued
    BY <1>1 DEF HandlerEnds, Acknowledge, HeldBy
  <2> QED
    BY <2>1, CopiesType, CopiesNext
<1>2. CASE current # 0 /\ unacked[current] # NoDelivery /\ unacked[current].tag = h.tag
  <2>1. current \in Channels
    BY <1>2, ConsumerAssumption DEF PipelineTypeOK, Channels
  <2>2. queued' = queued /\ unacked' = [unacked EXCEPT ![current] = NoDelivery]
    BY <1>2 DEF HandlerEnds, Acknowledge
  <2>3. NoDelivery.event = 0 /\ e # 0
    BY OutboxAssumption DEF NoDelivery
  <2>4. CASE unacked[current].event = e
    <3>1. HeldBy(e)' = HeldBy(e) \ {current} /\ current \in HeldBy(e)
      BY <2>1, <2>2, <2>3, <2>4 DEF HeldBy, PipelineTypeOK
    <3>2. Cardinality(HeldBy(e)') = Cardinality(HeldBy(e)) - 1
      BY <3>1, CopiesType, FS_RemoveElement
    <3>3. channels <= 1 => e = h.event
      <4>1. h.channel \in 1..MaxChannels /\ h.channel <= channels
        BY DEF Tagged, PipelineTypeOK, Channels
      <4>2. channels <= 1 => h.channel = current
        BY <1>2, <4>1, ConsumerAssumption DEF PipelineTypeOK
      <4> QED
        BY <1>2, <2>4, <4>2 DEF Tagged
    <3>4. Copies(e)' <= Copies(e)
      <4>1. queued[e] \in Nat
        BY DEF PipelineTypeOK, OutboxTypeOK
      <4> QED
        BY <2>2, <3>2, <4>1, CopiesType, CopiesNext
    <3>5. channels \in Nat
      BY ConsumerAssumption DEF PipelineTypeOK
    <3> QED
      BY <3>3, <3>4, <3>5
  <2>5. CASE unacked[current].event # e
    <3>1. HeldBy(e)' = HeldBy(e)
      BY <2>1, <2>2, <2>3, <2>5 DEF HeldBy, PipelineTypeOK
    <3> QED
      BY <2>2, <3>1, CopiesType, CopiesNext
  <2> QED
    BY <2>4, <2>5
<1>3. CASE current # 0 /\ ~(unacked[current] # NoDelivery /\ unacked[current].tag = h.tag)
  <2>1. {current} \in SUBSET Channels
    BY <1>3, ConsumerAssumption DEF PipelineTypeOK, Channels
  <2>2. Close({current}, 1)
    BY <1>3 DEF HandlerEnds, Acknowledge
  <2>3. Copies(e)' = Copies(e)
    BY <2>1, <2>2, CloseKeepsCopies DEF Close
  <2> QED
    BY <2>3, CopiesType
<1> QED
  BY <1>1, <1>2, <1>3

(* Handlers keep naming their messages. *)
LEMMA TaggedStep ==
    PipelineTypeOK /\ Tagged /\ [PipelineNext]_pipelineVars => Tagged'
<1> SUFFICES ASSUME PipelineTypeOK, Tagged, [PipelineNext]_pipelineVars
             PROVE  Tagged'
  OBVIOUS
<1>1. ASSUME running' \subseteq running, channels' >= channels, tags' = tags,
             \A c \in Channels : unacked'[c] = unacked[c] \/ unacked'[c] = NoDelivery,
             channels' \in Nat
      PROVE  Tagged'
  <2> SUFFICES ASSUME NEW h \in running'
               PROVE  /\ h.channel <= channels'
                      /\ h.tag <= tags'[h.channel]
                      /\ unacked'[h.channel] # NoDelivery
                            /\ unacked'[h.channel].tag = h.tag
                            => unacked'[h.channel].event = h.event
    BY DEF Tagged
  <2>1. h \in running /\ h.channel \in Channels
    BY <1>1 DEF PipelineTypeOK
  <2>2. h.channel <= channels'
    BY <1>1, <2>1, ConsumerAssumption DEF Tagged, PipelineTypeOK, Channels
  <2> QED
    BY <1>1, <2>1, <2>2 DEF Tagged
<1>2. ASSUME UNCHANGED consumerVars PROVE Tagged'
  BY <1>2 DEF consumerVars, Tagged
<1>3. ASSUME NEW c \in Channels, NEW e \in Events, Deliver(c, e) PROVE Tagged'
  <2> DEFINE new == [channel |-> c, event |-> e, tag |-> tags'[c]]
  <2>1. /\ tags'[c] = tags[c] + 1 /\ tags[c] \in Nat
        /\ \A x \in Channels \ {c} : tags'[x] = tags[x] /\ unacked'[x] = unacked[x]
        /\ unacked'[c] = [event |-> e, tag |-> tags'[c]]
        /\ running' = running \union {new}
        /\ channels' = channels
        /\ c \in open
    BY <1>3 DEF Deliver, Held, PipelineTypeOK
  <2>2. new.channel = c /\ new.tag = tags'[c] /\ new.event = e
    OBVIOUS
  <2>3. c <= channels
    <3>1. open \subseteq 1..channels /\ channels \in Nat
      BY ConsumerAssumption DEF PipelineTypeOK
    <3> HIDE DEF new
    <3> QED
      BY <2>1, <3>1
  <2> HIDE DEF new
  <2> SUFFICES ASSUME NEW h \in running'
               PROVE  /\ h.channel <= channels'
                      /\ h.tag <= tags'[h.channel]
                      /\ unacked'[h.channel] # NoDelivery
                            /\ unacked'[h.channel].tag = h.tag
                            => unacked'[h.channel].event = h.event
    BY DEF Tagged
  <2>4. CASE h = new
    BY <2>1, <2>2, <2>3, <2>4
  <2>5. CASE h # new
    <3>1. h \in running /\ h.channel \in Channels /\ h.tag \in Nat
      BY <2>1, <2>5 DEF PipelineTypeOK
    <3>2. CASE h.channel = c
      <4>1. h.tag <= tags[c] /\ h.channel <= channels
        BY <3>1, <3>2 DEF Tagged
      <4>2. h.tag # tags'[c] /\ h.tag <= tags'[c]
        BY <2>1, <3>1, <4>1
      <4>3. unacked'[c].tag = tags'[c]
        BY <2>1
      <4> QED
        BY <2>1, <3>2, <4>1, <4>2, <4>3
    <3>3. CASE h.channel # c
      BY <2>1, <3>1, <3>3 DEF Tagged
    <3> QED
      BY <3>2, <3>3
  <2> QED
    BY <2>4, <2>5
<1>4. ASSUME ConsumerRestarts PROVE Tagged'
  BY <1>4 DEF ConsumerRestarts, Tagged
<1>5. ASSUME Connect PROVE Tagged'
  BY <1>1, <1>5, ConsumerAssumption DEF Connect, PipelineTypeOK
<1>6. ASSUME NEW h \in running, HandlerEnds(h) PROVE Tagged'
  <2>1. \A c \in Channels : unacked'[c] = unacked[c] \/ unacked'[c] = NoDelivery
    BY <1>6 DEF HandlerEnds, Acknowledge, Close, PipelineTypeOK
  <2> QED
    BY <1>1, <1>6, <2>1, ConsumerAssumption DEF HandlerEnds, PipelineTypeOK
<1>7. ASSUME NEW c \in Channels, ConnectionLost(c) PROVE Tagged'
  <2>1. \A x \in Channels : unacked'[x] = unacked[x] \/ unacked'[x] = NoDelivery
    BY <1>7 DEF ConnectionLost, Close
  <2> QED
    BY <1>1, <1>7, <2>1, ConsumerAssumption DEF ConnectionLost, PipelineTypeOK
<1>8. ASSUME ConnectFails PROVE Tagged'
  BY <1>8 DEF ConnectFails, Tagged
<1>9. ASSUME NEW e \in Events, Expire(e) PROVE Tagged'
  BY <1>9 DEF Expire, Tagged
<1> QED
  BY <1>2, <1>3, <1>4, <1>5, <1>6, <1>7, <1>8, <1>9
  DEF PipelineNext, ConsumerStep, pipelineVars

(* No step makes copies, but a send, which had its attempt counted. *)
LEMMA CopiesQuiet ==
    ASSUME PipelineTypeOK, CopiesAndSenders, NEW e \in Events,
           attempts'[e] = attempts[e],
           Copies(e)' <= Copies(e), Copies(e)' \in Nat,
           \A d \in Dispatchers :
               pc'[d] = "sending" /\ At(d, e)' => pc[d] = "sending" /\ At(d, e)
    PROVE  Copies(e)' + Cardinality(Senders(e)') <= attempts'[e]
<1>1. Senders(e)' \subseteq Senders(e)
  BY DEF Senders
<1>2. /\ Cardinality(Senders(e)') <= Cardinality(Senders(e))
      /\ Cardinality(Senders(e)') \in Nat
  BY <1>1, CopiesType, FS_Subset, FS_CardinalityType
<1> QED
  BY <1>2, CopiesType DEF CopiesAndSenders, PipelineTypeOK, OutboxTypeOK

(* A dispatcher's steps: an attempt is counted first and its message sent at
   most once. *)
LEMMA CopiesProcess ==
    ASSUME PipelineTypeOK, PipelineTypeOK', CopiesAndSenders,
           NEW d \in Dispatchers, Process(d), UNCHANGED consumerVars,
           NEW e \in Events
    PROVE  /\ Copies(e)' + Cardinality(Senders(e)') <= attempts'[e]
           /\ Copies(e)' >= Copies(e)
<1> USE DEF rowVars, brokerVars
<1>1. HeldBy(e)' = HeldBy(e) /\ dead' = dead
  BY DEF HeldBy, consumerVars
<1> PICK f \in Events :
        \/ CountAttempt(d, f)
        \/ SendToBroker(d, f) \/ SendAndLose(d, f) \/ SendThrows(d, f)
        \/ MarkPublished(d, f) \/ MarkThrows(d, f) \/ MarkFailed(d, f)
  BY DEF Process
<1>2. CASE CountAttempt(d, f)
  <2>1. /\ UNCHANGED <<queued, todo>>
        /\ attempts' = [attempts EXCEPT ![f] = @ + 1]
        /\ pc' = [pc EXCEPT ![d] = "sending"] /\ pc[d] = "counting"
        /\ At(d, f)
    BY <1>2 DEF CountAttempt
  <2>2. \A g \in Events : At(d, g) => g = f
    BY <2>1, OneAtATime DEF PipelineTypeOK
  <2>3. Copies(e)' = Copies(e)
    BY <1>1, <2>1, CopiesType, CopiesNext
  <2>4. CASE e = f
    <3>1. Senders(e)' = Senders(e) \union {d} /\ d \notin Senders(e)
      BY <2>1, <2>4 DEF Senders, At, PipelineTypeOK, OutboxTypeOK
    <3>2. Cardinality(Senders(e)') = Cardinality(Senders(e)) + 1
      BY <3>1, CopiesType, FS_AddElement
    <3>3. attempts'[e] = attempts[e] + 1 /\ attempts[e] \in Nat
      BY <2>1, <2>4 DEF PipelineTypeOK, OutboxTypeOK
    <3> QED
      BY <2>3, <3>2, <3>3, CopiesType DEF CopiesAndSenders
  <2>5. CASE e # f
    <3>1. Senders(e)' = Senders(e)
      BY <2>1, <2>2, <2>5 DEF Senders, At, PipelineTypeOK, OutboxTypeOK
    <3>2. attempts'[e] = attempts[e]
      BY <2>1, <2>5 DEF PipelineTypeOK, OutboxTypeOK
    <3> QED
      BY <2>3, <3>1, <3>2, CopiesType DEF CopiesAndSenders
  <2> QED
    BY <2>4, <2>5
<1>3. CASE SendToBroker(d, f)
  <2>1. /\ UNCHANGED <<attempts, todo>>
        /\ queued' = [queued EXCEPT ![f] = @ + 1]
        /\ pc' = [pc EXCEPT ![d] = "marking"] /\ pc[d] = "sending"
        /\ At(d, f)
    BY <1>3 DEF SendToBroker
  <2>2. \A g \in Events : At(d, g) => g = f
    BY <2>1, OneAtATime DEF PipelineTypeOK
  <2>3. CASE e = f
    <3>1. Senders(e)' = Senders(e) \ {d} /\ d \in Senders(e)
      BY <2>1, <2>3 DEF Senders, At, PipelineTypeOK, OutboxTypeOK
    <3>2. Cardinality(Senders(e)') = Cardinality(Senders(e)) - 1
      BY <3>1, CopiesType, FS_RemoveElement
    <3>3. queued'[e] = queued[e] + 1 /\ queued[e] \in Nat /\ attempts[e] \in Nat
      BY <2>1, <2>3 DEF PipelineTypeOK, OutboxTypeOK
    <3>4. Copies(e)' = Copies(e) + 1
      <4>1. /\ Copies(e)' = queued'[e] + dead'[e] + Cardinality(HeldBy(e)')
            /\ Copies(e) = queued[e] + dead[e] + Cardinality(HeldBy(e))
            /\ dead[e] \in Nat /\ Cardinality(HeldBy(e)) \in Nat
        BY CopiesType, CopiesNext
      <4> QED
        BY <1>1, <3>3, <4>1
    <3> QED
      BY <2>1, <3>2, <3>3, <3>4, CopiesType DEF CopiesAndSenders
  <2>4. CASE e # f
    <3>1. Senders(e)' = Senders(e)
      BY <2>1, <2>2, <2>4 DEF Senders, At, PipelineTypeOK, OutboxTypeOK
    <3>2. Copies(e)' = Copies(e)
      BY <1>1, <2>1, <2>4, CopiesType, CopiesNext DEF PipelineTypeOK, OutboxTypeOK
    <3> QED
      BY <2>1, <3>1, <3>2, CopiesType DEF CopiesAndSenders
  <2> QED
    BY <2>3, <2>4
<1>4. CASE SendAndLose(d, f) \/ SendThrows(d, f) \/ MarkThrows(d, f)
           \/ MarkPublished(d, f) \/ MarkFailed(d, f)
  <2>1. /\ UNCHANGED <<attempts, queued>>
        /\ pc'[d] # "sending"
        /\ \A x \in Dispatchers \ {d} : pc'[x] = pc[x] /\ todo'[x] = todo[x]
    BY <1>4
    DEF SendAndLose, SendThrows, MarkThrows, MarkPublished, MarkFailed, AfterThrow,
        Finish, PipelineTypeOK, OutboxTypeOK
  <2>2. Copies(e)' = Copies(e) /\ Copies(e) \in Nat
    BY <1>1, <2>1, CopiesType, CopiesNext
  <2>3. \A x \in Dispatchers :
            pc'[x] = "sending" /\ At(x, e)' => pc[x] = "sending" /\ At(x, e)
    BY <2>1 DEF At
  <2> QED
    BY <2>1, <2>2, <2>3, CopiesQuiet
<1> QED
  BY <1>2, <1>3, <1>4

(* Every step keeps the count of messages below the attempts, and only a
   handler's end removes one. *)
LEMMA CopiesStep ==
    ASSUME PipelineTypeOK, PipelineTypeOK', CopiesAndSenders, Tagged,
           [PipelineNext]_pipelineVars, NEW e \in Events
    PROVE  /\ Copies(e)' + Cardinality(Senders(e)') <= attempts'[e]
           /\ Copies(e)' < Copies(e) => e \in handled' \/ channels > 1
<1> USE DEF rowVars, brokerVars
<1>1. Copies(e) \in Nat /\ Copies(e)' \in Nat
  <2>1. Copies(e) \in Nat
    BY CopiesType
  <2>2. IsFiniteSet(HeldBy(e)')
    <3>1. HeldBy(e)' \subseteq Channels
      BY DEF HeldBy
    <3> QED
      BY <3>1, Finite, FS_Subset
  <2>3. Cardinality(HeldBy(e)') \in Nat /\ queued'[e] \in Nat /\ dead'[e] \in Nat
    BY <2>2, FS_CardinalityType DEF PipelineTypeOK, OutboxTypeOK
  <2> QED
    BY <2>1, <2>3, CopiesNext
<1>2. ASSUME OutboxStep, UNCHANGED consumerVars
      PROVE  /\ Copies(e)' + Cardinality(Senders(e)') <= attempts'[e]
             /\ Copies(e)' >= Copies(e)
  <2>1. ASSUME UNCHANGED <<attempts, queued>>,
               \A d \in Dispatchers :
                   pc'[d] = "sending" /\ At(d, e)' => pc[d] = "sending" /\ At(d, e)
        PROVE  /\ Copies(e)' + Cardinality(Senders(e)') <= attempts'[e]
               /\ Copies(e)' >= Copies(e)
    <3>1. Copies(e)' = Copies(e)
      BY <1>2, <2>1, CopiesType, CopiesNext DEF HeldBy, consumerVars
    <3> QED
      BY <1>1, <2>1, <3>1, CopiesQuiet
  <2>2. ASSUME NEW f \in Events,
               \/ RecordInTransaction(f)
               \/ \E d \in Dispatchers : RecordAndDispatch(d, f)
        PROVE  /\ Copies(e)' + Cardinality(Senders(e)') <= attempts'[e]
               /\ Copies(e)' >= Copies(e)
    BY <2>1, <2>2
    DEF RecordInTransaction, RecordAndDispatch, At, PipelineTypeOK, OutboxTypeOK
  <2>3. ASSUME NEW d \in Dispatchers, Select(d) \/ Abort(d)
        PROVE  /\ Copies(e)' + Cardinality(Senders(e)') <= attempts'[e]
               /\ Copies(e)' >= Copies(e)
    <3>1. /\ UNCHANGED <<attempts, queued>>
          /\ pc'[d] # "sending"
          /\ \A x \in Dispatchers \ {d} : pc'[x] = pc[x] /\ todo'[x] = todo[x]
      BY <2>3 DEF Select, Abort, PipelineTypeOK, OutboxTypeOK
    <3> QED
      BY <2>1, <3>1 DEF At
  <2>4. ASSUME NEW d \in Dispatchers, Process(d)
        PROVE  /\ Copies(e)' + Cardinality(Senders(e)') <= attempts'[e]
               /\ Copies(e)' >= Copies(e)
    BY <1>2, <2>4, CopiesProcess
  <2>5. ASSUME NEW s \in Servers, LinkBreaks(s)
        PROVE  /\ Copies(e)' + Cardinality(Senders(e)') <= attempts'[e]
               /\ Copies(e)' >= Copies(e)
    BY <2>1, <2>5 DEF LinkBreaks, At
  <2> QED
    BY <1>2, <2>2, <2>3, <2>4, <2>5 DEF OutboxStep
<1>3. ASSUME UNCHANGED <<attempts, pc, todo>>,
             Copies(e)' <= Copies(e)
      PROVE  Copies(e)' + Cardinality(Senders(e)') <= attempts'[e]
  BY <1>1, <1>3, CopiesQuiet DEF At
<1>4. ASSUME ConsumerStep
      PROVE  /\ Copies(e)' + Cardinality(Senders(e)') <= attempts'[e]
             /\ Copies(e)' < Copies(e) => e \in handled' \/ channels > 1
  <2>1. UNCHANGED <<attempts, pc, todo>>
    BY <1>4
    DEF ConsumerStep, Connect, ConnectFails, Deliver, Expire, HandlerEnds,
        ConnectionLost, rowVars, outboxVars
  <2>2. CASE Connect \/ ConnectFails
    <3>1. HeldBy(e)' = HeldBy(e) /\ queued' = queued /\ dead' = dead
      BY <2>2 DEF Connect, ConnectFails, HeldBy, outboxVars, brokerVars
    <3>2. Copies(e)' = Copies(e)
      BY <3>1, CopiesType, CopiesNext
    <3> QED
      BY <1>1, <1>3, <2>1, <3>2
  <2>3. CASE \E c \in Channels, f \in Events : Deliver(c, f)
    <3>1. Copies(e)' = Copies(e)
      BY <2>3, DeliverKeepsCopies
    <3> QED
      BY <1>1, <1>3, <2>1, <3>1
  <2>4. ASSUME NEW h \in running, HandlerEnds(h)
        PROVE  /\ Copies(e)' <= Copies(e)
               /\ Copies(e)' < Copies(e) => e \in handled' \/ channels > 1
    BY <2>4, AcknowledgeRemovesOne DEF HandlerEnds
  <2>5. CASE \E c \in Channels : ConnectionLost(c)
    <3>1. PICK c \in Channels : ConnectionLost(c)
      BY <2>5
    <3>2. Copies(e)' = Copies(e)
      BY <3>1, CloseKeepsCopies DEF ConnectionLost, Close
    <3> QED
      BY <1>1, <1>3, <2>1, <3>2
  <2>6. CASE \E f \in Events : Expire(f)
    <3>1. Copies(e)' = Copies(e)
      BY <2>6, ExpireKeepsCopies
    <3> QED
      BY <1>1, <1>3, <2>1, <3>1
  <2> QED
    BY <1>3, <1>4, <2>1, <2>2, <2>3, <2>4, <2>5, <2>6 DEF ConsumerStep
<1>5. ASSUME NEW s \in Servers, Restart(s), UNCHANGED sent,
             UNCHANGED <<queued, consumerVars>> \/ ConsumerRestarts
      PROVE  /\ Copies(e)' + Cardinality(Senders(e)') <= attempts'[e]
             /\ Copies(e)' >= Copies(e)
  <2>1. Copies(e)' = Copies(e)
    <3>1. CASE UNCHANGED <<queued, consumerVars>>
      BY <3>1, CopiesType, CopiesNext DEF HeldBy, consumerVars
    <3>2. CASE ConsumerRestarts
      <4>1. open \in SUBSET Channels
        BY ConsumerAssumption DEF PipelineTypeOK, Channels
      <4>2. \A c \in Channels \ open : unacked[c] = NoDelivery
        BY DEF PipelineTypeOK
      <4>3. /\ queued' = Requeued(open)
            /\ \A c \in Channels : unacked'[c] = NoDelivery
        BY <3>2 DEF ConsumerRestarts
      <4> dead' = dead
        BY <3>2 DEF ConsumerRestarts
      <4> QED
        BY <4>1, <4>2, <4>3, CloseKeepsCopies
    <3> QED
      BY <1>5, <3>1, <3>2
  <2>2. \A d \in Dispatchers :
            pc'[d] = "sending" /\ At(d, e)' => pc[d] = "sending" /\ At(d, e)
    <3>1. \A d \in Dispatchers :
              pc'[d] = "idle" \/ (pc'[d] = pc[d] /\ todo'[d] = todo[d])
      BY <1>5 DEF Restart, PipelineTypeOK, OutboxTypeOK
    <3> QED
      BY <3>1 DEF At
  <2>3. attempts' = attempts
    BY <1>5 DEF Restart
  <2> QED
    BY <1>1, <2>1, <2>2, <2>3, CopiesQuiet
<1>6. ASSUME UNCHANGED pipelineVars
      PROVE  /\ Copies(e)' + Cardinality(Senders(e)') <= attempts'[e]
             /\ Copies(e)' >= Copies(e)
  <2>1. Copies(e)' = Copies(e) /\ UNCHANGED <<attempts, pc, todo>>
    BY <1>6, CopiesType, CopiesNext DEF pipelineVars, outboxVars, consumerVars, HeldBy
  <2> QED
    BY <1>1, <1>3, <2>1
<1> QED
  BY <1>1, <1>2, <1>4, <1>5, <1>6, ConsumerAssumption DEF PipelineNext

(* Initially there are no messages. *)
LEMMA CopiesInit == PipelineInit => CopiesAndSenders /\ Tagged
<1> SUFFICES ASSUME PipelineInit, NEW e \in Events
             PROVE  Copies(e) + Cardinality(Senders(e)) <= attempts[e] /\ Tagged
  BY OutboxAssumption DEF CopiesAndSenders, PipelineInit, ConsumerInit, Tagged
<1>1. /\ HeldBy(e) = {} /\ Senders(e) = {}
      /\ queued[e] = 0 /\ dead[e] = 0 /\ attempts[e] = 0
  BY OutboxAssumption
  DEF PipelineInit, OutboxInit, ConsumerInit, HeldBy, Senders, NoDelivery
<1>2. Copies(e) = 0 /\ Cardinality(Senders(e)) = 0
  BY <1>1, TypeInit, CopiesType, FS_EmptySet
<1> QED
  BY <1>1, <1>2 DEF PipelineInit, ConsumerInit, Tagged

(* The invariant of the messages. *)
Counts == PipelineTypeOK /\ CopiesAndSenders /\ Tagged

(* It holds initially and every step keeps it. *)
LEMMA CountsInvariant ==
    /\ PipelineInit => Counts
    /\ Counts /\ [PipelineNext]_pipelineVars => Counts'
<1>1. PipelineInit => Counts
  BY TypeInit, CopiesInit DEF Counts
<1>2. ASSUME Counts, [PipelineNext]_pipelineVars PROVE Counts'
  <2>1. PipelineTypeOK' /\ Tagged'
    BY <1>2, TypeStep, TaggedStep DEF Counts
  <2>2. CopiesAndSenders'
    BY <1>2, <2>1, CopiesStep DEF Counts, CopiesAndSenders
  <2> QED
    BY <2>1, <2>2 DEF Counts
<1> QED
  BY <1>1, <1>2

(* The broker never holds more messages of an event than attempts were
   counted, whatever reconnects, restarts or acknowledges a wrong tag. *)
THEOREM CopiesAreCounted == PipelineSpec => []CopiesCounted
<1>1. Counts => CopiesCounted
  <2> SUFFICES ASSUME Counts, NEW e \in Events PROVE Copies(e) <= attempts[e]
    BY DEF CopiesCounted
  <2> QED
    BY CopiesType DEF Counts, CopiesAndSenders, PipelineTypeOK, OutboxTypeOK
<1> QED
  BY <1>1, CountsInvariant, PTL DEF PipelineSpec

(* As long as one channel was opened, no message leaves the broker before a
   handler of its event ended. *)
THEOREM NothingVanishes == PipelineSpec => NoMessageVanishes
<1> DEFINE Kept == \A e \in Events :
                      Copies(e)' < Copies(e) => e \in handled' \/ channels > 1
<1>1. Counts /\ [PipelineNext]_pipelineVars => [Kept]_pipelineVars
  <2> SUFFICES ASSUME Counts, [PipelineNext]_pipelineVars PROVE Kept
    OBVIOUS
  <2>1. PipelineTypeOK'
    BY TypeStep DEF Counts
  <2> QED
    BY <2>1, CopiesStep DEF Counts
<1> QED
  BY <1>1, CountsInvariant, PTL DEF PipelineSpec, NoMessageVanishes

=============================================================================
