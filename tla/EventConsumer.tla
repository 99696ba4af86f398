--------------------------- MODULE EventConsumer ---------------------------
(***************************************************************************)
(* The outbox, the broker's queue and RabbitMqConsumer, which reads the    *)
(* queue in one of the servers: channels with prefetch 1, manual           *)
(* acknowledgement, reconnection.  A handler of a message runs on while    *)
(* its channel closes and another is opened, and its acknowledgement goes  *)
(* to the channel that is current when it ends, under the delivery tag of  *)
(* the old one.                                                            *)
(*                                                                         *)
(* The registered subscribers catch the errors of their handlers, so every *)
(* handler ends in an acknowledgement; the branch that returns a message   *)
(* to the queue is not reached.  A message whose event nobody subscribes   *)
(* to is acknowledged at once: it counts as handled, by no handler.        *)
(***************************************************************************)
EXTENDS EventOutbox

CONSTANTS
    Home,           \* the server whose consumer is modelled
    MaxChannels,    \* bound: channels a process opens
    Reconnects      \* reconnections one lost connection may schedule

ASSUME ConsumerAssumption ==
    /\ Home \in Servers
    /\ MaxChannels \in Nat \ {0}
    /\ Reconnects \subseteq Nat \ {0}

VARIABLES
    channels,       \* channels opened since the process started
    current,        \* RabbitMqConsumer._channel, 0 for null
    open,           \* channels the broker delivers to
    unacked,        \* channel -> its delivery without acknowledgement
    tags,           \* channel -> last delivery tag
    running,        \* calls of _handleMessage in progress
    timers,         \* scheduled calls of _connectAndConsume
    dead,           \* event -> messages of it in the dead-letter queue
    handled         \* events of which the handlers, if any, have ended

consumerVars ==
    <<channels, current, open, unacked, tags, running, timers, dead, handled>>
pipelineVars == <<outboxVars, consumerVars>>

Channels == 1..MaxChannels
Deliveries == [event : Events, tag : Nat]

(* No delivery: the tags of AMQP start at 1. *)
NoDelivery == [event |-> 0, tag |-> 0]

ConsumerInit ==
    /\ channels = 0
    /\ current = 0
    /\ open = {}
    /\ unacked = [c \in Channels |-> NoDelivery]
    /\ tags = [c \in Channels |-> 0]
    /\ running = {}
    /\ timers = 1
    /\ dead = [e \in Events |-> 0]
    /\ handled = {}

PipelineInit == OutboxInit /\ ConsumerInit

-----------------------------------------------------------------------------

(* A connection opened by a second timer replaces the first in _channel, and
   both stay open. *)
Connect ==
    /\ timers > 0
    /\ channels < MaxChannels
    /\ timers' = timers - 1
    /\ channels' = channels + 1
    /\ current' = channels'
    /\ open' = open \union {channels'}
    /\ UNCHANGED <<outboxVars, unacked, tags, running, dead, handled>>

(* An attempt that fails is made again later, and clears _channel, also if
   another attempt has succeeded since it was scheduled. *)
ConnectFails ==
    /\ timers > 0
    /\ Fault
    /\ current' = 0
    /\ UNCHANGED <<rowVars, pc, todo, link, brokerVars, channels, open, unacked,
                   tags, running, timers, dead, handled>>

(* What a channel holds of a delivery until it is acknowledged.  Mutant: the
   consumer asks for no acknowledgements. *)
HeldNot(d) == NoDelivery
Held(d) == d

(* What the queue holds of n messages once one is delivered.  Mutant: the
   message delivered stays there as well. *)
LeftAll(n) == n
Left(n) == n - 1

Deliver(c, e) ==
    /\ c \in open
    /\ unacked[c] = NoDelivery
    /\ queued[e] > 0
    /\ queued' = [queued EXCEPT ![e] = Left(@)]
    /\ tags' = [tags EXCEPT ![c] = @ + 1]
    /\ unacked' = [unacked EXCEPT ![c] = Held([event |-> e, tag |-> tags'[c]])]
    /\ running' = running \union
                      {[channel |-> c, event |-> e, tag |-> tags'[c]]}
    /\ UNCHANGED <<rowVars, pc, todo, link, sent, faults,
                   channels, current, open, timers, dead, handled>>

(* A message has waited for the queue's time to live: the broker moves it to
   the dead-letter queue, which nobody reads. *)
Expire(e) ==
    /\ queued[e] > 0
    /\ queued' = [queued EXCEPT ![e] = @ - 1]
    /\ dead' = [dead EXCEPT ![e] = @ + 1]
    /\ UNCHANGED <<rowVars, pc, todo, link, sent, faults, channels, current,
                   open, unacked, tags, running, timers, handled>>

(* The broker puts back what a channel has not acknowledged when it closes. *)
Requeued(cs) ==
    [e \in Events |->
        queued[e] + Cardinality({c \in cs : unacked[c].event = e /\
                                            unacked[c] # NoDelivery})]

Close(cs, n) ==
    /\ queued' = Requeued(cs)
    /\ open' = open \ cs
    /\ unacked' = [c \in Channels |->
                      IF c \in cs THEN NoDelivery ELSE unacked[c]]
    /\ timers' = timers + n
    /\ current' = 0

(* Mutant of Acknowledge: a handler returns without an acknowledgement. *)
AcknowledgeNever(tag) ==
    UNCHANGED <<queued, open, unacked, timers, current>>

(* The acknowledgement names the delivery by its tag alone. *)
Acknowledge(tag) ==
    IF current = 0
    THEN UNCHANGED <<queued, open, unacked, timers, current>>
    ELSE IF unacked[current] # NoDelivery /\ unacked[current].tag = tag
    THEN /\ unacked' = [unacked EXCEPT ![current] = NoDelivery]
         /\ UNCHANGED <<queued, open, timers, current>>
    ELSE Close({current}, 1)    \* unknown tag: the broker closes the channel

HandlerEnds(h) ==
    /\ h \in running
    /\ running' = running \ {h}
    /\ handled' = handled \union {h.event}
    /\ Acknowledge(h.tag)
    /\ UNCHANGED <<rowVars, pc, todo, link, sent, faults, channels, tags, dead>>

(* The events error and close of the connection and close of the channel each
   schedule a reconnection and clear _channel, whichever channel it is by
   then. *)
ConnectionLost(c) ==
    /\ c \in open
    /\ Fault
    /\ \E n \in Reconnects : Close({c}, n)
    /\ UNCHANGED <<rowVars, pc, todo, link, sent, channels, tags, running,
                   dead, handled>>

ConsumerRestarts ==
    /\ queued' = Requeued(open)
    /\ channels' = 0
    /\ current' = 0
    /\ open' = {}
    /\ unacked' = [c \in Channels |-> NoDelivery]
    /\ tags' = [c \in Channels |-> 0]
    /\ running' = {}
    /\ timers' = 1
    /\ UNCHANGED <<dead, handled>>

ConsumerStep ==
    \/ Connect
    \/ ConnectFails
    \/ \E c \in Channels, e \in Events : Deliver(c, e)
    \/ \E e \in Events : Expire(e)
    \/ \E h \in running : HandlerEnds(h)
    \/ \E c \in Channels : ConnectionLost(c)

PipelineNext ==
    \/ OutboxStep /\ UNCHANGED consumerVars
    \/ ConsumerStep
    \/ \E s \in Servers \ {Home} :
          Restart(s) /\ UNCHANGED <<brokerVars, consumerVars>>
    \/ Restart(Home) /\ ConsumerRestarts /\ UNCHANGED sent

PipelineSpec == PipelineInit /\ [][PipelineNext]_pipelineVars

(* The timer restarts the job after every run, failed ones too; the steps of a
   run and of a handler follow each other by themselves; the broker delivers;
   a scheduled reconnection is made. *)
FairPipelineSpec ==
    /\ PipelineSpec
    /\ \A d \in Jobs :
          WF_pipelineVars((Select(d) \/ Process(d)) /\ UNCHANGED consumerVars)
    /\ WF_pipelineVars(Connect)
    /\ WF_pipelineVars(\E c \in Channels, e \in Events : Deliver(c, e))
    /\ WF_pipelineVars(\E h \in running : HandlerEnds(h))

-----------------------------------------------------------------------------
(* What the dispatchers and the consumer guarantee *)

(* Types: those of the outbox; and a delivery without acknowledgement is on an
   open channel, under a tag that channel has given out. *)
PipelineTypeOK ==
    /\ OutboxTypeOK
    /\ channels \in 0..MaxChannels
    /\ current \in 0..channels
    /\ open \subseteq 1..channels
    /\ unacked \in [Channels -> Deliveries \union {NoDelivery}]
    /\ tags \in [Channels -> Nat]
    /\ \A c \in Channels :
          unacked[c] # NoDelivery => c \in open /\ unacked[c].tag \in 1..tags[c]
    /\ running \subseteq [channel : Channels, event : Events, tag : Nat]
    /\ timers \in Nat
    /\ dead \in [Events -> Nat]
    /\ handled \subseteq Events

(* Many dispatchers may hold a row that has one attempt left, since they look
   at attempt_count once, when they select: the limit is exceeded by at most
   one for each other dispatcher. *)
AttemptsBounded ==
    \A e \in Events :
        attempts[e] <= MaxAttempts - 1 + Cardinality(Dispatchers)

(* Messages of an event that the broker holds: waiting, dead letters, and
   delivered without an acknowledgement. *)
Copies(e) ==
    queued[e] + dead[e] + Cardinality({c \in Channels : unacked[c].event = e})

(* Each message on the broker is one counted attempt: reconnections, restarts
   and acknowledgements under a wrong tag redeliver messages and lose some,
   and never multiply them. *)
CopiesCounted == \A e \in Events : Copies(e) <= attempts[e]

(* A published row turns failed only when two dispatchers worked on it: the
   loser's mark overwrites the winner's. *)
MarksRace ==
    [][\A e \in Events :
          state[e] = "published" /\ state'[e] = "failed" => attempts[e] > 1
      ]_pipelineVars

(* The broker forgets a message only after a handler of its event has ended,
   as long as the process has opened one channel.  After a reconnection it
   may also forget the one that happens to have the tag of an old delivery. *)
NoMessageVanishes ==
    [][\A e \in Events :
          Copies(e)' < Copies(e) => e \in handled' \/ channels > 1
      ]_pipelineVars

(* Whatever fails in between, a committed event is published in the end or
   has used up its attempts. *)
EventsGetOut ==
    \A e \in Events :
        state[e] \in {"pending", "failed"}
            ~> state[e] = "published" \/ attempts[e] >= MaxAttempts

(* A message in the queue reaches a handler or the dead-letter queue, unless the
   consumer had to reconnect. *)
QueuedIsHandled ==
    \A e \in Events :
        queued[e] > 0 ~> e \in handled \/ dead[e] > 0 \/ channels > 1

(* The pipeline keeps the outbox's promise. *)
Delivery ==
    INSTANCE EventDelivery
    WITH recorded <- {e \in Events : state[e] # "none"},
         confirmed <- {e \in Events : state[e] = "published"}

KeepsThePromise == Delivery!DeliverySpec

=============================================================================
