---------------------------- MODULE EventOutbox ----------------------------
(***************************************************************************)
(* The domain_events table and the loops that send its rows to RabbitMQ:   *)
(* publishDomainEvent, dispatchPendingEvents and the dispatch job, on      *)
(* several servers.  A dispatcher is the job of a server, or a request     *)
(* that published outside a transaction and dispatches one event inline.   *)
(* Nothing claims a row: dispatchers may hold the same event at once.      *)
(*                                                                         *)
(* A server opens one connection and one channel and keeps them.  A        *)
(* publish is not confirmed by the broker, and after the connection is     *)
(* gone every publish of that server throws until it restarts.             *)
(***************************************************************************)
EXTENDS Integers, FiniteSets

CONSTANTS
    Events,         \* ids of domain_events, in the order of the sequence
    Servers,        \* processes of the API and the worker
    Jobs,           \* dispatch jobs, one to a server
    Requests,       \* requests that publish outside a transaction
    HostOf,         \* dispatcher -> its server
    BatchSize,      \* rows a run of the job asks for
    MaxAttempts,    \* attempts after which a row is not selected again
    MaxFaults       \* bound: failed statements and calls, breaks and crashes

Dispatchers == Jobs \union Requests

ASSUME OutboxAssumption ==
    /\ Events \subseteq Nat \ {0}
    /\ IsFiniteSet(Jobs) /\ IsFiniteSet(Requests)
    /\ Jobs \intersect Requests = {}
    /\ HostOf \in [Dispatchers -> Servers]
    /\ BatchSize \in Nat \ {0}
    /\ MaxAttempts \in Nat \ {0}
    /\ MaxFaults \in Nat

VARIABLES
    state,          \* event -> domain_events.status, "none" before its commit
    attempts,       \* event -> domain_events.attempt_count
    pc,             \* dispatcher -> where its dispatchPendingEvents stands
    todo,           \* dispatcher -> selected rows it has not finished
    link,           \* server -> its cached channel
    sent,           \* events for which channel.publish returned
    queued,         \* event -> messages of it the broker's queue holds
    faults          \* faults so far

rowVars == <<state, attempts>>
brokerVars == <<sent, queued>>
outboxVars == <<state, attempts, pc, todo, link, sent, queued, faults>>

(* The rows a dispatcher is in the middle of. *)
Counted == {"sending", "marking", "failing"}

OutboxInit ==
    /\ state = [e \in Events |-> "none"]
    /\ attempts = [e \in Events |-> 0]
    /\ pc = [d \in Dispatchers |-> "idle"]
    /\ todo = [d \in Dispatchers |-> {}]
    /\ link = [s \in Servers |-> "up"]
    /\ sent = {}
    /\ queued = [e \in Events |-> 0]
    /\ faults = 0

Fault == faults < MaxFaults /\ faults' = faults + 1

-----------------------------------------------------------------------------
(* publishDomainEvent: inside the caller's transaction the row appears with
   its commit, so not always in the order of the ids; outside of one the
   insert commits at once and the request goes on to dispatch an event. *)

RecordInTransaction(e) ==
    /\ state[e] = "none"
    /\ state' = [state EXCEPT ![e] = "pending"]
    /\ UNCHANGED <<attempts, pc, todo, link, brokerVars, faults>>

RecordAndDispatch(d, e) ==
    /\ d \in Requests
    /\ pc[d] = "idle"
    /\ state[e] = "none"
    /\ state' = [state EXCEPT ![e] = "pending"]
    /\ pc' = [pc EXCEPT ![d] = "selecting"]
    /\ UNCHANGED <<attempts, todo, link, brokerVars, faults>>

-----------------------------------------------------------------------------
(* dispatchPendingEvents *)

(* Mutants of Eligible: no limit to the attempts; failed rows forgotten. *)
EligibleForever(e) == state[e] \in {"pending", "failed"}
EligibleOnce(e) == state[e] = "pending" /\ attempts[e] < MaxAttempts

Eligible(e) == state[e] \in {"pending", "failed"} /\ attempts[e] < MaxAttempts

Oldest(n) ==
    LET rows == {e \in Events : Eligible(e)}
    IN {e \in rows : Cardinality({f \in rows : f < e}) < n}

(* A server's job skips its turn while a run of it is in progress. *)
Select(d) ==
    /\ \/ d \in Jobs /\ pc[d] = "idle" /\ Oldest(BatchSize) # {}
          /\ todo' = [todo EXCEPT ![d] = Oldest(BatchSize)]
       \/ d \in Requests /\ pc[d] = "selecting"
          /\ todo' = [todo EXCEPT ![d] = Oldest(1)]
    /\ pc' = [pc EXCEPT ![d] = IF todo'[d] = {} THEN "idle" ELSE "counting"]
    /\ UNCHANGED <<rowVars, link, brokerVars, faults>>

(* The row the loop is at: rows come in the order of their ids. *)
At(d, e) == e \in todo[d] /\ \A f \in todo[d] : e <= f

CountAttempt(d, e) ==
    /\ pc[d] = "counting"
    /\ At(d, e)
    /\ attempts' = [attempts EXCEPT ![e] = @ + 1]
    /\ pc' = [pc EXCEPT ![d] = "sending"]
    /\ UNCHANGED <<state, todo, link, brokerVars, faults>>

SendToBroker(d, e) ==
    /\ pc[d] = "sending"
    /\ At(d, e)
    /\ link[HostOf[d]] = "up"
    /\ sent' = sent \union {e}
    /\ queued' = [queued EXCEPT ![e] = @ + 1]
    /\ pc' = [pc EXCEPT ![d] = "marking"]
    /\ UNCHANGED <<rowVars, todo, link, faults>>

(* The message is in the socket's buffer when the connection ends. *)
SendAndLose(d, e) ==
    /\ pc[d] = "sending"
    /\ At(d, e)
    /\ link[HostOf[d]] = "up"
    /\ Fault
    /\ sent' = sent \union {e}
    /\ link' = [link EXCEPT ![HostOf[d]] = "broken"]
    /\ pc' = [pc EXCEPT ![d] = "marking"]
    /\ UNCHANGED <<rowVars, todo, queued>>

(* Where a call that threw leads.  Mutant: its error is not noticed. *)
AfterThrowUnnoticed == "marking"
AfterThrow == "failing"

(* A cached channel of a closed connection throws at every publish; a broker
   that cannot be reached throws before a channel is cached. *)
SendThrows(d, e) ==
    /\ pc[d] = "sending"
    /\ At(d, e)
    /\ \/ link[HostOf[d]] = "broken" /\ UNCHANGED faults
       \/ link[HostOf[d]] = "up" /\ Fault
    /\ pc' = [pc EXCEPT ![d] = AfterThrow]
    /\ UNCHANGED <<rowVars, todo, link, brokerVars>>

(* Mutant of Finish: the loop goes on after its last row. *)
FinishAndGoOn(d, e) ==
    /\ todo' = [todo EXCEPT ![d] = @ \ {e}]
    /\ pc' = [pc EXCEPT ![d] = "counting"]

Finish(d, e) ==
    /\ todo' = [todo EXCEPT ![d] = @ \ {e}]
    /\ pc' = [pc EXCEPT ![d] = IF todo[d] = {e} THEN "idle" ELSE "counting"]

(* Neither mark asks what the row says by now. *)
MarkPublished(d, e) ==
    /\ pc[d] = "marking"
    /\ At(d, e)
    /\ state' = [state EXCEPT ![e] = "published"]
    /\ Finish(d, e)
    /\ UNCHANGED <<attempts, link, brokerVars, faults>>

MarkThrows(d, e) ==
    /\ pc[d] = "marking"
    /\ At(d, e)
    /\ Fault
    /\ pc' = [pc EXCEPT ![d] = AfterThrow]
    /\ UNCHANGED <<rowVars, todo, link, brokerVars>>

(* Mutant of FailedRows: a failure marks the whole batch. *)
FailedBatch(d, e) == todo[d]
FailedRows(d, e) == {e}

MarkFailed(d, e) ==
    /\ pc[d] = "failing"
    /\ At(d, e)
    /\ state' = [f \in Events |->
                    IF f \in FailedRows(d, e) THEN "failed" ELSE state[f]]
    /\ Finish(d, e)
    /\ UNCHANGED <<attempts, link, brokerVars, faults>>

(* Counting the attempt or marking the failure fails: the run ends there. *)
Abort(d) ==
    /\ pc[d] \in {"counting", "failing"}
    /\ Fault
    /\ pc' = [pc EXCEPT ![d] = "idle"]
    /\ todo' = [todo EXCEPT ![d] = {}]
    /\ UNCHANGED <<rowVars, link, brokerVars>>

-----------------------------------------------------------------------------

LinkBreaks(s) ==
    /\ link[s] = "up"
    /\ Fault
    /\ link' = [link EXCEPT ![s] = "broken"]
    /\ UNCHANGED <<rowVars, pc, todo, brokerVars>>

Restart(s) ==
    /\ Fault
    /\ pc' = [d \in Dispatchers |-> IF HostOf[d] = s THEN "idle" ELSE pc[d]]
    /\ todo' = [d \in Dispatchers |-> IF HostOf[d] = s THEN {} ELSE todo[d]]
    /\ link' = [link EXCEPT ![s] = "up"]
    /\ UNCHANGED rowVars

Process(d) ==
    \E e \in Events :
        \/ CountAttempt(d, e)
        \/ SendToBroker(d, e) \/ SendAndLose(d, e) \/ SendThrows(d, e)
        \/ MarkPublished(d, e) \/ MarkThrows(d, e) \/ MarkFailed(d, e)

OutboxStep ==
    \/ \E e \in Events : RecordInTransaction(e)
    \/ \E d \in Dispatchers, e \in Events : RecordAndDispatch(d, e)
    \/ \E d \in Dispatchers : Select(d) \/ Process(d) \/ Abort(d)
    \/ \E s \in Servers : LinkBreaks(s)

-----------------------------------------------------------------------------

(* Types: a dispatcher has rows in hand exactly while it runs, and they are
   committed. *)
OutboxTypeOK ==
    /\ state \in [Events -> {"none", "pending", "published", "failed"}]
    /\ attempts \in [Events -> Nat]
    /\ pc \in [Dispatchers -> {"idle", "selecting", "counting"} \union Counted]
    /\ todo \in [Dispatchers -> SUBSET Events]
    /\ \A d \in Dispatchers : todo[d] = {} <=> pc[d] \in {"idle", "selecting"}
    /\ \A d \in Dispatchers : \A e \in todo[d] : state[e] # "none"
    /\ link \in [Servers -> {"up", "broken"}]
    /\ sent \subseteq Events
    /\ queued \in [Events -> Nat]
    /\ faults \in 0..MaxFaults

=============================================================================
