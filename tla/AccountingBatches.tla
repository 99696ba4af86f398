------------------------- MODULE AccountingBatches -------------------------
(***************************************************************************)
(* The close of a day: the period-close job runs, for yesterday, the eod   *)
(* batch and at the end of a month or year the eom and eoy batches, each   *)
(* by runBatch.  Every server process has the job.  gl_accounting_batches  *)
(* and gl_batch_runs have one row each for a type and a date, by a unique  *)
(* index; a transaction here is SERIALIZABLE, so it is one step.           *)
(*                                                                         *)
(* The day stays the same: the job never comes back to an earlier one.     *)
(***************************************************************************)
EXTENDS Naturals, Sequences

CONSTANTS
    Closers,        \* processes with a period-close job
    Due,            \* the batch types due for the day, in the job's order
    MaxFaults       \* bound: failures of a statement and restarts

Types == {Due[i] : i \in DOMAIN Due}

VARIABLES
    batch,          \* type -> status of its gl_accounting_batches row
    run,            \* type -> status of its gl_batch_runs row
    locks,          \* types with a gl_period_locks row
    pc,             \* closer -> where it is in runBatch, or idle
    at,             \* closer -> which batch of the day
    faults

rowVars == <<batch, run, locks>>
vars == <<rowVars, pc, at, faults>>

BatchesInit ==
    /\ batch = [b \in Types |-> "none"]
    /\ run = [b \in Types |-> "none"]
    /\ locks = {}
    /\ pc = [c \in Closers |-> "idle"]
    /\ at = [c \in Closers |-> 1]
    /\ faults = 0

Goto(c, label) == pc' = [pc EXCEPT ![c] = label] /\ UNCHANGED at

(* runOnce goes on to the next batch that is due. *)
GoOn(c) ==
    IF at[c] < Len(Due)
    THEN /\ pc' = [pc EXCEPT ![c] = "looking"]
         /\ at' = [at EXCEPT ![c] = @ + 1]
    ELSE /\ pc' = [pc EXCEPT ![c] = "idle"]
         /\ at' = [at EXCEPT ![c] = 1]

(* runBatch throws: the batches after it are not run this time. *)
GiveUp(c) ==
    /\ pc' = [pc EXCEPT ![c] = "idle"]
    /\ at' = [at EXCEPT ![c] = 1]

RunOnce(c) ==
    /\ pc[c] = "idle"
    /\ Goto(c, "looking")
    /\ UNCHANGED <<rowVars, faults>>

Look(c) ==
    /\ pc[c] = "looking"
    /\ IF run[Due[at[c]]] = "completed" THEN GoOn(c) ELSE Goto(c, "reserving")
    /\ UNCHANGED <<rowVars, faults>>

(* Who finds no row, or a failed one, has the batch. *)
Reserve(c) ==
    /\ pc[c] = "reserving"
    /\ batch[Due[at[c]]] \in {"none", "failed"}
    /\ batch' = [batch EXCEPT ![Due[at[c]]] = "processing"]
    /\ Goto(c, "starting")
    /\ UNCHANGED <<run, locks, faults>>

Skip(c) ==
    /\ pc[c] = "reserving"
    /\ batch[Due[at[c]]] \in {"processing", "completed"}
    /\ GoOn(c)
    /\ UNCHANGED <<rowVars, faults>>

(* Whose transaction overlaps the one that reserved the batch is aborted. *)
LoseReservation(c) ==
    /\ pc[c] = "reserving"
    /\ batch[Due[at[c]]] = "processing"
    /\ GiveUp(c)
    /\ UNCHANGED <<rowVars, faults>>

StartRun(c) ==
    /\ pc[c] = "starting"
    /\ run[Due[at[c]]] = "none"
    /\ run' = [run EXCEPT ![Due[at[c]]] = "running"]
    /\ Goto(c, "working")
    /\ UNCHANGED <<batch, locks, faults>>

(* The insert violates the unique index of gl_batch_runs. *)
RunExists(c) ==
    /\ pc[c] = "starting"
    /\ run[Due[at[c]]] # "none"
    /\ Goto(c, "failing")
    /\ UNCHANGED <<rowVars, faults>>

(* The transaction that takes the trial balance, which no step of the close reads, also
   locks the period. *)
TakeSnapshot(c) ==
    /\ pc[c] = "working"
    /\ locks' = locks \union {Due[at[c]]}
    /\ Goto(c, "completing")
    /\ UNCHANGED <<batch, run, faults>>

Complete(c) ==
    /\ pc[c] = "completing"
    /\ run' = [run EXCEPT ![Due[at[c]]] = "completed"]
    /\ batch' = [batch EXCEPT ![Due[at[c]]] = "completed"]
    /\ GoOn(c)
    /\ UNCHANGED <<locks, faults>>

(* "failing" has no run of its own to mark, "undoing" has. *)
MarkFailed(c) ==
    /\ pc[c] \in {"failing", "undoing"}
    /\ run' = IF pc[c] = "undoing" THEN [run EXCEPT ![Due[at[c]]] = "failed"]
              ELSE run
    /\ batch' = [batch EXCEPT ![Due[at[c]]] = "failed"]
    /\ GiveUp(c)
    /\ UNCHANGED <<locks, faults>>

-----------------------------------------------------------------------------
(* Faults *)

Fault == faults < MaxFaults /\ faults' = faults + 1 /\ UNCHANGED rowVars

StatementFails(c) ==
    /\ Fault
    /\ \/ pc[c] \in {"looking", "reserving"} /\ GiveUp(c)
       \/ pc[c] = "starting" /\ Goto(c, "failing")
       \/ pc[c] \in {"working", "completing"} /\ Goto(c, "undoing")

(* The failure's own update fails and is logged; or the process dies. *)
MarkIsLost(c) == pc[c] \in {"failing", "undoing"} /\ Fault /\ GiveUp(c)
Restart(c) == pc[c] # "idle" /\ Fault /\ GiveUp(c)

Step(c) ==
    \/ RunOnce(c) \/ Look(c) \/ Reserve(c) \/ Skip(c)
    \/ LoseReservation(c) \/ StartRun(c) \/ RunExists(c) \/ TakeSnapshot(c)
    \/ Complete(c) \/ MarkFailed(c)

BatchesNext ==
    \E c \in Closers : \/ Step(c) \/ StatementFails(c)
                       \/ MarkIsLost(c) \/ Restart(c)

BatchesSpec == BatchesInit /\ [][BatchesNext]_vars

(* The job's timer fires again and again and a batch runs to its end. *)
FairBatchesSpec == BatchesSpec /\ \A c \in Closers : WF_vars(Step(c))

-----------------------------------------------------------------------------

(* A batch that failed is completed by a retry, as the test of runBatch says
   ("reuses a failed gl_accounting_batches row on retry"). *)
FailedIsRetried ==
    \A b \in Types : batch[b] = "failed" ~> batch[b] = "completed"

=============================================================================
