----------------------- MODULE AccountingBatches_Proofs -----------------------
(***************************************************************************)
(* Proofs about AccountingBatches, for any number of processes, batches of *)
(* a day, failures and restarts: who has reserved a batch runs it alone,   *)
(* and a batch that is completed is locked and stays so.                   *)
(***************************************************************************)
EXTENDS AccountingBatches, TLAPS

(* The job has something to do, one batch after the other. *)
DayAssumption ==
    /\ Due \in Seq({"eod", "eom", "eoy"}) /\ Len(Due) > 0
    /\ MaxFaults \in Nat

BatchStatus == {"none", "processing", "completed", "failed"}

RunStatus == {"none", "running", "completed", "failed"}

(* Between the reservation of a batch and its end. *)
Running == {"starting", "working", "completing", "failing", "undoing"}

Labels == {"idle", "looking", "reserving"} \union Running

BatchesTypeOK ==
    /\ batch \in [Types -> BatchStatus]
    /\ run \in [Types -> RunStatus]
    /\ locks \subseteq Types
    /\ pc \in [Closers -> Labels]
    /\ at \in [Closers -> DOMAIN Due]
    /\ faults \in 0 .. MaxFaults

Runs(c, b) == pc[c] \in Running /\ Due[at[c]] = b

(* Two processes never run one batch. *)
OneCloser ==
    \A b \in Types, c, d \in Closers : Runs(c, b) /\ Runs(d, b) => c = d

(* A batch that is completed was run to its end, and its period is locked. *)
CompletedIsLocked ==
    \A b \in Types :
        batch[b] = "completed" => run[b] = "completed" /\ b \in locks

(* A batch is completed once, and then stays as it is. *)
CompletedIsFinal ==
    [][\A b \in Types :
          batch[b] = "completed" =>
              batch'[b] = "completed" /\ run'[b] = "completed" /\ b \in locks']_vars

(* Who runs a batch has it reserved, has a run of its own once it works, and the
   period's lock before it completes; a run completes with its batch. *)
ReservedInv ==
    /\ \A c \in Closers, b \in Types : Runs(c, b) =>
          /\ batch[b] = "processing"
          /\ pc[c] \in {"working", "completing", "undoing"} => run[b] = "running"
          /\ pc[c] = "completing" => b \in locks
    /\ \A b \in Types : run[b] = "completed" => batch[b] = "completed"

BatchesInv == BatchesTypeOK /\ OneCloser /\ ReservedInv /\ CompletedIsLocked

-----------------------------------------------------------------------------
(* How a process moves *)

OthersStay(c) ==
    \A d \in Closers \ {c} : pc'[d] = pc[d] /\ at'[d] = at[d]

Placed == pc' \in [Closers -> Labels] /\ at' \in [Closers -> DOMAIN Due]

(* The batch a process is at is one of the day's. *)
LEMMA AtBatch ==
    ASSUME BatchesTypeOK, NEW c \in Closers
    PROVE  at[c] \in DOMAIN Due /\ Due[at[c]] \in Types
  BY DEF BatchesTypeOK, Types

(* A process goes to another place in runBatch, with the same batch. *)
LEMMA GotoMoves ==
    ASSUME BatchesTypeOK, NEW c \in Closers, NEW to \in Labels, Goto(c, to)
    PROVE  Placed /\ OthersStay(c) /\ pc'[c] = to /\ at'[c] = at[c]
  BY DEF Goto, BatchesTypeOK, Placed, OthersStay

(* A process goes on to the day's next batch, or gives up: it runs none. *)
LEMMA LeaveMoves ==
    ASSUME DayAssumption, BatchesTypeOK, NEW c \in Closers, GoOn(c) \/ GiveUp(c)
    PROVE  Placed /\ OthersStay(c) /\ pc'[c] \in {"idle", "looking"}
<1>1. DOMAIN Due = 1 .. Len(Due) /\ Len(Due) \in Nat /\ 1 \in DOMAIN Due
  BY DEF DayAssumption
<1>2. CASE GoOn(c) /\ at[c] < Len(Due)
  <2>1. at[c] + 1 \in DOMAIN Due
    BY <1>1, <1>2 DEF BatchesTypeOK
  <2> QED
    BY <1>2, <2>1 DEF GoOn, BatchesTypeOK, Placed, OthersStay, Labels
<1>3. ASSUME pc' = [pc EXCEPT ![c] = "idle"], at' = [at EXCEPT ![c] = 1]
      PROVE  Placed /\ OthersStay(c) /\ pc'[c] \in {"idle", "looking"}
  BY <1>1, <1>3 DEF BatchesTypeOK, Placed, OthersStay, Labels
<1> QED
  BY <1>2, <1>3 DEF GoOn, GiveUp

(* Who stays where it is runs what it ran. *)
LEMMA OthersRunOn ==
    ASSUME NEW c \in Closers, OthersStay(c), NEW d \in Closers \ {c}, NEW b \in Types
    PROVE  (Runs(d, b)' <=> Runs(d, b)) /\ pc'[d] = pc[d]
  BY DEF OthersStay, Runs

-----------------------------------------------------------------------------
(* Steps, by what they do to the rows of a batch *)

(* A process that runs nothing moves, or ends without touching a row. *)
LEMMA LeavingKeeps ==
    ASSUME BatchesInv, NEW c \in Closers, Placed, OthersStay(c),
           pc'[c] \notin Running, UNCHANGED rowVars, faults' \in 0 .. MaxFaults
    PROVE  BatchesInv'
<1>1. \A b \in Types : ~Runs(c, b)'
  BY DEF Runs
<1>2. \A d \in Closers, b \in Types : Runs(d, b)' => Runs(d, b) /\ pc'[d] = pc[d]
  BY <1>1, OthersRunOn
<1>3. BatchesTypeOK' /\ CompletedIsLocked'
  BY DEF BatchesInv, BatchesTypeOK, CompletedIsLocked, Placed, rowVars
<1>4. OneCloser'
  BY <1>2 DEF BatchesInv, OneCloser
<1>5. ReservedInv'
  BY <1>2 DEF BatchesInv, ReservedInv, rowVars
<1> QED
  BY <1>3, <1>4, <1>5 DEF BatchesInv

(* A process that has reserved a batch goes on with it: nobody else has it, and
   what it writes is its own. *)
LEMMA RunningKeeps ==
    ASSUME BatchesInv, NEW c \in Closers, Placed, OthersStay(c),
           pc[c] \in Running, pc'[c] \in Running, at'[c] = at[c],
           BatchesTypeOK',
           \A b \in Types \ {Due[at[c]]} : /\ batch'[b] = batch[b] /\ run'[b] = run[b]
                                           /\ b \in locks' <=> b \in locks,
           batch'[Due[at[c]]] = "processing",
           pc'[c] \in {"working", "completing", "undoing"} => run'[Due[at[c]]] = "running",
           pc'[c] = "completing" => Due[at[c]] \in locks',
           run'[Due[at[c]]] # "completed"
    PROVE  BatchesInv'
<1> DEFINE mine == Due[at[c]]
<1>1. /\ mine \in Types /\ Runs(c, mine)
      /\ \A b \in Types : Runs(c, b)' <=> b = mine
  BY AtBatch DEF BatchesInv, Runs
<1>2. \A d \in Closers \ {c}, b \in Types :
         /\ Runs(d, b)' <=> Runs(d, b)
         /\ pc'[d] = pc[d]
         /\ Runs(d, b) => b # mine
  BY <1>1, OthersRunOn DEF BatchesInv, OneCloser
<1> HIDE DEF mine
<1>3. OneCloser'
  BY <1>1, <1>2 DEF BatchesInv, OneCloser
<1>4. ASSUME NEW d \in Closers, NEW b \in Types, Runs(d, b)'
      PROVE  /\ batch'[b] = "processing"
             /\ pc'[d] \in {"working", "completing", "undoing"} => run'[b] = "running"
             /\ pc'[d] = "completing" => b \in locks'
  <2>1. CASE d = c
    BY <1>1, <1>4, <2>1 DEF mine
  <2>2. CASE d # c
    <3>1. b # mine /\ Runs(d, b) /\ pc'[d] = pc[d]
      BY <1>2, <1>4, <2>2
    <3> QED
      BY <3>1 DEF BatchesInv, ReservedInv, mine
  <2> QED
    BY <2>1, <2>2
<1>5. ReservedInv'
  <2>1. ASSUME NEW b \in Types, run'[b] = "completed" PROVE batch'[b] = "completed"
    BY <2>1 DEF BatchesInv, ReservedInv
  <2> QED
    BY <1>4, <2>1 DEF ReservedInv
<1>6. CompletedIsLocked'
  BY DEF BatchesInv, CompletedIsLocked
<1> QED
  BY <1>3, <1>5, <1>6 DEF BatchesInv

(* A process ends with the batch it has: it is completed, run and lock with it,
   or it has failed. *)
LEMMA EndingKeeps ==
    ASSUME BatchesInv, NEW c \in Closers, Placed, OthersStay(c),
           pc[c] \in Running, pc'[c] \notin Running, BatchesTypeOK',
           \A b \in Types \ {Due[at[c]]} : /\ batch'[b] = batch[b] /\ run'[b] = run[b]
                                           /\ b \in locks' <=> b \in locks,
           batch'[Due[at[c]]] = "completed" <=> run'[Due[at[c]]] = "completed",
           batch'[Due[at[c]]] = "completed" => Due[at[c]] \in locks'
    PROVE  BatchesInv'
<1> DEFINE mine == Due[at[c]]
<1>1. mine \in Types /\ Runs(c, mine) /\ \A b \in Types : ~Runs(c, b)'
  BY AtBatch DEF BatchesInv, Runs
<1>2. \A d \in Closers, b \in Types :
         Runs(d, b)' => d # c /\ Runs(d, b) /\ pc'[d] = pc[d] /\ b # mine
  BY <1>1, OthersRunOn DEF BatchesInv, OneCloser
<1> HIDE DEF mine
<1>3. OneCloser'
  BY <1>2 DEF BatchesInv, OneCloser
<1>4. ReservedInv'
  <2>1. ASSUME NEW b \in Types, run'[b] = "completed" PROVE batch'[b] = "completed"
    BY <2>1 DEF BatchesInv, ReservedInv
  <2>2. ASSUME NEW d \in Closers, NEW b \in Types, Runs(d, b)'
        PROVE  /\ batch'[b] = "processing"
               /\ pc'[d] \in {"working", "completing", "undoing"} => run'[b] = "running"
               /\ pc'[d] = "completing" => b \in locks'
    <3>1. b # mine /\ Runs(d, b) /\ pc'[d] = pc[d]
      BY <1>2, <2>2
    <3> QED
      BY <3>1 DEF BatchesInv, ReservedInv, mine
  <2> QED
    BY <2>1, <2>2 DEF ReservedInv
<1>5. CompletedIsLocked'
  BY DEF BatchesInv, CompletedIsLocked
<1> QED
  BY <1>3, <1>4, <1>5 DEF BatchesInv

-----------------------------------------------------------------------------
(* Every step *)

(* The process that finds no row of a batch, or a failed one, has it alone. *)
LEMMA ReserveKeeps ==
    ASSUME DayAssumption, BatchesInv, NEW c \in Closers, Reserve(c)
    PROVE  BatchesInv'
<1> DEFINE mine == Due[at[c]]
<1>1. /\ Placed /\ OthersStay(c) /\ pc'[c] = "starting" /\ at'[c] = at[c]
      /\ mine \in Types /\ at[c] \in DOMAIN Due
  BY GotoMoves, AtBatch DEF Reserve, BatchesInv, Labels, Running
<1>2. /\ batch' = [batch EXCEPT ![mine] = "processing"]
      /\ UNCHANGED <<run, locks, faults>> /\ batch[mine] \in {"none", "failed"}
  BY DEF Reserve
<1>3. \A b \in Types : Runs(c, b)' <=> b = mine
  BY <1>1 DEF Runs, Running
<1>4. \A d \in Closers \ {c}, b \in Types :
         /\ Runs(d, b)' <=> Runs(d, b)
         /\ pc'[d] = pc[d]
         /\ Runs(d, b) => b # mine
  BY <1>1, <1>2, OthersRunOn DEF BatchesInv, ReservedInv
<1> HIDE DEF mine
<1>5. BatchesTypeOK'
  BY <1>1, <1>2 DEF BatchesInv, BatchesTypeOK, Placed, BatchStatus
<1>6. OneCloser'
  BY <1>3, <1>4 DEF BatchesInv, OneCloser
<1>7. ReservedInv'
  <2>1. ASSUME NEW b \in Types, run'[b] = "completed" PROVE batch'[b] = "completed"
    BY <1>1, <1>2, <2>1 DEF BatchesInv, ReservedInv
  <2>2. ASSUME NEW d \in Closers, NEW b \in Types, Runs(d, b)'
        PROVE  /\ batch'[b] = "processing"
               /\ pc'[d] \in {"working", "completing", "undoing"} => run'[b] = "running"
               /\ pc'[d] = "completing" => b \in locks'
    <3>1. CASE d = c
      BY <1>1, <1>2, <1>3, <2>2, <3>1 DEF BatchesInv, BatchesTypeOK
    <3>2. CASE d # c
      <4>1. b # mine /\ Runs(d, b) /\ pc'[d] = pc[d]
        BY <1>4, <2>2, <3>2
      <4> QED
        BY <1>2, <4>1 DEF BatchesInv, ReservedInv
    <3> QED
      BY <3>1, <3>2
  <2> QED
    BY <2>1, <2>2 DEF ReservedInv
<1>8. CompletedIsLocked'
  BY <1>1, <1>2 DEF BatchesInv, CompletedIsLocked, BatchesTypeOK
<1> QED
  BY <1>5, <1>6, <1>7, <1>8 DEF BatchesInv

(* What a process knows of the batch it runs. *)
LEMMA RunnerKnows ==
    ASSUME BatchesInv, NEW c \in Closers, pc[c] \in Running
    PROVE  /\ at[c] \in DOMAIN Due /\ Due[at[c]] \in Types
           /\ batch[Due[at[c]]] = "processing"
           /\ pc[c] \in {"working", "completing", "undoing"} => run[Due[at[c]]] = "running"
           /\ pc[c] = "completing" => Due[at[c]] \in locks
           /\ run[Due[at[c]]] # "completed"
<1>1. at[c] \in DOMAIN Due /\ Due[at[c]] \in Types
  BY AtBatch DEF BatchesInv
<1> QED
  BY <1>1 DEF BatchesInv, ReservedInv, Runs

(* The batch of a process that runs it moves on, step by step, to its end. *)
LEMMA RunSteps ==
    ASSUME DayAssumption, BatchesInv, NEW c \in Closers,
           StartRun(c) \/ RunExists(c) \/ TakeSnapshot(c) \/ Complete(c) \/ MarkFailed(c)
    PROVE  BatchesInv'
<1> DEFINE mine == Due[at[c]]
<1>1. pc[c] \in Running /\ BatchesTypeOK
  BY DEF StartRun, RunExists, TakeSnapshot, Complete, MarkFailed, Running, BatchesInv
<1>2. /\ at[c] \in DOMAIN Due /\ mine \in Types /\ batch[mine] = "processing"
      /\ pc[c] \in {"working", "completing", "undoing"} => run[mine] = "running"
      /\ pc[c] = "completing" => mine \in locks
      /\ run[mine] # "completed"
  BY <1>1, RunnerKnows
<1> USE DEF BatchesTypeOK, Placed, BatchStatus, RunStatus
<1>3. CASE StartRun(c)
  <2>1. Placed /\ OthersStay(c) /\ pc'[c] = "working" /\ at'[c] = at[c]
    BY <1>1, <1>3, GotoMoves DEF StartRun, Labels, Running
  <2>2. /\ run' = [run EXCEPT ![mine] = "running"]
        /\ UNCHANGED <<batch, locks, faults>>
    BY <1>3 DEF StartRun
  <2> HIDE DEF mine
  <2>3. BatchesTypeOK' /\ run'[mine] = "running"
        /\ \A b \in Types \ {mine} : run'[b] = run[b]
    BY <1>1, <1>2, <2>1, <2>2
  <2> QED
    BY <1>1, <1>2, <2>1, <2>2, <2>3, RunningKeeps DEF Running, mine
<1>4. CASE RunExists(c)
  <2>1. Placed /\ OthersStay(c) /\ pc'[c] = "failing" /\ at'[c] = at[c]
    BY <1>1, <1>4, GotoMoves DEF RunExists, Labels, Running
  <2>2. UNCHANGED <<rowVars, faults>>
    BY <1>4 DEF RunExists
  <2> QED
    BY <1>1, <1>2, <2>1, <2>2, RunningKeeps DEF Running, rowVars
<1>5. CASE TakeSnapshot(c)
  <2>1. Placed /\ OthersStay(c) /\ pc'[c] = "completing" /\ at'[c] = at[c]
        /\ pc[c] = "working"
    BY <1>1, <1>5, GotoMoves DEF TakeSnapshot, Labels, Running
  <2>2. /\ locks' = locks \union {mine}
        /\ UNCHANGED <<batch, run, faults>>
    BY <1>5 DEF TakeSnapshot
  <2> HIDE DEF mine
  <2>3. BatchesTypeOK' /\ mine \in locks'
        /\ \A b \in Types \ {mine} : b \in locks' <=> b \in locks
    BY <1>1, <1>2, <2>1, <2>2
  <2> QED
    BY <1>1, <1>2, <2>1, <2>2, <2>3, RunningKeeps DEF Running, mine
<1>6. CASE Complete(c)
  <2>1. Placed /\ OthersStay(c) /\ pc'[c] \notin Running /\ pc[c] = "completing"
    BY <1>1, <1>6, LeaveMoves DEF Complete, Running
  <2>2. /\ run' = [run EXCEPT ![mine] = "completed"]
        /\ batch' = [batch EXCEPT ![mine] = "completed"]
        /\ UNCHANGED <<locks, faults>>
    BY <1>6 DEF Complete
  <2> HIDE DEF mine
  <2>3. BatchesTypeOK' /\ run'[mine] = "completed" /\ batch'[mine] = "completed"
        /\ \A b \in Types \ {mine} : batch'[b] = batch[b] /\ run'[b] = run[b]
    BY <1>1, <1>2, <2>1, <2>2
  <2> QED
    BY <1>1, <1>2, <2>1, <2>2, <2>3, EndingKeeps DEF mine
<1>7. CASE MarkFailed(c)
  <2>1. Placed /\ OthersStay(c) /\ pc'[c] \notin Running
    BY <1>1, <1>7, LeaveMoves DEF MarkFailed, Running
  <2>2. /\ run' \in {run, [run EXCEPT ![mine] = "failed"]}
        /\ batch' = [batch EXCEPT ![mine] = "failed"]
        /\ UNCHANGED <<locks, faults>>
    BY <1>7 DEF MarkFailed
  <2> HIDE DEF mine
  <2>3. BatchesTypeOK' /\ run'[mine] # "completed" /\ batch'[mine] = "failed"
        /\ \A b \in Types \ {mine} : batch'[b] = batch[b] /\ run'[b] = run[b]
    BY <1>1, <1>2, <2>1, <2>2
  <2> QED
    BY <1>1, <1>2, <2>1, <2>2, <2>3, EndingKeeps DEF mine
<1> QED
  BY <1>3, <1>4, <1>5, <1>6, <1>7

(* A failure or a restart leaves the rows as they are: a batch that nobody runs
   any more may stay reserved, but nobody else has it. *)
LEMMA FaultKeeps ==
    ASSUME DayAssumption, BatchesInv, NEW c \in Closers,
           StatementFails(c) \/ MarkIsLost(c) \/ Restart(c)
    PROVE  BatchesInv'
<1>1. UNCHANGED rowVars /\ faults' \in 0 .. MaxFaults /\ BatchesTypeOK
  BY DEF StatementFails, MarkIsLost, Restart, Fault, BatchesInv, BatchesTypeOK, DayAssumption
<1>2. CASE GiveUp(c)
  <2>1. Placed /\ OthersStay(c) /\ pc'[c] \notin Running
    BY <1>1, <1>2, LeaveMoves DEF Running
  <2> QED
    BY <1>1, <2>1, LeavingKeeps
<1>3. ASSUME NEW to \in {"failing", "undoing"}, Goto(c, to), pc[c] \in Running,
             to = "undoing" => pc[c] \in {"working", "completing"}
      PROVE  BatchesInv'
  <2>1. Placed /\ OthersStay(c) /\ pc'[c] = to /\ at'[c] = at[c]
    BY <1>1, <1>3, GotoMoves DEF Labels, Running
  <2>2. BatchesTypeOK'
    BY <1>1, <2>1 DEF BatchesTypeOK, Placed, rowVars
  <2> QED
    BY <1>1, <1>3, <2>1, <2>2, RunnerKnows, RunningKeeps DEF Running, rowVars
<1> QED
  BY <1>2, <1>3 DEF StatementFails, MarkIsLost, Restart, Running

(* Every step keeps the invariant. *)
LEMMA BatchesStep ==
    ASSUME DayAssumption, BatchesInv, [BatchesNext]_vars
    PROVE  BatchesInv'
<1>1. ASSUME NEW c \in Closers, RunOnce(c) \/ Look(c) \/ Skip(c) \/ LoseReservation(c)
      PROVE  BatchesInv'
  <2>1. UNCHANGED <<rowVars, faults>> /\ BatchesTypeOK
    BY <1>1 DEF RunOnce, Look, Skip, LoseReservation, BatchesInv
  <2>2. \/ GoOn(c) \/ GiveUp(c)
        \/ \E to \in {"looking", "reserving"} : Goto(c, to)
    BY <1>1 DEF RunOnce, Look, Skip, LoseReservation
  <2>3. Placed /\ OthersStay(c) /\ pc'[c] \notin Running
    BY <2>1, <2>2, GotoMoves, LeaveMoves DEF Labels, Running
  <2> QED
    BY <2>1, <2>3, LeavingKeeps DEF BatchesTypeOK
<1>2. CASE UNCHANGED vars
  BY <1>2 DEF vars, rowVars, BatchesInv, BatchesTypeOK, OneCloser, ReservedInv,
              CompletedIsLocked, Runs
<1> QED
  BY <1>1, <1>2, ReserveKeeps, RunSteps, FaultKeeps DEF BatchesNext, Step

(* Nothing runs at first. *)
LEMMA BatchesStart ==
    ASSUME DayAssumption, BatchesInit
    PROVE  BatchesInv
<1>1. 1 \in DOMAIN Due
  BY DEF DayAssumption
<1> QED
  BY <1>1 DEF DayAssumption, BatchesInit, BatchesInv, BatchesTypeOK, OneCloser, ReservedInv,
     CompletedIsLocked, Runs, Running, Labels, BatchStatus, RunStatus

(* However many processes close the day, and whatever fails or restarts, a batch
   is run by one of them at a time, and a batch that is completed has its run
   completed and its period locked. *)
THEOREM BatchesRunAlone ==
    ASSUME DayAssumption
    PROVE  BatchesSpec => [](OneCloser /\ CompletedIsLocked)
<1>1. BatchesInv => OneCloser /\ CompletedIsLocked
  BY DEF BatchesInv
<1>2. BatchesInit => BatchesInv
  BY BatchesStart
<1>3. BatchesInv /\ [BatchesNext]_vars => BatchesInv'
  BY BatchesStep
<1> QED
  BY <1>1, <1>2, <1>3, PTL DEF BatchesSpec

(* Who reserves a batch does not find it completed, and who ends one has it
   reserved: a step does not touch a batch that is completed. *)
LEMMA CompletedStays ==
    ASSUME BatchesInv, [BatchesNext]_vars, NEW b \in Types, batch[b] = "completed"
    PROVE  batch'[b] = "completed"
<1>1. ASSUME NEW c \in Closers, Reserve(c) \/ Complete(c) \/ MarkFailed(c)
      PROVE  batch'[b] = "completed"
  <2>1. Due[at[c]] # b
    <3>1. CASE Reserve(c)
      BY <3>1 DEF Reserve
    <3>2. CASE Complete(c) \/ MarkFailed(c)
      <4>1. pc[c] \in Running
        BY <3>2 DEF Complete, MarkFailed, Running
      <4> QED
        BY <4>1, RunnerKnows
    <3> QED
      BY <1>1, <3>1, <3>2
  <2>2. batch'[b] = batch[b]
    BY <1>1, <2>1 DEF Reserve, Complete, MarkFailed, BatchesInv, BatchesTypeOK
  <2> QED
    BY <2>2
<1>2. ASSUME NEW c \in Closers,
             \/ RunOnce(c) \/ Look(c) \/ Skip(c) \/ LoseReservation(c) \/ StartRun(c)
             \/ RunExists(c) \/ TakeSnapshot(c)
             \/ StatementFails(c) \/ MarkIsLost(c) \/ Restart(c)
      PROVE  batch' = batch
  BY <1>2 DEF RunOnce, Look, Skip, LoseReservation, StartRun, RunExists, TakeSnapshot,
              StatementFails, MarkIsLost, Restart, Fault, rowVars
<1>3. CASE UNCHANGED vars
  BY <1>3 DEF vars, rowVars
<1> QED
  BY <1>1, <1>2, <1>3 DEF BatchesNext, Step

(* A day that was closed stays closed: no retry, no second process and no
   failure takes back a completed batch, its run or the lock of its period. *)
THEOREM ClosedStaysClosed ==
    ASSUME DayAssumption
    PROVE  BatchesSpec => CompletedIsFinal
<1>1. BatchesInit => BatchesInv
  BY BatchesStart
<1>2. BatchesInv /\ [BatchesNext]_vars => BatchesInv'
  BY BatchesStep
<1>3. BatchesInv /\ BatchesInv' /\ [BatchesNext]_vars
        => [\A b \in Types :
               batch[b] = "completed" =>
                  batch'[b] = "completed" /\ run'[b] = "completed" /\ b \in locks']_vars
  BY CompletedStays DEF BatchesInv, CompletedIsLocked
<1> QED
  BY <1>1, <1>2, <1>3, PTL DEF BatchesSpec, CompletedIsFinal

=============================================================================
