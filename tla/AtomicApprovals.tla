-------------------------- MODULE AtomicApprovals --------------------------
(***************************************************************************)
(* What the approval workflow promises: an approved operation happens at   *)
(* once, to the loan as it is at that moment, and together with the        *)
(* decision on its request.  There are no locks here, no transactions and  *)
(* nothing half done; repayments, penalties and the overdue job are those  *)
(* of LoanServicing.                                                       *)
(***************************************************************************)
EXTENDS LoanServicing

CONSTANTS
    Requests,       \* ids of approval requests
    Types,          \* request types made
    Makers,         \* users who may request an operation
    Checkers        \* users with a checker role

VARIABLE request    \* request -> its row

atomicVars == <<servicingVars, request>>

Nothing ==
    [type |-> "none", loan |-> None, by |-> None, status |-> "none",
     snapshot |-> NoRow, checker |-> None, ranOn |-> NoRow]

New ==
    [type : Types, loan : Loans, by : Makers, status : {"pending"},
     snapshot : Rows, checker : {None}, ranOn : {NoRow}]

AtomicInit == ServicingInit /\ request = [r \in Requests |-> Nothing]

Open == {r \in Requests : request[r].status = "pending"}

(* The clock takes some of the open requests along with any other step. *)
Without(gone) ==
    [r \in Requests |-> IF r \in gone THEN [request[r] EXCEPT !.status = "expired"]
                                      ELSE request[r]]

Expire(gone) ==
    /\ request' = Without(gone)
    /\ UNCHANGED servicingVars

(* One open request of a type for a loan. *)
Make(r, gone) ==
    /\ request[r] = Nothing
    /\ request'[r] \in New
    /\ \A q \in Open \ gone :
          request[q].type = request'[r].type => request[q].loan # request'[r].loan
    /\ request' = [Without(gone) EXCEPT ![r] = request'[r]]
    /\ UNCHANGED servicingVars

MayDecide(u, r) == u \in Checkers /\ r \in Open /\ u # request[r].by

Decided(r, u, status, ranOn) ==
    [request[r] EXCEPT !.status = status, !.checker = u, !.ranOn = ranOn]

Reject(u, r, gone) ==
    /\ MayDecide(u, r) /\ r \notin gone
    /\ request' = [Without(gone) EXCEPT ![r] = Decided(r, u, "rejected", NoRow)]
    /\ UNCHANGED servicingVars

Gone(l) ==
    \E r \in Requests :
        request[r].loan = l /\ request[r].type = "write_off" /\ request[r].status = "approved"

(* A write-off and a restructure apply to the loan the maker saw, to a cent of
   its balance, if it owes anything.  A loan is written off once. *)
MayHappen(r) ==
    LET now == loan[request[r].loan]
        seen == request[r].snapshot
    IN
    /\ now.status \in Collectible
    /\ request[r].type \in {"write_off", "restructure"} =>
          /\ now.status = seen.status
          /\ now.balance - seen.balance \in -1 .. 1
          /\ now.balance > 0
    /\ request[r].type = "write_off" => ~Gone(request[r].loan)

WriteOff(l) ==
    /\ loan' = [loan EXCEPT ![l].status = "written_off"]
    /\ receivable' = [receivable EXCEPT ![l] = @ - loan[l].balance]

(* A restructure is not booked. *)
Restructure(l) ==
    /\ loan'[l] \in Rows /\ loan'[l].status = "restructured"
    /\ loan' = [loan EXCEPT ![l] = loan'[l]]
    /\ UNCHANGED receivable

ChangeTerms(l) ==
    /\ loan'[l] \in Rows /\ loan'[l].status \in {"active", "restructured"}
    /\ loan' = [loan EXCEPT ![l] = loan'[l]]
    /\ receivable' = [receivable EXCEPT ![l] = @ + loan'[l].balance - loan[l].balance]

Execute(u, r) ==
    LET l == request[r].loan IN
    /\ MayDecide(u, r) /\ MayHappen(r)
    /\ \/ request[r].type = "write_off" /\ WriteOff(l)
       \/ request[r].type = "restructure" /\ Restructure(l)
       \/ request[r].type \notin {"write_off", "restructure"} /\ ChangeTerms(l)
    /\ request' = [request EXCEPT ![r] = Decided(r, u, "approved", loan[l])]
    /\ UNCHANGED <<holder, synced, charging>>

(* The server dies and its jobs forget what they have read. *)
ForgetJobs ==
    /\ synced' = [j \in SyncJobs |-> NotLoaded]
    /\ charging' = [p \in PenaltyJobs |-> None]
    /\ UNCHANGED <<loan, receivable, holder, request>>

AtomicNext ==
    \/ ServicingNext /\ UNCHANGED request
    \/ ForgetJobs
    \/ \E u \in Checkers, r \in Requests : Execute(u, r)
    \/ \E gone \in SUBSET Open :
          \/ Expire(gone)
          \/ \E r \in Requests : Make(r, gone)
          \/ \E u \in Checkers, r \in Requests : Reject(u, r, gone)

AtomicSpec == AtomicInit /\ [][AtomicNext]_atomicVars

=============================================================================
