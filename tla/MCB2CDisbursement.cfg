SPECIFICATION FairB2CSpec
CONSTANTS
    loan = loan
    clerk = clerk
    checker = checker
    None = None
    Loans = {loan}
    ClientOf <- MCClientOf
    Principal <- MCPrincipal
    Charged = {loan}
    Staff = {clerk, checker}
    Admins = {}
    CreatedBy <- MCCreatedBy
    AllowConcurrentLoans = FALSE
    OfficerOf <- MCOfficerOf
    Tellers = {t1}
    Rows = {r1}
    Retriers = {job, adm}
    Jobs = {job}
    Callers = {r1, t1, job, adm}
    Amounts = {}
    MaxFaults = 1
    MaxReversals = 1
INVARIANTS B2CTypeOK CoreDisbursedIsBooked CoreFollowsAcceptance CompletedIsPaid
PROPERTIES CompletedNeverFails OrphansSurface RequestsEnd
CHECK_DEADLOCK FALSE
