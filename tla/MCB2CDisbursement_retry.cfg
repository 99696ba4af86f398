SPECIFICATION FairB2CSpec
CONSTANTS
    loan = loan
    clerk = clerk
    checker = checker
    None = None
    Loans = {loan}
    ClientOf <- MCClientOf
    Principal <- MCPrincipal
    Charged = {loan}
    Staff = {clerk, checker}
    Admins = {}
    CreatedBy <- MCCreatedBy
    AllowConcurrentLoans = FALSE
    OfficerOf <- MCOfficerOf
    Tellers = {}
    Rows = {r1}
    Retriers = {job}
    Jobs = {job}
    Callers = {r1, job}
    Amounts = {}
    MaxFaults = 1
    MaxReversals = 0
PROPERTIES RetryRecovers
CHECK_DEADLOCK FALSE
