SPECIFICATION Spec
CONSTANTS
    loan = loan
    clerk = clerk
    officer = officer
    checker = checker
    admin = admin
    None = None
    Loans = {loan}
    ClientOf <- MCClientOf
    Principal <- MCPrincipal
    Charged = {loan}
    Staff = {clerk, officer, checker, admin}
    Admins = {admin}
    CreatedBy <- MCCreatedBy
    AllowConcurrentLoans = FALSE
    OfficerOf <- MCOfficerOf
    Callers = {c1}
    Amounts = {4}
    MaxFaults = 0
PROPERTIES RejectedIsTerminal
