SPECIFICATION ApprovalSpec
CONSTANTS
    loan1 = loan1
    officer = officer
    manager = manager
    admin = admin
    None = None
    Loans = {loan1}
    Totals = {1}
    MaxTotal = 3
    Charges = {2}
    SyncJobs = {job}
    PenaltyJobs = {engine}
    Users = {manager, admin}
    Makers = {admin}
    Checkers = {manager, admin}
    Admins = {admin}
    Requests = {r1, r2}
    Types = {"write_off"}
    MaxFaults = 1
INVARIANTS OtherEyes ExecutedAsRequested WrittenOffOnce
SYMMETRY RequestSymmetry
