SPECIFICATION ApprovalSpec
CONSTANTS
    loan1 = loan1
    officer = officer
    manager = manager
    admin = admin
    None = None
    Loans = {loan1}
    Totals = {1}
    MaxTotal = 2
    Charges = {1}
    SyncJobs = {}
    PenaltyJobs = {}
    Users = {manager, admin}
    Makers = {manager, admin}
    Checkers = {manager, admin}
    Admins = {admin}
    Requests = {r1, r2}
    Types = {"write_off"}
    MaxFaults = 1
INVARIANT EventsAreFacts
