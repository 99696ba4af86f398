SPECIFICATION FairApprovalSpec
CONSTANTS
    loan1 = loan1
    officer = officer
    manager = manager
    admin = admin
    None = None
    Loans = {loan1}
    Totals = {1}
    MaxTotal = 2
    Charges = {1}
    SyncJobs = {}
    PenaltyJobs = {}
    Users = {officer, manager, admin}
    Makers = {officer}
    Checkers = {manager, admin}
    Admins = {admin}
    Requests = {r1, r2}
    Types = {"write_off", "restructure", "top_up"}
    MaxFaults = 0
INVARIANTS ApprovalTypeOK ExecutedAsRequested ReceivableMatchesBalance OnePending
PROPERTIES DecisionIsFinal ReviewsEnd ReviewsAreAtomic
