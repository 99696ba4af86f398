SPECIFICATION FairCollectionsSpec
CONSTANTS
    l1 = l1
    l2 = l2
    m1 = m1
    k1 = k1
    t1 = t1
    t2 = t2
    w1 = w1
    o1 = o1
    None = None
    Loans = {l1, l2}
    Receipts = {m1}
    Keys = {k1}
    Principal <- MCPrincipal
    AmountOf <- MCAmountOf
    LoansOf <- MCLoansOf
    SubmissionsOf <- MCSubmissionsOf
    Tellers = {t1, t2}
    Webhooks = {w1}
    Operators = {o1}
    MaxTotal = 2
INVARIANTS
    CollectionsTypeOK
    ReconciledIsBooked
    ConfirmedIsBooked
    CreditAtPayoff
    OnlyDesksDeadlock
PROPERTIES
    BooksOnce
    CallsEnd
