SPECIFICATION Spec
CONSTANTS
    a = a
    b = b
    a1 = a1
    a2 = a2
    b1 = b1
    Users = {a, b}
    Ops = {a1, a2, b1}
    UserOf <- MCUserOf
    Requests = {r1, r2}
    None = None
    UseJournal = TRUE
    MaxActs = 2
    MaxRestores = 1
SYMMETRY Symmetry
INVARIANTS
    ClosureSurvives
    ConfirmedIsJournaled
    JournalAgrees
    SomeSuperadmin
CHECK_DEADLOCK FALSE
