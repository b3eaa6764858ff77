SPECIFICATION Spec
CONSTANTS
    Reporters = {r}
    Staff = {m}
    Superadmins = {m}
    CaseIds = {1, 2}
    SanctionIds = {1, 2, 3}
    Keys = {k1, k2}
    CaseActs = {"takeover", "resolve"}
    IssuedTypes = {"strike", "permanent_ban"}
    Policies <- TwoPolicies
    MaxVersion = 2
    Item = item
    Offender = offender
    None = None
INVARIANTS
    NoSessionUnderBan
    OncePerKey
PROPERTIES
    ThresholdsApplied
SYMMETRY Symmetry
CHECK_DEADLOCK FALSE
