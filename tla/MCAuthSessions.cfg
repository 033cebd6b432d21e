SPECIFICATION SessionSpec
CONSTANTS
    Calls = {a, b}
    Tokens = {t1, t2, t3}
    ApiTokens = {k}
    Users = {"viewer"}
    None = None
SYMMETRY MCSymmetry
INVARIANTS
    SessionTypeOK
    SessionDoesNotFork
    SessionKept
    PrincipalIsJustified
PROPERTIES
    RevokedStaysRevoked
