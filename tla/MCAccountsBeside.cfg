CONSTANTS
    Names = {admin}
    Admin = admin
    Passwords = {p, q}
    None = None
    Torn = Torn
    Beside = TRUE
SPECIFICATION AccountsSpec
CHECK_DEADLOCK FALSE
INVARIANTS
    LeftWhole
