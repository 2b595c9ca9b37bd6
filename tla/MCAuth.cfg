CONSTANTS
    Names = {admin, alice}
    Admin = admin
    Passwords = {p, q}
    None = None
    Torn = Torn
    Beside = FALSE
    Tokens = {t1}
    Addresses = {a1}
    Requests = {r1, r2}
    SessionTTL = 1
    FailureWindow = 2
    MaxFailures = 2
    MaxLate = 1
SPECIFICATION FairSpec
INVARIANTS
    TypeOK
PROPERTIES
    SweepSparesCurrent
    BlockNeverExtended
    SignInsDiscarded
