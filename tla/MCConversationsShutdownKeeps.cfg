CONSTANTS
    Sockets = {k1}
    Convs = {c1}
    Sessions = {s1, s2, s3}
    Handlers = {}
    None = None
SPECIFICATION FairSpec
PROPERTIES
    ShutdownReleases
