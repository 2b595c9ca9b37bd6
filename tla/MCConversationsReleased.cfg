CONSTANTS
    Sockets = {k1, k2}
    Convs = {c1}
    Sessions = {s1, s2}
    Handlers = {h1}
    None = None
CONSTRAINT Released
SPECIFICATION FairSpec
VIEW View
PROPERTIES
    UnattendedReleased
    WaitersWoken
    SocketsDrain
