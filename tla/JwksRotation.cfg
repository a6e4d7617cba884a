SPECIFICATION FairSpec
CONSTANTS
    Request = {r1}
    Kid = {k1, k2}
    None = None
    Ttl = 4
    Floor = 1
    Timeout = 1
    MaxTime = 5
PROPERTIES
    UnknownIsRefreshed
