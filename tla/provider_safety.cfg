\* With its collections and clicks used up the instance stops.
CHECK_DEADLOCK FALSE

SPECIFICATION FairSpec

CONSTANTS
    Collector = w
    Pages = {p1}
    clash = clash
    a = a
    b = b
    ss = ss
    malformed = malformed
    ValueError = ValueError
    hk = hk
    jp = jp
    us = us
    au = au
    direct = direct
    home = home
    unnamed = unnamed
    ProxyNames <- MCProxyNames
    Urls <- MCUrls
    Static <- MCStatic
    Lists <- MCLists
    Subscribed = TRUE
    RefreshSeconds = 3600
    Nodes <- MCNodes
    ProxyGroup = Proxies
    Global = GLOBAL
    Layouts <- MCLayouts
    SkipNames = {direct}
    Keyworded = {hk, jp, us}
    MaxMeddling = 1
    ClashUrl = clash
    RotateOn429 = TRUE
    RotateOnError = FALSE
    RetryAfterRotate = TRUE
    Profiles = 5
    Watched = {}
    MaxCollections = 1
    MaxVisits = 1
    None = None

INVARIANTS
    TypeOK
    RoundRobin
    RotationFromCurrent
    NextCandidate
    RequestRecorded
    RetryMatchesNode
PROPERTIES
    CollectionEnds
