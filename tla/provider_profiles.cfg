\* The gateway mode of README: one proxy, Clash's port; nobody interferes.
\* With its collections used up the instance stops.
CHECK_DEADLOCK FALSE

SPECIFICATION Spec

CONSTANTS
    Collector = w
    Pages = {}
    clash = clash
    a = a
    b = b
    ss = ss
    malformed = malformed
    ValueError = ValueError
    hk = hk
    jp = jp
    us = us
    au = au
    direct = direct
    home = home
    unnamed = unnamed
    ProxyNames <- MCProxyNames
    Urls <- MCUrls
    Static <- MCStatic
    Lists <- MCLists
    Subscribed = FALSE
    RefreshSeconds = 3600
    Nodes <- MCNodes
    ProxyGroup = Proxies
    Global = GLOBAL
    Layouts <- MCLayouts
    SkipNames = {direct}
    Keyworded = {hk, jp, us}
    MaxMeddling = 0
    ClashUrl = clash
    RotateOn429 = TRUE
    RotateOnError = TRUE
    RetryAfterRotate = TRUE
    Profiles = 5
    Watched <- MCWatched
    MaxCollections = 2
    MaxVisits = 0
    None = None

INVARIANTS
    StableProfiles
