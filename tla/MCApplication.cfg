CONSTANTS
    n1 = n1  n2 = n2  n3 = n3  k1 = k1  k2 = k2  w1 = w1  w2 = w2
    Workers = {w1, w2}
    Nonces = {n1, n2, n3}
    Keys = {k1, k2}
    Messages <- MCMessages
    Window = 1
    NonceTTL = 3
    MaxWait = 1
    CleanLimit = 1
    Quota = 3
    MonthLength = 3
    MaxTime = 4
    d1 = d1  m1 = m1
    AppAdmins = {m1}
    Developers = {d1}
    Nobody = Nobody
    Lifetimes = {2}
    Overlaps = {1}
    MaxKeys = 2
    MaxResets = 1
    MaxClock = 2
    t1 = t1  t2 = t2
    Writers = {t1, t2}
    PageSize = 1
    MaxEvents = 4
    r1 = r1  r2 = r2  r3 = r3
    Scoped = {r1, r2}
    Classic = {r3}
    Capacity = 2
    v1 = v1  v2 = v2  u1 = u1  u2 = u2
    Visitors = {v1, v2}
    BlockAt = 2
    BlockTTL = 1
    MaxBlockClock = 3
    Owners = {u1}
    NoOwner = u2
    Signals = {"integrity"}
    Downloads = {1}
    MaxOccurrences = 1
    Builds <- MCBuilds
    Named = {0, 1}
    ManifestTTL = 2
    MaxManifests = 1
    MaxUpdateClock = 2
SPECIFICATION ApplicationSpec
SYMMETRY Symmetry
CHECK_DEADLOCK FALSE
INVARIANTS
    ChargedOnce
    QuotaHeld
    RemainingExact
    ApplicationSound
    NoFalseAlarm
    PackagesSound
    OrdersStand
    DownloadsSound
PROPERTY
    AdmittedOnce
