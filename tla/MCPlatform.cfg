CONSTANTS
    l1 = l1  c1 = c1  c2 = c2  c3 = c3  o1 = o1  o2 = o2  o3 = o3
    Targets = {l1}
    BaseDays <- MCBaseDays
    Cards = {c1, c2, c3}
    TrackOf <- MCTrackOf
    DaysOf <- MCDaysOf
    RedeemUntil <- MCRedeemUntil
    Orders = {o1, o2, o3}
    SoldBy <- MCSoldBy
    MaxTime = 2
    e1 = e1  e2 = e2  d1 = d1  d2 = d2
    ShopEvents = {e1, e2}
    Digests = {d1, d2}
    MaxOrders = 3
    RequestIds = {1, 2}
    Sizes = {1, 2}
    Costs = {1, 2}
    OpeningMoney = 3
    MaxGrants = 1
    MaxLines = 3
    i1 = i1  i2 = i2  bk = bk  b1 = b1  b2 = b2  b3 = b3
    Databases = {d1, d2}
    DefaultDb = d1
    Installers = {i1, i2}
    MaxStarts = 3
    MaxFailures = 2
    Migrators = {i1, i2}
    Saver = bk
    Releases <- MCReleases
    MaxBreaks = 2
    Archives = {b1, b2, b3}
    Intact = {b1, b2}
    Dumps = {b1, b3}
    Destinations = {e1, e2}
    DumpTargets = {d1, d2}
    Tools = {i1, i2}
    Outputs = {o1, o2, o3}
    Exporters = {1}
    Subjects = {d1, d2}
    BatchLimit = 2
    HistoryPage = 1
    MaxRows = 4
    MaxItems = 3
    MaxStops = 1
SPECIFICATION PlatformSpec
CHECK_DEADLOCK FALSE
INVARIANTS
    LedgerExact
    SalesConsistent
    QuotaSound
    PlatformSound
PROPERTY
    EntitlementPaid
