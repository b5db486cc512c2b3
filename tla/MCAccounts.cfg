CONSTANTS
    y1 = y1  y2 = y2
    Attempts = {y1, y2}
    Backups = {1}
    ChallengeTTL = 1
    PendingTTL = 0
    MaxStep = 1
    MaxSecrets = 1
    MaxChallenges = 1
    MaxVersion = 3
    Callers = {y1, y2}
    MaxCodes = 2
    MaxPasswords = 2
    Images = {1, 2}
    d = d  w = w  nobody = nobody
    Values = {d, w}
    Covered <- MCCovered
    DeviceOf <- MCDevice
    Instances = {1, 2}
    Sessions = {1}
    Users = {y1, y2}
    Nobody = nobody
    RenewalCards = {1}
    Tickets = {1}
    ChangeIds = {1}
    MaxBindings = 1
    MaxDeployments = 1
    MaxDevices = 1
    MaxSeats = 1
    ChangeLimit = 1
    SeatLease = 1
    OfflineGrace = 2
    ExpireGrace = 0
    Term = 1
    RenewTerm = 1
    MaxRows = 2
    MaxClock = 1
    p1 = p1  p2 = p2  none = none
    Processes = {p1, p2}
    NoOne = none
    ServerSeats = 1
    MaxLeases = 2
    q1 = q1  q2 = q2  q3 = q3  a1 = a1  a2 = a2  n1 = n1  n2 = n2  n3 = n3
    People = {q1, q2, q3}
    Agents = {a1, a2}
    Logins = {n1, n2, n3}
    Mails = {n2}
    Unique <- MCUnique
    NoMail = NoMail
    Elder = q1
    Legacy = q2
    LegacyName = n1
    LegacyMail = NoMail
    Registrars = {y1, y2}
    Chosen = {n2, n3}
    Requesters = {q2}
    MaxDisabled = 1
    Addresses = {a1, a2}
    Entrants = {y1, y2}
    Limit = 2
    Threshold = 1
    Window = 2
    CleanAt = 2
    MaxTicks = 2
SPECIFICATION AccountsSpec
SYMMETRY Symmetry
CHECK_DEADLOCK FALSE
INVARIANTS
    LoginSound
    RecoverySound
    EntryGuarded
    ClassicSound
    ClientSound
    IdentitiesSound
