CONSTANTS
    d1 = d1  d2 = d2  m1 = m1  m2 = m2  i1 = i1  i2 = i2
    Installations = {i1, i2}
    Keys = {i1, i2}
    KeyOf <- MCKeyOf
    Values = {d1}
    Kind <- MCKind
    MaxAliases = 1
    MaxGroups = 1
    MaxActivations = 1
    RebindLimit = 1
    GroupIds = {g1, g2}
    Rules = {}
    Patterns <- MCPatterns
    Invites = {v1}
    Pendings = {p1}
    Users = {u1, u2}
    MaxRebinds = 1
    None = None
SPECIFICATION Spec
SYMMETRY Symmetry
INVARIANTS
    InvitationSingleKey
    StaleRefused
