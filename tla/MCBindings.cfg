CONSTANTS
    d1 = d1  d2 = d2  m1 = m1  m2 = m2  i1 = i1  i2 = i2
    Installations = {i1, i2}
    Keys = {i1, i2}
    KeyOf <- MCKeyOf
    Values = {d1, d2, m1}
    Kind <- MCKind
    MaxAliases = 2
    MaxGroups = 2
    MaxActivations = 1
    RebindLimit = 1
    GroupIds = {g1, g2, g3}
    Rules = {r1}
    Patterns <- MCPatterns
    Invites = {}
    Pendings = {}
    Users = {u1}
    MaxRebinds = 1
    None = None
SPECIFICATION Spec
SYMMETRY Symmetry
INVARIANTS
    ActivationLimit
    GroupLimit
    DomainsRegistered
