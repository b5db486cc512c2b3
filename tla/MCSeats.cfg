CONSTANTS
  i1 = i1
  i2 = i2
  v1 = v1
  Installations = {i1, i2}
  Keys = {i1, i2}
  KeyOf <- MCKeyOf
  Invites = {v1}
  MaxSeats = 1
  Duration = 2
  Grace = 1
  SeatLease = 1
  TokenHorizon = 2
  BorrowLimits = {0, 3}
  BorrowRequests = {0, 3}
  Renewals = 1
  MaxTime = 3
SPECIFICATION Spec
SYMMETRY Symmetry
INVARIANT SeatLimit
INVARIANT ShutOut
PROPERTY BorrowReserved
PROPERTY GrantWithinSeat
PROPERTY RevocationDrains
