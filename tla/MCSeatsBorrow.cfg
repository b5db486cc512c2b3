CONSTANTS
  i1 = i1
  i2 = i2
  v1 = v1
  Installations = {i1, i2}
  Keys = {i1, i2}
  KeyOf <- MCKeyOf
  Invites = {v1}
  MaxSeats = 1
  Duration = 2
  Grace = 1
  SeatLease = 1
  TokenHorizon = 2
  BorrowLimits = {0, 3}
  BorrowRequests = {0, 1, 3}
  Renewals = 1
  MaxTime = 4
SPECIFICATION Spec
INVARIANT BorrowedTokenHoldsSeat
