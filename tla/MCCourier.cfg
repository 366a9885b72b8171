SPECIFICATION FairSpec
CONSTANTS
  k1 = k1
  k2 = k2
  k3 = k3
  p1 = p1
  p2 = p2
  p3 = p3
  Keys = {k1, k2, k3}
  Peers = {p1, p2, p3}
  Owner <- MCOwner
  Bit <- MCBit
  Nobody = Nobody
  MaxEnvelopes = 2
  MaxPerDepositor = 1
  MaxDeliver = 1
  MaxSpray = 1
  MaxCopies = 2
  Day = 2
  Deposits <- MCDeposits
  MaxLifetime = 3
  Cooldown = 2
  Wrap = 16
  Times = {3, 6}
  MaxFaults = 2
INVARIANT MailAccounted
PROPERTY MailLeaves
PROPERTY MailIsDelivered
CHECK_DEADLOCK FALSE
