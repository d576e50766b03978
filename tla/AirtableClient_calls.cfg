\* Two calls of one user, over and over, for one base or none; a tick is half the time in
\* which the bucket gains a token.
CONSTANTS
  k1 = k1
  k2 = k2
  u1 = u1
  b1 = b1
  Calls = {k1, k2}
  Users = {u1}
  Bases = {b1}
  NoBase = NoBase
  Burst = 1
  BasePeriod = 2
  UserInterval = 1
  MaxQueue = 2
  MaxAttempts = 2
  MaxBackoff = 3
  RetryAfters = {1, 4}
  Second = 4
SPECIFICATION FairSpec
INVARIANTS TypeOK CallsAreTrue UserSlotsApart BaseRate RetryAfterKept
PROPERTIES CallsEnd
