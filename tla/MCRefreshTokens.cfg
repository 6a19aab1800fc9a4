SPECIFICATION FairSpec
CONSTANTS
  Token = {t1, t2, t3}
  Family = {f1, f2}
  User = {u1, u2}
  Request = {r1, r2, r3}
  NoRow = NoRow
  NoToken = NoToken
  PoolSize = 2
  TTL = 1
  MaxTime = 2
INVARIANT OneUnspentToken
INVARIANT NoSlidingSession
INVARIANT DoubleSpendKillsSuccessor
INVARIANT EndedStaysEnded
INVARIANT StopIsNested
PROPERTY RotationIsAtomic
PROPERTY RequestsFinish
PROPERTY SessionsAsPromised
