SPECIFICATION FairSpec
CONSTANTS
  Token = {t1, t2, t3}
  Family = {f1, f2}
  User = {u1}
  Request = {r1, r2, r3}
  NoRow = NoRow
  NoToken = NoToken
  PoolSize = 10
  TTL = 1
  MaxTime = 0
PROPERTY RevocationCommits
