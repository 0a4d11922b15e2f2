CONSTANTS
  n1 = n1
  e1 = e1
  e2 = e2
  r1 = r1
  r2 = r2
  Names = {n1}
  Emails = {e1, e2}
  Requests = {r1, r2}
  Forms <- OneName
  Readers = {g1}
  Tokens = {t1}
  Checks = {k1}
  Revokes = {v1}
  Lifetime = 2
  NoRow = NoRow
  NoCopy = NoCopy
  Nobody = Nobody
SPECIFICATION FairSpec
INVARIANTS
  Distinct
  RevokedIsRejected
PROPERTIES
  StatusTakesEffect
