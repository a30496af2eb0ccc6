SPECIFICATION Spec
CONSTANTS
  t1 = t1  t2 = t2  c1 = c1  a1 = a1  r1 = r1  r2 = r2
  Tasks = {t1}
  Contents = {c1}
  Accounts = {a1}
  Requests = {r1, r2}
  WithActor = {t1}
  ContentOf <- OneContentOf
  AccountOf <- OneAccountOf
  MaxAttempts = 3
SYMMETRY RequestSymmetry
INVARIANTS IInv ValidatorVerdict OrphanPostsAreExplained
PROPERTIES KeepsPromise
