SPECIFICATION Spec
CONSTANTS
  t1 = t1  t2 = t2  c1 = c1  a1 = a1  r1 = r1  r2 = r2
  Tasks = {t1, t2}
  Contents = {c1}
  Accounts = {a1}
  Requests = {r1}
  WithActor = {t1}
  ContentOf <- SharedContentOf
  AccountOf <- SharedAccountOf
  MaxAttempts = 1
INVARIANTS PublishedBecausePosted
