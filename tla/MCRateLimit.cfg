SPECIFICATION Spec
CONSTANTS
  t1 = t1  t2 = t2  t3 = t3  k1 = k1  k2 = k2
  Caller = {t1, t2, t3}
  Key = {k1, k2}
  KeyOf <- MCKeyOf
  Limit = 2
  Window = 2
  MinRetry = 1
  MaxDelay = 1
  MaxTime = 3
  NoRefusal = NoRefusal
SYMMETRY Symmetry
INVARIANTS
  SweptWindowsAreGone
PROPERTIES
  ImplementsBudget
  RefusalIsEarned
  RetryAfterSuffices
