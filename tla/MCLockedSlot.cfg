\* Three threads contend for one store; two values make a stale read visible.
SPECIFICATION Spec
CONSTANTS
  Threads = {t1, t2, t3}
  Values = {v1, v2}
  None = None
  NoOwner = NoOwner
INVARIANTS
  TypeOK
  MutualExclusion
  GetNeverReturnsNone
PROPERTIES
  LockIsReleased
  ImplementsAtomicSlot
