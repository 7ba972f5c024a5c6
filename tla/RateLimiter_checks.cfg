\* Two requests at a time, two policies, three seconds.
SPECIFICATION Spec
CONSTANTS
  t1 = t1
  t2 = t2
  i1 = i1
  i2 = i2
  Nobody = Nobody
  None = None
  Thread = {t1, t2}
  Ip = {i1}
  Policies <- TwoPolicies
  Second = 2
  Word = 64
  MaxTime = 6
SYMMETRY Symmetry
INVARIANTS
  TypeOK
  BurstBound
PROPERTIES
  BucketsFollowPolicy
  DenialJustified
  ActsAsMeter
