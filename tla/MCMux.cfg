SPECIFICATION Spec
CONSTANTS
  Mbuf = {m1, m2, m3, m4, m5, m6}
  RingSize = 2
  BurstSz = 2
SYMMETRY Symmetry
INVARIANTS NeverHitTheUnwrap HandlesAreOwned
