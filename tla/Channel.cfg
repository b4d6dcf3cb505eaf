SPECIFICATION Spec
CONSTANTS
  Mbuf = {m1, m2, m3, m4}
  RingSize = 2
INVARIANT Ownership
