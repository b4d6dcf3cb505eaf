SPECIFICATION Spec
CONSTANTS
  Mbuf = {m1, m2, m3}
  RingSize = 2
INVARIANT PacketsHandedOver
