SPECIFICATION Spec
CONSTANTS
  c1 = c1
  c2 = c2
  m1 = m1
  m2 = m2
  m3 = m3
  Crtcs = {c1, c2}
  Connectors = {k1, k2}
  Modes = {m1, m2, m3}
  Workers = {w1, w2}
  None = None
  Off = Off
  Devices <- Boards
SYMMETRY Symmetric
INVARIANT ScansIntoEncoder
INVARIANT StateReached
INVARIANT FlipsAccounted
INVARIANT ArmedGetsVblank
