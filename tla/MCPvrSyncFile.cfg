SPECIFICATION Spec
CONSTANTS
  k1 = k1
  k2 = k2
  m1 = m1
  x1 = x1
  Kicks = {k1, k2}
  Merges = {m1}
  Foreigns = {x1}
  Fds = {fd1, fd2, fd3}
  fd1 = fd1
  fd2 = fd2
  fd3 = fd3
  Faults = {"nomem", "submit"}
  NoFile = NoFile
  NoFd = NoFd
SYMMETRY Symmetry
CHECK_DEADLOCK FALSE
INVARIANT HoldersExact
INVARIANT FirmwareSafe
INVARIANT WaitsForQueued
INVARIANT StaleOnlyIfClosed
