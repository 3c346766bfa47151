CONSTANTS
  NumTimers = 2
  Users = {u1, u2, u3}
  None = None
SPECIFICATION TimerFairSpec
INVARIANT QuietAfterDisable
INVARIANT OneChain
PROPERTY TimersServed
