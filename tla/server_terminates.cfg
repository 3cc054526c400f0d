SPECIFICATION Spec
CONSTANTS
  m1 = m1
  Message = {m1}
  Empty = Empty
  MaxFrames = 1
  PullHwm = 1
INVARIANT
  NeverTerminated
