SPECIFICATION Spec
CONSTANTS
  MaxLines = 3
  MaxFrames = 0
  SndHwm = 2
INVARIANT
  SentOrReported
