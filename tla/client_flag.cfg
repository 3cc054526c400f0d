SPECIFICATION FairSpec
CONSTANTS
  MaxLines = 1
  MaxFrames = 1
  SndHwm = 1
PROPERTY
  FlagEndsLoops
