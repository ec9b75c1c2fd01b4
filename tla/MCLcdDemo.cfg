SPECIFICATION Spec
CONSTANTS
  Width = 160
  Height = 128
  FontWidth = 8
  FontHeight = 13
  FP_EXP = 12
  FP_MANT = 15
  MaxIters = 50
  FloatIters = {0, 50}
  Timeout = 3000
  PollDelay = 20
  Pressed = {0, 1, 2, 3, 8}
INVARIANTS PixelsInPlace ClampInvisible DefaultInTime MenuShown
