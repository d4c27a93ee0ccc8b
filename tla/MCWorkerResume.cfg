CONSTANTS
  Workers = {w1}
  MaxTicks = 1
  NoTick = NoTick
  AllowResume = TRUE
  AllowExit = FALSE
SPECIFICATION Spec
INVARIANT PlayingKept
