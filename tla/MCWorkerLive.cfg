CONSTANTS
  Workers = {w1, w2}
  MaxTicks = 2
  NoTick = NoTick
  AllowResume = FALSE
  AllowExit = FALSE
SPECIFICATION FairSpec
INVARIANT TickInHand
PROPERTIES UndeliveredKept TickStored ClosedInTheEnd
