CONSTANTS
  Workers = {w1, w2}
  MaxTicks = 2
  NoTick = NoTick
  AllowResume = FALSE
  AllowExit = TRUE
SPECIFICATION Spec
SYMMETRY Symmetry
INVARIANTS TypeOK StatusTruthful StoredOrQueued PlayingKept
