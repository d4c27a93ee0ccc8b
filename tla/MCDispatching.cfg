CONSTANTS
  Calls = {c1, c2, c3}
  Servers = {s1}
  Limit = 1
  MaxRestarts = 1
  NoServer = NoServer
  Absent = Absent
SPECIFICATION FairSpec
INVARIANTS TypeOK SeatsAccounted AdmittedUnlessCrossed
PROPERTIES DispatchEnds SeatSettles
CHECK_DEADLOCK FALSE
