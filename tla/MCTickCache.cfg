CONSTANTS
  Flows = {f1, f2}
  MaxFrame = 1
  Missing = Missing
  NoRequest = NoRequest
  Asked = Asked
  InOrderStore = TRUE
SPECIFICATION FairSpec
INVARIANTS TypeOK TickListSound WaitersServed
PROPERTY GetAnswered
