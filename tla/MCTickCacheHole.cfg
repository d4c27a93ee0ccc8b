CONSTANTS
  Flows = {f1}
  MaxFrame = 2
  Missing = Missing
  NoRequest = NoRequest
  Asked = Asked
  InOrderStore = FALSE
SPECIFICATION Spec
INVARIANT TickListSound
