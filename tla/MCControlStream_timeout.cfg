SPECIFICATION MCSpec
CONSTANTS
  c1 = c1  c2 = c2  i1 = i1  i2 = i2  i3 = i3  e1 = e1
  OwnCalls = {}
  Inbound = {i3}
  Events = {}
  Unauthorized = {}
  Unknown = {}
  None = None
  Uses = {"serve_one_call"}
  MaxOut = 0
  MaxDrops = 0
INVARIANT TimeoutMeansNothingArrived
CHECK_DEADLOCK FALSE
