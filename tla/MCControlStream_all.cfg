SPECIFICATION MCSpec
CONSTANTS
  c1 = c1  c2 = c2  i1 = i1  i2 = i2  i3 = i3  e1 = e1
  OwnCalls = {c1, c2}
  Inbound = {i1, i2, i3}
  Events = {e1}
  Unauthorized = {i1}
  Unknown = {i1, i2}
  None = None
  Uses = {"call", "serve_one_call", "publish", "run_publisher", "run_subscriber", "recv_event", "keep_advertised", "close"}
  MaxOut = 2
  MaxDrops = 1
INVARIANTS OwnAnswer CallStory BracketsClose ServeStory CutOnlyByDrop CborCanonical
PROPERTIES CallEnds ServeEnds
CHECK_DEADLOCK FALSE
