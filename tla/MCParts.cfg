SPECIFICATION PartsSpec
CONSTANTS
  Scripts <- MCScripts
  Header = 2
  ReadChunk = 5
  Absent = Absent
  Never = Never
  Malformed = Malformed
  Wrong = Wrong
  NoSig = NoSig
  Keys = {"k1", "k2"}
  Paths = {"id.key", "id.old"}
  Tmp = "id.tmp"
  Ttl = 9
  Interval = 3
  PutMax = 2
  Margin = 1
  Tasks = {"t1", "t2"}
  Handler = Handler
INVARIANTS SaveIsAtomic KeptAdvertised LockKept RoundTrip SignaturesBind
PROPERTIES ImplementsFifo FramesArrive MethodsReturn
CHECK_DEADLOCK FALSE
