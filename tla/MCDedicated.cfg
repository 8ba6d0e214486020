SPECIFICATION DedicatedSpec
CONSTANTS
  Wrong = Wrong
  NoSig = NoSig
  DefaultTtl = 9
  Ops = {"call", "call_with_ucan", "call_with_cert_chain", "open_stream_direct", "open_stream_direct_with_cert_chain", "put_direct", "get_direct"}
  MaxCalls = 2
  Adverts <- MCAdverts
  Endpoints <- MCEndpoints
  Contents <- MCContents
  Garbage <- MCGarbage
  Stations <- MCStations
  Hosts <- MCHosts
  Home = "H"
  RealmCa = "RealmCa"
  Org = "Org"
  NoStation = NoStation
  Retries = 2
  MaxAnswer = 2
  MaxNow = 2
  MaxMoves = 1
  Uses <- MCUses
  MaxFrames <- MCMaxFrames
  Window = 2
  Large = {"data"}
  Strays = 1
INVARIANTS WorksWhereResolved NoneForgotten ChunksAccounted AbortToldApart
PROPERTIES OpEnds OpsReturn
CHECK_DEADLOCK FALSE
