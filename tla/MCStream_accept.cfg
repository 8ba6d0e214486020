SPECIFICATION ProviderSpec
CONSTANTS
  Uses <- Roles
  MaxFrames <- Opening
  Window = 1
  Large = {}
  Strays = 0
CHECK_DEADLOCK FALSE
PROPERTY AcceptBounded
