SPECIFICATION Spec
CONSTANTS
  Record <- Measurements
  PageSize = 1
  MAX_RETRIES = 2
  Limit <- Quiet
INVARIANT PassIsSerializable
