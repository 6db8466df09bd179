SPECIFICATION FirmwareSpec
CONSTANTS
  Chunks = 2
INVARIANT SuccessExtracts
