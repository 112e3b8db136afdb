SPECIFICATION MediaSpec
CONSTANTS
  Bytes <- MCBytes
  FifoSize = 2
  MaxBytes = 4
  Depth = 2
  Threshold = 2
  BufSize = 3
  Frames = 3
  Keys = {1, 2}
  MaxPresses = 2
INVARIANTS MediaTypeOK RecordedAligned PlaybackInOrder LedMode LastThreeBytes
PROPERTIES AudioStops RefreshOnlyOnTick DisplaysSettle
