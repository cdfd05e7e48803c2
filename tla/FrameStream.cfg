\* Three frames, two faults, a ring with no byte to spare.
SPECIFICATION LiveSpec
CONSTANTS
  RING = 7
  CHUNK = 3
  FLEN <- Table
  SEQ = 2
  Frames <- Sample
  MaxFrames = 3
  MaxFaults = 2
INVARIANTS TypeOK FramesExact ReadSafe TornOnce
PROPERTIES Delivered
CHECK_DEADLOCK FALSE
