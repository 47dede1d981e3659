CONSTANTS
  SEQ = 24
  RING = 4
  MSS = 3
  SEND_SEG = 1
  INITIAL_WINDOW = 4
  DUP_ACK_THRESHOLD = 2
  OOO_SEGMENTS = 1
  SACK_BLOCKS = 1
  RETRIES = 3
  SEGMENTS_PER_FLUSH = 6
  Scenes <- Full
  Size = 4
SPECIFICATION Spec
CHECK_DEADLOCK FALSE
INVARIANT LossRepaired
