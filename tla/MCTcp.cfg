CONSTANTS
  SEQ = 40
  RING = 10
  MSS = 8
  SEND_SEG = 2
  INITIAL_WINDOW = 4
  DUP_ACK_THRESHOLD = 2
  OOO_SEGMENTS = 1
  SACK_BLOCKS = 1
  RETRIES = 3
  SEGMENTS_PER_FLUSH = 6
  Scenes <- AllScenes
  Size = 10
SPECIFICATION FairSpec
CHECK_DEADLOCK FALSE
INVARIANTS StreamIntact AcknowledgedIsHeld
PROPERTY Completes
