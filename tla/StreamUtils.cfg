SPECIFICATION Spec
CONSTANTS
  Bytes = 3
  Offsets = {1, 2}
  MaxWords = 5
PROPERTIES PacketsUnchanged PacketsComeOut
CHECK_DEADLOCK TRUE
