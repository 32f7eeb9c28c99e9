\* 270 packets of 4-bit times, 3-bit types and texts of up to 3 one-bit bytes, in pairs.
CONSTANTS
  BYTE = 2
  LAMPORT_TIME_SIZE = 4
  MESSAGE_TYPE_SIZE = 3
  PACKET_LENGTH_SIZE = 2
  hashCombine <- NoCollision
  Times <- EdgeTimes
  Types <- EdgeTypes
  Sources = {0, 1}
  Texts <- ShortTexts
SPECIFICATION Spec
INVARIANTS OptimizedRoundTrip SimpleRoundTrip EqualPacketsHashAlike
