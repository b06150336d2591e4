SPECIFICATION Spec
CONSTANTS
  pdu = pdu
  frame = frame
  Buffers = {pdu, frame}
  Strings <- MCStrings
  Words <- MCWords
  LongWords <- MCLongWords
  VECTOR_CAPACITY = 2
  UInt32Mod = 64
  Undef = Undef
  Written = {pdu}
  MaxSize <- MCMaxSize
INVARIANTS TypeOK Ordered InBounds GrowsWhenAsked
PROPERTY FirstInFirstOut
