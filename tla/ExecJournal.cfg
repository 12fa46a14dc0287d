SPECIFICATION Spec
CONSTANTS
  Byte = {0, 1, 2}
  ParagraphBytes = 1
  OffsetWrap = 3
  A20Wrap = 4
  AddressLimit = 5
  Capacity = 3
  RecordBytes = 2
  Segments = {1, 3}
  Sources <- ShortSources
  FirstMemory <- Blank
INVARIANTS TypeOK Recoverable AbortRestores SpanAtomic SpanExact
CHECK_DEADLOCK FALSE
