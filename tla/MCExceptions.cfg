CONSTANTS
  WORD = 64
  HandlerEip = 44
  Lines = {1, 7}
CONSTANT
  MainRegs <- MCMainRegs
  Vectors <- MCVectors
  ErrCodes <- MCErrCodes
  Phys <- MCPhys
  Formats <- MCFormats
  SegmentRequests <- MCSegmentRequests
SPECIFICATION ExcSpec
INVARIANT FrameTellsEvent
INVARIANT ReportTellsFault
INVARIANT PrintfText
INVARIANT SegmentsDecode
PROPERTY InterruptTransparent
PROPERTY EventsAnswered
CHECK_DEADLOCK FALSE
