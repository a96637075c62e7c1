SPECIFICATION FairSpec
CONSTANTS
  FrameSizes = {1, 2}
  MaxBytes = 4
  ReadyCap = 2
  ChannelCap = 1
INVARIANTS
  TypeOK
  Transparent
  ReportsTile
  EndCoversBody
  NothingHidden
  NoInvalidState
PROPERTIES
  EndIsFinal
  KeepsPromise
  ForwardProgress
  ReporterEnds
  DataFlushed
