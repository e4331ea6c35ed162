SPECIFICATION SerialSpec
CONSTANTS
  FifoDepth = 16
  MaxMisread = 1
  Magic <- Deadbeef
  Words <- LoadWords
  MaxImage = 2
  MemWords = 3
  Greeting <- LoadingProgram
  Loaded <- ProgramLoaded
  Sad <- Frown
  TooLarge <- ProgramTooLarge
  Downloads = 2
  MaxLen = 4
  Times = {0, 258}
  MaxTests = 3
  Chars = {65, 66}
  LineLen = 3
  MaxCRs = 3
  MaxAhead = 2
INVARIANTS
  NothingLost
  RunsWhatWasSent
  InStep
  LineReturned
PROPERTIES
  DownloadsRun
  TestsEnd
