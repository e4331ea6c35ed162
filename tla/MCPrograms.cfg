SPECIFICATION ProgramsSpec
CONSTANTS
  BufferSize = 13
  Bits <- Widths
  Ints <- SomeInts
  Strings <- SomeStrings
  Digits = {1, 3}
  MaxLens = {0, 3}
  MaxField = 13
  MaxText = 1
  Keys <- RampKeys
  AppendixC <- Published
  Threshold = 2
  MaxN = 8
  Elements = {1, 2, 3}
  LogBase = 2
  IntBits = 4
  MaxKeys = 4
  KeyValues = {0, 1, 4, 5, 6, 11}
  Word = 6
INVARIANTS
  Truncates
  AsTheStandardSays
  MimicsAppendixC
  SortsInPlace
  PassesSort
  DividesRight
CHECK_DEADLOCK FALSE
