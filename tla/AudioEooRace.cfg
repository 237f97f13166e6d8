SPECIFICATION MCSpec
CONSTANTS
  NFrame = 2
  EooLen = 3
  InCap = 2
  OutCap = 4
  MaxOvers = 2
  MaxBlocks = 4
  Block = 2
  TapCap = 5
  CallSizes = {1, 5}
  MaxCalls = 3
  SemMax = 1
  RnnFrame = 3
  AgcFrame = 2
  AgcCap = 3
  LoudnessInterval = 2
  BweFrame = 2
  BweCap = 5
  BweFactor = 3
  LpcFrame = 2
  NbFeatures = 2
  RadeFeatures = 3
  TxOut = 2
  EooOut = 3
  TxFifoCap = 12
  ModemMax = 14
  SpeechMax = 40
  NinMax = 3
  LinkCap = 6
  LinkMax = 4
  Lufs <- MCLufs
  Nin <- MCNin
  Sync <- MCSync
  FeedSizes = {0, 1, 2, 5}
  MaxFed = 14
  MaxSteps = 3
  Slow = 4
  Fast = 2
  IntMax = 7
  MaxLate = 5
  MaxPasses = 6
  FeatureSlots = 4
  MaxFeatures = 6
INVARIANT EooAfterRecordedAudio
CHECK_DEADLOCK FALSE
