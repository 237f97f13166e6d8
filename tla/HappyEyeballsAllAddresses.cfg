SPECIFICATION RaceSpec
CONSTANTS
  MaxAddresses = 1
  MaxCancels = 0
INVARIANT AllAddressesTried
