SPECIFICATION FairLoadSpec
CONSTANTS
  ProfileDataTypes <- MCTypes
  Keys = {k1, k2}
  MaxTries = 2
  MaxChanges = 3
PROPERTIES LoadedIsComplete ResendIsNotOlder LoadEnds
