CONSTANTS
  N = 2
  KInvalid = 99
  NoVal = 0
  Keys = {10, 20, 30}
  Vals = {1, 2}
  InitKeys <- MCInitKeys
  InitVals <- MCInitVals
INIT Init
NEXT Next
INVARIANT SearchLinearizable
