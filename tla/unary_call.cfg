CONSTANTS
  a = a
  b = b
  c = c
  Names = {"foo", "Foo", "bar"}
  Lower <- MCLower
  Handles = {"m", "n"}
  MaxOps = 5
  NoDeadline = NoDeadline
  Plans <- MCPlans
  Untils <- MCUntils
  Delays = {0, 1}
  Returns <- MCReturns
  MaxNexts = 6
SPECIFICATION CallSpec
INVARIANTS
  MDsAreValues
  
  MetadataArrives
  
  ResultArrives
CHECK_DEADLOCK FALSE
