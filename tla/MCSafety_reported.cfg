CONSTANTS
  First = First
  Second = Second
  c1 = c1
  c2 = c2
  k1 = k1
  NoKey = NoKey
  Keys = {k1}
  Calls = {c1, c2}
  MaxCalls = 0
  MaxHandled = 1
  MaxCallsBeside = 1
SPECIFICATION SafetySpec
INVARIANT RepeatedAnswer
