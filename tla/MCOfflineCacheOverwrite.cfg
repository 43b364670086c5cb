CONSTANTS
  s1 = s1
  s2 = s2
  None = None
  Torn = Torn
  r1 = r1
  r2 = r2
  Threads = {r1, r2}
  Sources = {s1, s2}
  Prefix <- MCPrefix
  Plans <- MCPlans
  MaxRuns = 2
  MaxCalls = 3
SPECIFICATION Spec
INVARIANT OverwriteCompiles
