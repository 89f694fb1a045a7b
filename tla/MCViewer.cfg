CONSTANTS
  Files = {f1, f2, big}
  TooLarge = {big}
  Panels = {fp}
  Modes = {visual, tree}
  Visual = visual
  MaxLoads = 3
  None = None
  f1 = f1
  f2 = f2
  big = big
  fp = fp
  visual = visual
  tree = tree
SPECIFICATION Spec
INVARIANTS
  ResultsFollowState
  LoadingIsTrue
  WaitingIsAnswered
PROPERTIES
  LoadsEnd
