SPECIFICATION LoopSpec
CONSTANTS
  Loops = {l1, l2, l3}
  Dashboard = Dashboard
  NoLoop = NoLoop
  BatchMax = 2
INVARIANT StartedLoopGoesOn
