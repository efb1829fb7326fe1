SPECIFICATION Spec
CONSTANTS
  l1 = l1  l2 = l2
  j1 = j1  j2 = j2
  Laptops <- MCLaptops
  Jobs <- MCJobs
  None = None
  HelpAfter = 1
  CodeTries = 2
INVARIANTS OneActive
CHECK_DEADLOCK FALSE
