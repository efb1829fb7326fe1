SPECIFICATION CalmFairSpec
CONSTANTS
  l1 = l1  l2 = l2
  j1 = j1  j2 = j2
  Laptops <- MCLaptops
  Jobs <- MCJobs
  None = None
  HelpAfter = 1
  CodeTries = 2
INVARIANTS TypeOK PromptAttended StatusTrue
PROPERTIES StopWorks DroppedRetried NetworkRetried ImplementsSession
CHECK_DEADLOCK FALSE
