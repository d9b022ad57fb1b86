SPECIFICATION Spec
CONSTANTS
  Runs = {"r1", "r2", "r3"}
  Workers = {"w1", "w2"}
  Specs <- SomeSpecs
  JobTimeout = 1
  MaxFaults = 1
INVARIANTS NoLiveRunSwept
PROPERTIES VerdictsAreFinal JobsAreTaken
CHECK_DEADLOCK FALSE
