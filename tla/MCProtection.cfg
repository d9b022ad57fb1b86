SPECIFICATION Spec
CONSTANTS
  Entries = {"first"}
  Qty = 2
  MaxUpsets = 2
  MaxOverdue = 1
  MaxRestarts = 1
INVARIANT NakedIsKnown
PROPERTIES StopIsHonoured NakedIsPaged PagesAreTrue
