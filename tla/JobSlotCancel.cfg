CONSTANTS
  Kinds <- MCKinds
  MaxJobs = 1
SPECIFICATION Spec
INVARIANT CancelledIsDiscarded
