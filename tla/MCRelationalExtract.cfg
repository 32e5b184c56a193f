SPECIFICATION Spec
CONSTANTS
  Orders = {"o1", "o2"}
  Plans <- MCPlans
  MaxIngests = 3
INVARIANTS
  TablesFollowTheDocument
  LendersAreParties
  SummariesAgree
PROPERTY OnlyAnotherOrderRefuses
