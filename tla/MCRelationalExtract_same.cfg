SPECIFICATION Spec
CONSTANTS
  Orders = {"o1", "o2"}
  Plans <- MCPlans
  MaxIngests = 2
INVARIANT BackendsHoldTheSame
