\* Two tasks, two branches, two claims, two checkouts, with crashes and drift.
CONSTANTS
  Tasks = {t1, t2}
  Branches = {b1, b2}
  Elsewhere = Elsewhere
  Unregistered = Unregistered
  MaxClaims = 2
  MaxCheckouts = 2
SPECIFICATION Spec
CHECK_DEADLOCK FALSE
INVARIANT
  TypeOK
PROPERTIES
  AdoptionIsVerified
  ReservedIsKept
  HandoffPassesCheckout
  WorkIsKept
  ClosedMeansGone
  DriftIsReconciled
