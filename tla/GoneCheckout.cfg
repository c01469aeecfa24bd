\* A recorded directory is deleted before the branch is claimed again.
CONSTANTS
  Tasks = {t1, t2}
  Branches = {b1}
  Elsewhere = Elsewhere
  Unregistered = Unregistered
  MaxClaims = 3
  MaxCheckouts = 2
SPECIFICATION Spec
CHECK_DEADLOCK FALSE
INVARIANT
  GoneCheckoutIsReplaced
