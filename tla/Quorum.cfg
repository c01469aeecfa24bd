\* Four operators decide by quorum, and one who voted uses the approval.
CONSTANTS
  Agents = {a1, a2, a3, a4}
  Nobody = Nobody
  Inherit = Inherit
  Defaults <- QuorumOnly
  Overrides <- None
  MaxInstances = 1
SPECIFICATION Spec
CHECK_DEADLOCK FALSE
SYMMETRY Symmetry
INVARIANT
  ShortApprovalIsOpen
