\* Two runs, two approvals, two fetches in flight, three presses of its buttons.
SPECIFICATION Spec
CONSTANTS
  r1 = r1
  r2 = r2
  a1 = a1
  a2 = a2
  None = None
  Runs = {r1, r2}
  Approvals = {a1, a2}
  ApprovalOf <- TwoApprovals
  ListLimit = 1
  MaxPresses = 3
  Slots = {1, 2}
INVARIANTS
  DetailFollowsSelection
  NoticesFitPanel
  WaitsForFetch
CHECK_DEADLOCK FALSE
