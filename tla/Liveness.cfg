\* What must happen in the end, under fair sweeps, webhooks and reconciliations.
CONSTANTS
    r1 = r1
    e1 = e1
    e2 = e2
    p1 = p1
    NoPhone = NoPhone
SPECIFICATION Spec
CHECK_DEADLOCK FALSE
PROPERTIES DepositsSettle NobodyBlocksTheLine EarnedRewardsArrive
