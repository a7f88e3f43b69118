SPECIFICATION Spec
CONSTANTS
    NFlows = 1
    Reviewers = {}
    Approvers = {a1}
    Cancellers = {}
    Pauses <- DeployedGraph
    MaxText = 1
    MaxRev = 1
    MaxFaults = 0
INVARIANTS FlawlessReachesApproval
CHECK_DEADLOCK FALSE
