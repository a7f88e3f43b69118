SPECIFICATION AllSpec
CONSTANTS
    NFlows = 1
    Reviewers = {r1}
    Approvers = {a1, a2}
    Cancellers = {c1}
    Pauses <- BothGraphs
    MaxText = 2
    MaxRev = 2
    MaxFaults = 1
    LastPublication = 2
    Told = {"published"}
    PageLimit = 1
    ReminderLead = 1
    LastDate = 1
    LastRevision = 2
    MaxChanges = 3
    MaxFailures = 1
INVARIANTS NeverReplayed ApprovedWasReviewed StandingReminderStands
PROPERTIES OnlyHolderAdvances ClaimsEnd InboxCatchesUp
CHECK_DEADLOCK FALSE
