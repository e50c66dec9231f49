CONSTANTS
    N = 3
    SuspectAfter = 1
    OfflineAfter = 1
    SuspectPollPeriod = 0
    OutcomeWindow = 0
    MaxInFlight = 2
    SelectMidFlight = FALSE
SPECIFICATION Spec
INVARIANTS TypeOK FaultIffAllSilent ReadAtIssueRate PassWellFormed PassCoversEnrolled
PROPERTIES ClearsOnEvidence EnrolsAtRateInUse
