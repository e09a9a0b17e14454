SPECIFICATION MCSpec
CONSTANTS
    finalize = finalize
    morning = morning
    collect = collect
    exit = exit
    Updates <- MCUpdates
    Jobs <- MCJobs
    Files <- MCFiles
    FileUpdates <- MCFiles
    Command <- MCCommand
    MaxRestarts = 1
    MaxGatewayRestarts = 1
INVARIANTS TradesAtMostOnce BusyNeverRuns AcceptedIsQueued SameBodyAgain AttachmentNotLost CancelReachesChat ArrivesInOrder
PROPERTIES CancelledStaysDone EveryRequestAnswered EveryRowSettles ReportSettles
CHECK_DEADLOCK FALSE
