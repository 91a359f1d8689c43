SPECIFICATION LiveSpec
INVARIANTS CutReachesWrite NothingOutlives EndIsTrue
PROPERTIES ShutdownEnds FlowsOrEnds
CHECK_DEADLOCK FALSE
