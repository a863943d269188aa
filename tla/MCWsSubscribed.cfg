\* A login and a token refresh.
CONSTANT MaxRuns = 2
SPECIFICATION Spec
INVARIANT OpenIsSubscribed
CHECK_DEADLOCK FALSE
