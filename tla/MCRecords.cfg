SPECIFICATION ScopedSpec
CONSTANT MaxGen = 4
INVARIANT TypeOK
INVARIANT IntentIsAccounted
INVARIANT StatusRowFollowsTheJob
INVARIANT AppliedIsRecorded
PROPERTY StaleWorkerWritesNothing
PROPERTY PacingIsKept
PROPERTY AmbiguityIsRestored
CHECK_DEADLOCK FALSE
