SPECIFICATION Spec
CONSTANT MaxLine = 4
INVARIANT SleepFailureIsReported
