SPECIFICATION TraySpec
CONSTANT MaxInputs = 3
INVARIANT RecoveryPublished
CHECK_DEADLOCK FALSE
