SPECIFICATION Spec
CONSTANT Lines <- MCLines
INVARIANT UsageIsAccepted
CHECK_DEADLOCK FALSE
