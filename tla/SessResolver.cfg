SPECIFICATION Spec
CONSTANT Configs <- AsyncConfigs
INVARIANT ResolvedIsUsed
CHECK_DEADLOCK FALSE
