SPECIFICATION Spec
INVARIANT ScriptNetworkJoins
CHECK_DEADLOCK FALSE
