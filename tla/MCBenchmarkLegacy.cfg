SPECIFICATION Spec
CONSTANT CommandLines <- MCLegacyLines
PROPERTY DocumentedInvocation
CHECK_DEADLOCK FALSE
