SPECIFICATION Spec
INVARIANTS StoresTheWordTyped
CHECK_DEADLOCK FALSE
