SPECIFICATION Spec
CONSTANTS
  Requests <- MCRequests
  Categories = {"health", "financial", "personal"}
  CapIds = {1, 2, 3}
  None = None
INVARIANT ShadowNeedsCapability
