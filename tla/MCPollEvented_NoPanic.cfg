\* As MCPollEvented.cfg: the registration of the lazy register may fail.
CONSTANTS
  MaxReady = 3
  RegFails = TRUE
SPECIFICATION Spec
INVARIANTS
  NoPanic
CHECK_DEADLOCK FALSE
