\* Requests are loaded: a frame that resets erase, one input, fatal errors.
CONSTANTS
  FrmIds = {9}
  MsgIds = {}
  AtfIds = {}
  ExtIds = {3}
  Emergency = {}
  Faults = TRUE
  Mains = FALSE
  Restarts = FALSE
  LoadLast = FALSE
SPECIFICATION LiveSpec
PROPERTIES RequestIsLoaded InputIsShown
