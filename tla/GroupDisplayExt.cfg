\* One emergency input; atomic frames; restarts that load the last display.
CONSTANTS
  FrmIds = {}
  MsgIds = {5}
  AtfIds = {7}
  ExtIds = {3}
  Emergency = {3}
  Faults = FALSE
  Mains = TRUE
  Restarts = TRUE
  LoadLast = TRUE
SPECIFICATION Spec
CONSTRAINT CommandedOn
INVARIANTS SwitchOverrides
PROPERTIES SwitchMsgIsCurrent
