\* No external inputs; everything else happens.
CONSTANTS
  FrmIds = {9}
  MsgIds = {5}
  AtfIds = {}
  ExtIds = {}
  Emergency = {}
  Faults = TRUE
  Mains = FALSE
  Restarts = FALSE
  LoadLast = FALSE
SPECIFICATION Spec
INVARIANTS FatalShowsBlank LastRequestKept NeverThrows
PROPERTY KeepsRound
