\* Two slaves, every kind of command, one fault and one change of command.
CONSTANTS
  NSlaves = 2
  Cmds <- MCCmds
  Frames = {1, 2}
  OldFrames = {2}
  MaxSlot = 3
  MaxFaults = 1
  MaxLoads = 1
SPECIFICATION Spec
INVARIANTS ReportedIsShown
PROPERTIES PlaysRounds ShowsCommand SilentIsReported MessageLetsGo
