\* Three levels in two steps each, one sensor that reads darkness or light.
CONSTANTS
  Table <- Rising
  Luminance <- Lum3
  Steps = 2
  Signs = {1}
  Readings = {0, 2}
  Twilights = {2}
SPECIFICATION DimSpec
INVARIANTS NeverWedged BrightnessIsLevel
PROPERTIES ComesUp NoFlash ReachesTarget
