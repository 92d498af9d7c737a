SPECIFICATION Spec
CONSTANTS
  NBUF = 1
  Modulos = {2}
  MAX_PM_BUFFERS = 2
  MaxCycles = 6
PROPERTIES
  SeenStopIsPublished
