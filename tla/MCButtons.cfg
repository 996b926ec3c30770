SPECIFICATION Spec
CONSTANTS
  SAMPLE_CNT_MAX = 3
  PULSE_CNT_MAX = 3
  WRAPPING_CNT_WIDTH = 2
INVARIANTS
  OnePulsePerPress
  PulseMeansHeld
PROPERTIES
  PressDetected
