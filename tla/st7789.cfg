SPECIFICATION Spec
CONSTANTS
  PANEL_WIDTH = 240
  PANEL_HEIGHT = 320
  MADCTL_VALUE = 0
  FILL_COLOR = 63488
  pixel_count = 3
  delay_count = 20
  BootLoops = 16
  StartAt = {8, 9, 10, 11, 12, 13, 14, 15}
  MaxResets = 1
INVARIANTS TypeOK Rests
PROPERTIES SetUpBeforeSampling StreamInOrder StreamCompleted
