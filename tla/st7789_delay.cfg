SPECIFICATION Spec
CONSTANTS
  PANEL_WIDTH = 240
  PANEL_HEIGHT = 240
  MADCTL_VALUE = 0
  FILL_COLOR = 63488
  pixel_count = 57600
  delay_count = 2000000
  BootLoops = 16
  StartAt = {8, 9, 10, 11, 12, 13, 14, 15}
  MaxResets = 0
INVARIANT Rests
