SPECIFICATION Spec
CONSTANTS
  PANEL_WIDTH = 240
  PANEL_HEIGHT = 240
  MADCTL_VALUE = 0
  FILL_COLOR = 63488
  pixel_count = 3
  delay_count = 20
  BootLoops = 16
  StartAt = {0, 1, 2, 3, 4, 5, 6, 7}
  MaxResets = 0
PROPERTY StreamInOrder
