SPECIFICATION Spec
CONSTANTS
  Image = {"reader", "ascii"}
  Events <- KeyEvents
  SCANCODE_TO_ASCII <- Table
  FirstShown = {0, 128}
  Hold = 2
  Gap = 7
INVARIANTS TypeOK InStep
PROPERTIES ShownAsTyped ShownInTheEnd
