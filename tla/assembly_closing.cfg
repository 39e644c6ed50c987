CONSTANTS
  Handler = {h1, h2}
  NoHandler = NoHandler
  InputSlices = 2
  MaxFaults = 1
SPECIFICATION Spec
PROPERTIES AdvanceCloses
