CONSTANTS
  Handler = {h1, h2}
  NoHandler = NoHandler
  InputSlices = 2
  MaxFaults = 2
SPECIFICATION Spec
INVARIANTS TypeOK SliceOnce HistoryMonotone OneLine RestartBeforeDispatch
PROPERTIES ReceiptCompletes
