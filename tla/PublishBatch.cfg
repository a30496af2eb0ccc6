SPECIFICATION ReconcilingSpec
CONSTANTS
  d = d  x = x
  Keys = {d}
  Packages = {d, x}
  Batches <- TwoBatches
  Selected <- SharedSelection
  WebCrashes = TRUE
  MaxFence = 2
  MaxRetries = 2
INVARIANTS BatchInv
PROPERTIES SucceededIsFinal DelegatedSettles
