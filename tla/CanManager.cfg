\* Two peripherals, each with a FIFO number of its own.
SPECIFICATION Spec
CONSTANTS
  NCan = 2
  Fifos = {0, 1}
  Sizes = {2}
  Ids = {1, 2, 3}
  IndexOf <- MCIndexOf
  Depth = 1
  MaxArrivals = 2
INVARIANTS Inv NothingMissed
PROPERTIES CatchesUp
