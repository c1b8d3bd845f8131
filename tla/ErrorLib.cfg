\* Counters cleared with every init: the library is the error monitor.
SPECIFICATION Spec
CONSTANTS
  Groups = 3
  Instances <- MCInstances
  Threshold <- MCThreshold
  Calls <- MCCalls
  MaxInt = 3
  CallerClears = TRUE
  NoError = NoError
INVARIANTS TypeOK
PROPERTIES ImplementsMonitor
