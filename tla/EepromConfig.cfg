\* Transfers succeed; power may be lost at any time.
SPECIFICATION Spec
CONSTANTS
  PageSize = 3
  DevicePage = 6
  MemSize = 12
  Bytes = {0, 1}
  Setups <- MCSetups
  VersionSize = 1
  Versions <- MCVersions
  DefaultByte = 1
INVARIANT Inv
PROPERTIES ImplementsConfigStore CallsReturn
