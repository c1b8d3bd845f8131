\* A transfer may time out or fail.
SPECIFICATION Spec
CONSTANTS
  PageSize = 3
  DevicePage = 6
  MemSize = 12
  Bytes = {0, 1}
  Setups <- MCFaults
  VersionSize = 1
  Versions <- MCVersions
  DefaultByte = 1
PROPERTIES TrueMeansStored
