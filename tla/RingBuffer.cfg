\* The main loop and one interrupt handler, both using every operation.
SPECIFICATION FairSpec
CONSTANTS
  Capacity = 2
  Items = {a, b}
  NoItem = NoItem
  MaxLevel = 1
  Protected = TRUE
INVARIANTS TypeOK MutualExclusion MaskRestored RInv
PROPERTIES ImplementsDeque StoredItemsStay InterruptsComeBack
