\* Two items that compare equal, six slots: the last item moves up or down.
SPECIFICATION Spec
CONSTANTS
  a = a
  b = b
  c = c
  Items <- MCItems
  Key <- MCEqualKeys
  NoItem = NoItem
  Capacity = 6
INVARIANTS TypeOK HeapOrder IInv
PROPERTIES ImplementsBag
