\* The comparison of the header: a pop need not serve a highest node.
SPECIFICATION Spec
CONSTANTS
  Capacity = 4
  Priorities <- MCPriorities
  a = a
  b = b
  Items = {a, b}
  Messages <- MCMessages
  NoItem = NoItem
  Age <- MCAge
  Strict = TRUE
  Preemptive = {TRUE}
PROPERTIES PopsHighest
