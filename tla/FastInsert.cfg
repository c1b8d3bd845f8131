\* Insertions inside a pop, or a queue that is filled between two pops.
SPECIFICATION Spec
CONSTANTS
  Capacity = 4
  Priorities <- MCPriorities
  a = a
  b = b
  Items = {a, b}
  Messages <- MCMessages
  NoItem = NoItem
  Age <- MCAge
  Strict = FALSE
  Preemptive = {TRUE, FALSE}
INVARIANT Inv
PROPERTIES ImplementsAgingQueue PopReturns
