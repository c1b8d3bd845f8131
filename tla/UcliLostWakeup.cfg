\* As UcliEditor: reception is not always armed again.
SPECIFICATION Spec
CONSTANTS
  x = x
  f = f
  g = g
  Functions = {f, g}
  NoFunction = NoFunction
  Junk = Junk
  BucketsN = 2
  BucketsSize = 2
  Hash <- MCHash
  Space = space
  Printable = {x, space}
  Enter = {lf}
  Backspace = bs
  Other = {ctrlc}
  Nothing = Nothing
  Names <- MCNames
  Offers <- MCOffers
  BufferLen = 4
  Preemptive = {TRUE}
  MaxReinits = 0
PROPERTIES KeepsListening
