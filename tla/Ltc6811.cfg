\* Chains of two, of one for the comm group.
\* A conversion command ends its behaviour.
SPECIFICATION Spec
CONSTANTS
  Setups <- MCSetups
  Patterns <- MCPatterns
  Noise <- MCNoise
INVARIANTS TypeOK ConvertsAsAsked NoiseNoticed
PROPERTIES ImplementsBank
CHECK_DEADLOCK FALSE
