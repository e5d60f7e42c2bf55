SPECIFICATION Spec
CONSTANTS
  LimbBits = 2
  ByteBits = 1
  MaxSize = 2
  MaxSpare = 1
  Shifts = {0, 1, 2, 3, 5}
  Exponents = {0, 1, 2, 3}
PROPERTY CallsExact
