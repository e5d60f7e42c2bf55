SPECIFICATION Spec
CONSTANTS
  LimbBits = 4
  ByteBits = 2
  Probe = {0, 1, 7, 8, 15}
  MaxLimbs = 4
  Bases = {2, 3, 4, 5, 6, 7, 8}
  MaxDigits = 6
PROPERTY ArithmeticExact
PROPERTY DigitsExact
