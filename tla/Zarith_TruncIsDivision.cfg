CONSTANTS
  W = 6
  IntMax = 5
  Precision = 3
  LimbBytes = 2
  Numbers <- MCNumbers
  Counts <- MCCounts
  Exponents <- MCExponents
  Floats <- MCFloats
  Formats <- MCFormats
  Texts <- MCTexts
SPECIFICATION Spec
INVARIANT TruncIsDivision
