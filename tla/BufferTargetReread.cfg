CONSTANTS
  Size = 6
  Lengths <- MCLengths
  ReadSizes <- MCReadSizes
  SendBound = 5
SPECIFICATION Spec
PROPERTY NoReread
