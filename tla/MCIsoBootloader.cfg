SPECIFICATION IsoSpec
CONSTANTS
  Size <- SmallSizes
  ImageSize = 16
  Movable <- MCMovable
  MaxMounts = 2
PROPERTIES
  IsoHasBootloader
