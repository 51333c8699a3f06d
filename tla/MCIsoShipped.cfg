SPECIFICATION IsoFairSpec
CONSTANTS
  Size <- ShippedSizes
  ImageSize = 16
  Movable <- MCMovable
  MaxMounts = 2
PROPERTIES
  Recovers
