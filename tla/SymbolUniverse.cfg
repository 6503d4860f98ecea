\* IpoUniverseKept is violated under these constants.
SPECIFICATION FairUniverseSpec
CONSTANTS
  Symbol = {a, b, c}
  MinPercent = 50
PROPERTIES NoMassDeactivation FnoFollows
