SPECIFICATION FairSpec
CONSTANTS
  Modes <- PlainModes
PROPERTY GivenComesBack
