SPECIFICATION Spec
CONSTANTS
  Modes <- MCModes
  Garbage = {0, 7}
PROPERTY
  DirectoriesSearched
