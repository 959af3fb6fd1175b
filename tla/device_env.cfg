SYMMETRY Symmetry
CONSTANTS
  Rows = {0, 1}
  Streams = {a, b}
  Depth = 3
  EpochMax = 2
  Junk = Junk
  MaxGen = 3
SPECIFICATION EnvSpec
INVARIANTS AnswersAreRight ResidentKVComplete
