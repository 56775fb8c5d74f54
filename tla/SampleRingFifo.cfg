SPECIFICATION KeepUpSpec
CONSTANTS
  SIZE = 6
  W = 18
  BlockSizes = {2, 4}
  MaxAhead = 8
PROPERTY QueueSpec
