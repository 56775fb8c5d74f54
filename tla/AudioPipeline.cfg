SPECIFICATION LiveSpec
CONSTANTS
  SIZE = 6
  W = 24
  BlockSizes = {4}
  MaxAhead = 12
  BURST = 2
  MCUCycles = 2
  SampleCyc = 2
  MaxGen = 2
  PcmCyc = 3
  BLOCK = 2
  MaxLead = 4
INVARIANTS ChannelAligned BlockNotOverrun ResumesEmpty PcmNotAhead
PROPERTIES ReloadUndisturbed AudioKeepsFlowing PauseEnds
