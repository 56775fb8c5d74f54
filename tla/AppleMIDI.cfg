SPECIFICATION LiveSpec
CONSTANTS
  a1 = a1
  a2 = a2
  b1 = b1
  Peers = {a1, a2, b1}
  HostOf <- MCHostOf
  Seqs = {1, 2}
  ClockWrap = 5
  StartTimes = {2}
  InvitationTimeout = 1
  SyncTimeout = 2
  FeedbackPeriod = 1
  Huge = 30
  Error = Error
  None = None
INVARIANTS HalvesMatch AcksOnlyReceived
PROPERTIES StrangersIgnored TimesOutWhenSilentOrWrapped InvitationEnds SilentGivenUp
