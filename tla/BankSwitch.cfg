SPECIFICATION LiveSpec
CONSTANTS
  Channels = {c1, c2}
  Lsbs <- MCLsbs
  Forwarded <- MCForwarded
  MaxBank = 99
  Debounce = 2
  RomOf <- MCRomOf
  NoRom = NoRom
  None = 255
INVARIANTS WavesMatchPatches
PROPERTIES DecidedOnLatest ForgottenOnlyInSwitch RequestServed
