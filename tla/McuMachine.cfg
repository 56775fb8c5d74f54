SPECIFICATION Spec
CONSTANTS
  UART_BUFFER_SIZE = 4
  UART_DELAY = 32
  CONVERSION_TIME = 32
  CYCLES = 16
  WaveRom <- MCWave
  Rom1 <- MCRom1
  Rom2 <- MCRom2
  Images <- MCImages
  Inputs <- MCInputs
  Turns <- MCTurns
  Bytes <- MCBytes
  Keys <- MCKeys
INVARIANTS
  ResultsCorrect
  NoReentry
PROPERTIES
  InterruptsTransparent
  Finishes
