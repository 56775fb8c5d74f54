SPECIFICATION Spec
CONSTANTS
  N = 2
  Wiring <- MCWiring
  Enter = 2
  Keys = {"Data", "Enter", "Mute"}
  MidiEvents = {"Mute"}
  DEBOUNCE_TIME = 1
  Timeouts <- MCTimeouts
INVARIANTS TriggerFitsGesture AnsweredInTime NothingLost
PROPERTIES RotationSilences
