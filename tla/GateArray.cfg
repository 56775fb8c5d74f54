SPECIFICATION Spec
CONSTANTS
  Voices = {v1, v2}
  Turns = 2
INVARIANTS
  LineFollowsAssertion
  AcknowledgesWhatAsserted
PROPERTIES
  SoundAnswered
