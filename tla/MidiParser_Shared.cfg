SPECIFICATION Spec
CONSTANTS
  Bodies = {1, 3}
  UsbBodies = {1, 3}
  LenMod = 4
  SerialMsgs = 2
  UsbMsgs = 2
  Realtimes = 1
  None = None
INVARIANT DataInBounds
CHECK_DEADLOCK FALSE
