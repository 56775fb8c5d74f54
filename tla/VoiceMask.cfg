SPECIFICATION MaskSpec
CONSTANTS
  v1 = v1
  v2 = v2
  v3 = v3
  Slots = {v1, v2, v3}
  Bytes = {{v1, v2}, {v3}}
PROPERTIES
  FramePlaysWhatWasMeant
