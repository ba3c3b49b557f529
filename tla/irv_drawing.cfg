SPECIFICATION Spec
CONSTANTS
  a1 = a1
  a2 = a2
  r1 = r1
  r2 = r2
  a = a
  Instances = {a1, a2}
  DeviceOf <- MCDeviceOf
  Racks = {r1, r2}
  RackOf <- MCRackOf
  Region = {a1, a2, r1, r2}
  Through = {a1}
  Values = {1, 2}
  Frames = 2
  Between = Between
  Dim = Dim
  Rooms <- MCRooms
  Zoomed <- MCZoomed
  None = None
INVARIANTS Safety SpacesFadeAway HighlightsPulse
