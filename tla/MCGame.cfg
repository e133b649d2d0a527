SPECIFICATION Spec
CONSTANTS
  TileSize = 1
  Threshold = 0
  MaxPos = 4
  LampPos = 4
  LampRadius = 2
  TorchLength = 3
  ScreenWidth = 4
INVARIANTS
  DrawnAsIntended
  DrawsFromLiveMemory
  LitUnlessShadowed
  ObjectsOwned
  FacesTheMouse
CHECK_DEADLOCK FALSE
