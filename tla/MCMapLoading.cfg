SPECIFICATION Spec
CONSTANTS
  Width = 2
  Height = 3
  TmxLayers <- Layers
  TmxObjects <- Objects
  MaxLayers = 2
  MaxObjects = 1
  MapsetGid = 1
  ObjectsetGid = 3
  XCount = 2
  YCount = 1
  NULL = NULL
INVARIANTS
  ObstaclesMatchMap
  TilesDrawnInPlace
  LightsMatchMap
CHECK_DEADLOCK FALSE
