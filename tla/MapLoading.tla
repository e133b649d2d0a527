----------------------------- MODULE MapLoading -----------------------------
(***************************************************************************)
(* How a TMX map becomes a level: MapParser::ParseMap reads the layers and *)
(* object groups one by one into MapLayers, lights and a TileTemplate, and *)
(* MapLoader::LoadMap turns the template, tile by tile, into shadow        *)
(* casters and static bodies.  TMX has its origin at the top left, the     *)
(* game at the bottom left; tiles are drawn and cast shadows in pixels,    *)
(* bodies are in metres; the template is a vector indexed y * _w + x.      *)
(***************************************************************************)
EXTENDS Integers, Sequences, FiniteSets

CONSTANTS
  Width, Height,   \* of the map, in tiles
  TmxLayers,       \* the layers a map may have: [name, tiles]
  TmxObjects,      \* the objects a map may have, each with its group's name
  MaxLayers,       \* bound: layers of one map
  MaxObjects,      \* bound: objects of one map
  MapsetGid,       \* first gid of the tileset "mapset" ...
  ObjectsetGid,    \* ... and of "objectset", which comes behind it
  XCount, YCount,  \* tiles across and down the mapset's image
  NULL

MAP_TILE_SIZE    == 64
B2METER_PER_TILE == 2
B2_PTM           == MAP_TILE_SIZE \div B2METER_PER_TILE

(* The tilesets' and the map's own tile size: 64 in every map of res/.     *)
TileSize == 64

ID_WALL == 5
ID_VENT == 6

Cells == (0 .. Width - 1) \X (0 .. Height - 1)

ASSUME MapAssumption ==
  /\ Width \in Nat \ {0} /\ Height \in Nat \ {0}
  /\ XCount \in Nat \ {0} /\ YCount \in Nat \ {0}
  /\ MaxLayers \in Nat /\ MaxObjects \in Nat
  /\ MapsetGid \in Nat \ {0} /\ ObjectsetGid = MapsetGid + XCount * YCount
  /\ \A layer \in TmxLayers : DOMAIN layer.tiles = Cells
  /\ \A object \in TmxObjects : object.y \in Int

VARIABLES
  layers,        \* the file: its layers                                (input)
  objects,       \* the file: its objects                               (input)
  pc,            \* looking for tilesets, parsing layers, objects; loading
                 \* tiles; done, or thrown
  n,             \* index of the layer, object or tile that is next
  tileTemplate,  \* ParseMap: tileTemplate
  map,           \* Map: _bgLayer, _fgLayer and _tileTemplate
  lightSources,  \* ShadowLayer: _lightSources
  shadowCasters, \* ShadowLayer: _shadowCasters, each its rectangle
  globalBodies   \* Map: _globalBodies, each its box and category

vars == <<layers, objects, pc, n, tileTemplate, map, lightSources, shadowCasters, globalBodies>>

Init ==
  /\ \E k \in 0 .. MaxLayers : layers \in [1 .. k -> TmxLayers]
  /\ \E k \in 0 .. MaxObjects : objects \in [1 .. k -> TmxObjects]
  /\ pc = "tilesets"
  /\ n = 1
  /\ tileTemplate = [k \in 0 .. Width * Height - 1 |-> {}]
  /\ map = [bgLayer |-> NULL, fgLayer |-> NULL, tileTemplate |-> <<>>]
  /\ lightSources = <<>>
  /\ shadowCasters = <<>>
  /\ globalBodies = <<>>

-----------------------------------------------------------------------------
(* Coordinates.                                                            *)

(* The id of a tile in the tileset it is from (TmxParser).                 *)
TileId(gid) == gid - (IF gid >= ObjectsetGid THEN ObjectsetGid ELSE MapsetGid)

FlipY(mapY) == Height - mapY - 1

(* Mutant: the same off by one as for tiles.                               *)
FlipPixelYAsTile(mapY) == Height * TileSize - mapY - 1

FlipPixelY(mapY) == Height * TileSize - mapY

Index(x, y) == y * Width + x

(* Where a tile is in the mapset's image, counted in tiles.                *)
GetTextureClip(gid) ==
  LET id == gid - MapsetGid IN <<id % XCount, YCount - id \div YCount>>

(* Mutant: the row is not flipped.                                         *)
GetWorldClipFromTop(x, y) == <<x * TileSize, y * TileSize>>

(* The bottom left corner of a tile in the game; all are squares.          *)
GetWorldClip(x, y) == <<x * TileSize, FlipY(y) * TileSize>>

-----------------------------------------------------------------------------
(* MapParser's constructor: a file that cannot be parsed, or lacks one of  *)
(* the two tilesets, ends the program; found is what the file has.         *)
FindTilesets ==
  /\ pc = "tilesets"
  /\ \E parsed \in BOOLEAN, found \in SUBSET {"mapset", "objectset"} :
       pc' = IF parsed /\ found = {"mapset", "objectset"} THEN "layers" ELSE "thrown"
  /\ UNCHANGED <<layers, objects, n, tileTemplate, map, lightSources, shadowCasters,
                 globalBodies>>

-----------------------------------------------------------------------------
(* ParseMap: the layers.                                                   *)

(* The order in which ParseDrawableLayer and LoadMap visit the tiles.      *)
Visited(k) == <<k \div Height, k % Height>>

(* MapLayer::AddTile: the quad of a tile, by its corner and its place in   *)
(* the image.                                                              *)
AddTile(cell, gid) == [world |-> GetWorldClip(cell[1], cell[2]), tex |-> GetTextureClip(gid)]

(* AddTile for every tile that is set; CreateVBO copies them as they are.  *)
ParseDrawableLayer(layer) ==
  LET Quads[k \in 0 .. Width * Height] ==  \* of the first k tiles
        IF k = 0 THEN <<>>
        ELSE LET cell == Visited(k - 1)
                 gid  == layer.tiles[cell]
             IN  IF gid = 0 THEN Quads[k - 1] ELSE Append(Quads[k - 1], AddTile(cell, gid))
  IN  Quads[Width * Height]

(* The flags a tile of the walls layer adds.                               *)
WallFlags(gid) ==
  CASE gid = 0               -> {}
    [] TileId(gid) = ID_WALL -> {"TILE_SHADOW", "TILE_WALL"}
    [] TileId(gid) = ID_VENT -> {"TILE_VENT"}
    [] OTHER                 -> {}

(* Mutant: the row is not flipped.                                         *)
ParseWallLayerUnflipped(layer, tt) ==
  [k \in DOMAIN tt |->
     tt[k] \cup UNION {WallFlags(layer.tiles[cell]) :
                         cell \in {c \in Cells : Index(c[1], c[2]) = k}}]

ParseWallLayer(layer, tt) ==
  [k \in DOMAIN tt |->
     tt[k] \cup UNION {WallFlags(layer.tiles[cell]) :
                         cell \in {c \in Cells : Index(c[1], FlipY(c[2])) = k}}]

IsNext(name) == pc = "layers" /\ n <= Len(layers) /\ layers[n].name = name

ParseBackground ==
  /\ IsNext("background")
  /\ map' = [map EXCEPT !.bgLayer = ParseDrawableLayer(layers[n])]
  /\ n' = n + 1
  /\ UNCHANGED <<layers, objects, pc, tileTemplate, lightSources, shadowCasters, globalBodies>>

ParseForeground ==
  /\ IsNext("foreground")
  /\ map' = [map EXCEPT !.fgLayer = ParseDrawableLayer(layers[n])]
  /\ n' = n + 1
  /\ UNCHANGED <<layers, objects, pc, tileTemplate, lightSources, shadowCasters, globalBodies>>

ParseWalls ==
  /\ IsNext("walls")
  /\ tileTemplate' = ParseWallLayer(layers[n], tileTemplate)
  /\ n' = n + 1
  /\ UNCHANGED <<layers, objects, pc, map, lightSources, shadowCasters, globalBodies>>

(* A layer of another name is logged and left out.                         *)
SkipLayer ==
  /\ pc = "layers"
  /\ n <= Len(layers)
  /\ layers[n].name \notin {"background", "foreground", "walls"}
  /\ n' = n + 1
  /\ UNCHANGED <<layers, objects, pc, tileTemplate, map, lightSources, shadowCasters,
                 globalBodies>>

EndLayers ==
  /\ pc = "layers"
  /\ n > Len(layers)
  /\ pc' = "objects"
  /\ n' = 1
  /\ UNCHANGED <<layers, objects, tileTemplate, map, lightSources, shadowCasters, globalBodies>>

-----------------------------------------------------------------------------
(* ParseMap: the objects of the groups called "lights".                    *)

(* Not an ellipse, or not a circle: the object is left out.                *)
IsLight(object) ==
  object.group = "lights" /\ object.ellipse /\ object.rx = object.ry

(* Without all of r, g, b and a the colour is a default.                   *)
LightColor(object) == IF object.rgba # NULL THEN object.rgba ELSE "default"

(* GameLayer::AddLight, as far as the light's place and properties go.     *)
AddLight(object) ==
  Append(lightSources, [pos    |-> <<object.x, FlipPixelY(object.y)>>,
                        radius |-> object.rx,
                        color  |-> LightColor(object)])

ParseObject ==
  /\ pc = "objects"
  /\ n <= Len(objects)
  /\ lightSources' = IF IsLight(objects[n]) THEN AddLight(objects[n]) ELSE lightSources
  /\ n' = n + 1
  /\ UNCHANGED <<layers, objects, pc, tileTemplate, map, shadowCasters, globalBodies>>

(* ParseMap ends with SetTileTemplate, and LoadMap begins.                 *)
SetTileTemplate ==
  /\ pc = "objects"
  /\ n > Len(objects)
  /\ map' = [map EXCEPT !.tileTemplate = tileTemplate]
  /\ pc' = "load"
  /\ n' = 0
  /\ UNCHANGED <<layers, objects, tileTemplate, lightSources, shadowCasters, globalBodies>>

-----------------------------------------------------------------------------
(* LoadMap                                                                 *)

LoadShadowCaster(x, y) == <<x * MAP_TILE_SIZE, y * MAP_TILE_SIZE>>

(* A box of half the given width around its centre, both in half metres.   *)
(* The categories are as in the code.                                      *)
LoadWall(x, y, vent) ==
  [centre    |-> <<(MAP_TILE_SIZE * (2 * x + 1)) \div B2_PTM,
                   (MAP_TILE_SIZE * (2 * y + 1)) \div B2_PTM>>,
   halfWidth |-> B2METER_PER_TILE,
   category  |-> IF vent THEN "WALL" ELSE "VENTILATION"]

LoadTile ==
  /\ pc = "load"
  /\ n < Width * Height
  /\ LET x     == Visited(n)[1]
         y     == Visited(n)[2]
         flags == map.tileTemplate[Index(x, y)]
     IN  /\ shadowCasters' = IF "TILE_SHADOW" \in flags
                             THEN Append(shadowCasters, LoadShadowCaster(x, y))
                             ELSE shadowCasters
         /\ globalBodies' = IF "TILE_WALL" \in flags
                            THEN Append(globalBodies, LoadWall(x, y, "TILE_VENT" \in flags))
                            ELSE globalBodies
  /\ n' = n + 1
  /\ UNCHANGED <<layers, objects, pc, tileTemplate, map, lightSources>>

EndLoad ==
  /\ pc = "load"
  /\ n = Width * Height
  /\ pc' = "done"
  /\ UNCHANGED <<layers, objects, n, tileTemplate, map, lightSources, shadowCasters,
                 globalBodies>>

-----------------------------------------------------------------------------
ParseMap ==
  \/ ParseBackground \/ ParseForeground \/ ParseWalls \/ SkipLayer \/ EndLayers
  \/ ParseObject \/ SetTileTemplate

LoadMap == LoadTile \/ EndLoad

Next == FindTilesets \/ ParseMap \/ LoadMap

Spec == Init /\ [][Next]_vars

-----------------------------------------------------------------------------
(* Properties.                                                             *)

(* Where a tile of the file belongs: as far from the left and the top edge *)
(* of the level as it is from those of the file, by its bottom left corner.*)
Place(cell) ==
  <<cell[1] * TileSize, Height * TileSize - (cell[2] * TileSize + TileSize)>>

Named(name) == {k \in DOMAIN layers : layers[k].name = name}

WallCells ==
  {c \in Cells : \E k \in Named("walls") : TileId(layers[k].tiles[c]) = ID_WALL}

(* The bottom left corner of a body, in pixels.                            *)
Corner(body) ==
  [d \in {1, 2} |-> ((body.centre[d] - body.halfWidth) * B2_PTM) \div 2]

Hits(seq, place) == Cardinality({k \in DOMAIN seq : seq[k] = place})

(* The level's obstacles are the file's walls: through the flip, the index *)
(* arithmetic of the template and the change of units, each wall of any    *)
(* walls layer becomes one shadow caster and one body, both covering its   *)
(* square of the level, and there are no others.                           *)
ObstaclesMatchMap ==
  pc = "done" =>
    LET corners == [k \in DOMAIN globalBodies |-> Corner(globalBodies[k])]
    IN  /\ Len(corners) = Cardinality(WallCells)
        /\ Len(shadowCasters) = Cardinality(WallCells)
        /\ \A c \in WallCells : Hits(corners, Place(c)) = 1 /\ Hits(shadowCasters, Place(c)) = 1

(* What is drawn is the last layer of its name, every tile of it once, in  *)
(* the very place where a wall on that tile would stand.                   *)
DrawnLike(mapLayer, name) ==
  IF Named(name) = {} THEN mapLayer = NULL
  ELSE LET last  == CHOOSE k \in Named(name) : \A j \in Named(name) : j <= k
           tiles == layers[last].tiles
           drawn == {c \in Cells : tiles[c] # 0}
       IN  /\ Len(mapLayer) = Cardinality(drawn)
           /\ \A c \in drawn : \E k \in DOMAIN mapLayer : mapLayer[k].world = Place(c)

TilesDrawnInPlace ==
  pc = "done" => DrawnLike(map.bgLayer, "background") /\ DrawnLike(map.fgLayer, "foreground")

(* The lights of the level are the circles of the lights groups, in their  *)
(* order, as far below the top edge as in the file.                        *)
LightsMatchMap ==
  pc = "done" =>
    LET IsCircle(o) == o.group = "lights" /\ o.ellipse /\ o.rx = o.ry
        circles  == {k \in DOMAIN objects : IsCircle(objects[k])}
        Light(k) == lightSources[Cardinality({j \in circles : j <= k})]
    IN  /\ Len(lightSources) = Cardinality(circles)
        /\ \A k \in circles :
             /\ Light(k).pos[1] = objects[k].x
             /\ Light(k).pos[2] + objects[k].y = Height * TileSize
             /\ Light(k).radius = objects[k].rx
             /\ objects[k].rgba # NULL => Light(k).color = objects[k].rgba
=============================================================================
