---------------------------- MODULE ShadowCaster ----------------------------
(***************************************************************************)
(* ShadowCaster: the outline of an object, moved to where the object is.   *)
(* The moved vertices are cached with the position they were computed for, *)
(* and computed again once the object has moved by more than a threshold.  *)
(* One axis is enough, both are treated alike: a rectangle is the interval *)
(* between two vertices.  The caster is the one MapLoader puts on a tile.  *)
(***************************************************************************)
EXTENDS Integers, FiniteSetsExt

CONSTANTS
  TileSize,    \* the side of a tile
  Threshold,   \* 0.001 in the code, here in units of the position
  MaxPos       \* bound: the level is 0 .. MaxPos

ASSUME CasterAssumption ==
  /\ TileSize \in Nat \ {0} /\ Threshold \in Nat
  /\ MaxPos \in Nat /\ MaxPos >= TileSize

VARIABLES
  worldPos,     \* the object's WorldPosition
  localVerts,   \* _localVerts
  globalVerts,  \* _globalVerts
  calcPos       \* _calcPos

casterVars == <<worldPos, localVerts, globalVerts, calcPos>>

Places == 0 .. MaxPos - TileSize

Distance(a, b) == IF a < b THEN b - a ELSE a - b

CalculateGlobalVertices(verts) ==
  /\ globalVerts' = {v + worldPos : v \in verts}
  /\ calcPos' = worldPos

(* The object stands in its place before the caster gets its rectangle.    *)
CasterInit ==
  /\ worldPos \in Places
  /\ localVerts = {}
  /\ globalVerts = {}
  /\ calcPos = -1500

SetShadowRectangle ==
  /\ localVerts' = {0, TileSize}
  /\ CalculateGlobalVertices(localVerts')
  /\ UNCHANGED worldPos

(* Mutant: a move by less than a tile is not seen.                         *)
IsPositionDirtyByTile == Distance(worldPos, calcPos) > Threshold + TileSize

IsPositionDirty == Distance(worldPos, calcPos) > Threshold

(* GetShadowShape, of a caster whose rectangle was set.  (Of another one   *)
(* WillLightHitCaster has already read the first of no vertices.)          *)
GetShadowShape ==
  /\ IF globalVerts = {} \/ IsPositionDirty
     THEN CalculateGlobalVertices(localVerts)
     ELSE UNCHANGED <<globalVerts, calcPos>>
  /\ UNCHANGED <<worldPos, localVerts>>

(* GetAABB: the rectangle in its place, never cached.                      *)
GetAABB == <<worldPos + Min(localVerts), worldPos + Max(localVerts)>>

(* Whoever owns the object moves it, by little or by much.                 *)
MoveObject ==
  /\ worldPos' \in Places
  /\ UNCHANGED <<localVerts, globalVerts, calcPos>>
=============================================================================
