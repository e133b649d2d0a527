----------------------------- MODULE GameLayer ------------------------------
(***************************************************************************)
(* The game on the client, from GameScene::LoadContent to the end:         *)
(* GameLayer's constructor with the ShadowLayer, its Shader, the Map and   *)
(* the Player, the frames (Update and Render, in any order), and the       *)
(* destructors in the order C++ runs them.                                 *)
(***************************************************************************)
EXTENDS Rendering

VARIABLES
  objects,      \* the OpenGL objects that exist
  handle,       \* Shader's _frag, _vert and _prog are not 0
  world,        \* Map's b2World: "none", "live" or "freed"
  body,         \* where the player's body is, freed with the world
  mouse,        \* where the mouse is on the screen
  updates,      \* how often the game was updated, up to 2
  cameraFirst   \* Layer::Update comes to the camera first, or to the player
                \* (trutle)                                         (external)

gameVars == <<objects, handle, world, body, mouse, updates, cameraFirst>>
vars == <<gameVars, renderVars, sceneVars, casterVars>>

Stages == {"frag", "vert"}
ShaderObjects == Stages \cup {"prog"}
Buffers == {"bg", "fg"}
Centre == ScreenWidth \div 2

Init ==
  /\ objects = {}
  /\ handle = [s \in ShaderObjects |-> FALSE]
  /\ world = "none"
  /\ body = 0
  /\ mouse = 0
  /\ updates = 0
  /\ cameraFirst \in BOOLEAN
  /\ at = "new"
  /\ layers = [w \in Buffers |-> "none"]
  /\ short = FALSE
  /\ playerPos = 0
  /\ rotation = "right"
  /\ layerPos = 0
  /\ CasterInit
  /\ RenderInit

-----------------------------------------------------------------------------
(* The constructor: the ShadowLayer's RenderTexture, then the Shader, each *)
(* step of which may fail.  Then Shader's constructor throws, its          *)
(* destructor is not run, and nothing catches the exception.               *)

loadUnchanged ==
  UNCHANGED <<world, body, mouse, updates, cameraFirst, gl, stencil, lit, draw, n,
              sceneVars, casterVars>>

NewShadowLayer ==
  /\ at = "new"
  /\ objects' = {"renderTexture"}
  /\ at' = "create"
  /\ UNCHANGED handle
  /\ loadUnchanged

(* LoadShader: glCreateShader may return 0 for either.                     *)
CreateShaders ==
  /\ at = "create"
  /\ \E made \in SUBSET Stages :
       /\ objects' = objects \cup made
       /\ handle' = [s \in ShaderObjects |-> s \in made]
       /\ at' = IF made = Stages THEN "frag" ELSE "threw"
  /\ loadUnchanged

(* Mutant: the field keeps the number of what was deleted.                 *)
CompileShaderKeeps(s) ==
  \/ /\ at' = IF s = "frag" THEN "vert" ELSE "prog"
     /\ UNCHANGED <<objects, handle>>
  \/ /\ objects' = objects \ {s}
     /\ at' = "threw"
     /\ UNCHANGED handle

(* A shader that does not compile is deleted, and only that one.           *)
CompileShader(s) ==
  \/ /\ at' = IF s = "frag" THEN "vert" ELSE "prog"
     /\ UNCHANGED <<objects, handle>>
  \/ /\ objects' = objects \ {s}
     /\ handle' = [handle EXCEPT ![s] = FALSE]
     /\ at' = "threw"

CompileShaders ==
  /\ at \in Stages
  /\ CompileShader(at)
  /\ loadUnchanged

CreateProgram ==
  /\ at = "prog"
  /\ \/ /\ objects' = objects \cup {"prog"}
        /\ handle' = [handle EXCEPT !["prog"] = TRUE]
        /\ at' = "link"
     \/ /\ at' = "threw"
        /\ UNCHANGED <<objects, handle>>
  /\ loadUnchanged

(* If it cannot be linked all three are deleted.                           *)
LinkProgram ==
  /\ at = "link"
  /\ \/ /\ at' = "uniforms"
        /\ UNCHANGED <<objects, handle>>
     \/ /\ objects' = objects \ ShaderObjects
        /\ handle' = [s \in ShaderObjects |-> FALSE]
        /\ at' = "threw"
  /\ loadUnchanged

(* ShadowLayer sets its uniforms, which needs the program in use and puts  *)
(* it out of use again.                                                    *)
SetUniforms ==
  /\ at = "uniforms"
  /\ gl' = [gl EXCEPT !.program = FALSE]
  /\ at' = "map"
  /\ UNCHANGED <<gameVars, stencil, lit, draw, n, sceneVars, casterVars>>

(* That glGenBuffers gave no buffers is logged, and no more.               *)
CreateBuffers == {"made", "null"}

CreateVBO(tiles) == IF tiles = {} THEN {"none"} ELSE CreateBuffers

(* The map with its two layers, of which a map that cannot be parsed has   *)
(* none, and the tile's caster.                                            *)
LoadLevel ==
  /\ at = "map"
  /\ world' = "live"
  /\ layers' \in [Buffers -> UNION {CreateVBO(tiles) : tiles \in SUBSET {"tile"}}]
  /\ short' \in BOOLEAN
  /\ objects' = objects \cup {w \in Buffers : layers'[w] = "made"}
  /\ SetShadowRectangle
  /\ at' = "player"
  /\ UNCHANGED <<handle, body, mouse, updates, cameraFirst, gl, stencil, lit, draw, n,
                 playerPos, rotation, layerPos>>

(* The player's body is made in that world, at the origin, and only then   *)
(* do the components that move it and the camera know of it.               *)
NewPlayer ==
  /\ at = "player" /\ world = "live"
  /\ body' = 0
  /\ at' = "idle"
  /\ UNCHANGED <<objects, handle, world, mouse, updates, cameraFirst, gl, stencil, lit, draw, n,
                 sceneVars, casterVars>>

-----------------------------------------------------------------------------
(* Update                                                                  *)

(* MoveComponent: the second key wins.  (The speed, in metres per second,  *)
(* is multiplied by the frame's duration once more.)                       *)
Velocity(a, d) == IF d THEN 1 ELSE IF a THEN -1 ELSE 0

(* Mutant: the layer's place is not taken into account.                    *)
AimUnmoved(m, layer) == IF m - playerPos >= 0 THEN "right" ELSE "left"

(* AimComponent, where the layer is when the player is updated.            *)
Aim(m, layer) == IF m - (playerPos + layer) >= 0 THEN "right" ELSE "left"

(* CameraComponent                                                         *)
Camera(p) == Centre - p

(* Map::Update: the body goes where its velocity takes it, or is stopped.  *)
StepWorld(velocities) == ({body} \cup {body + v : v \in velocities}) \cap (0 .. MaxPos)

(* Layer::Update runs the camera and the player's components in some       *)
(* order; then the world is stepped, which moves the body or not, and the  *)
(* player is put where its body is.  The caster's object may move too.     *)
Update ==
  /\ at = "idle"
  /\ mouse' \in 0 .. ScreenWidth
  /\ rotation' = Aim(mouse', IF cameraFirst THEN Camera(playerPos) ELSE layerPos)
  /\ layerPos' = Camera(playerPos)
  /\ body' \in StepWorld({Velocity(a, d) : a, d \in BOOLEAN})
  /\ playerPos' = body'
  /\ updates' = IF updates < 2 THEN updates + 1 ELSE 2
  /\ MoveObject
  /\ UNCHANGED <<objects, handle, world, cameraFirst, layers, short, renderVars>>

-----------------------------------------------------------------------------
(* The end.  ~GameLayer deletes the shadow layer (RenderTexture and        *)
(* Shader) and the map, which deletes the world with all its bodies and,   *)
(* as its children, the map layers.                                        *)

(* Mutant: ~Shader deletes the shaders only.                               *)
ShaderDeletesStages == {s \in Stages : handle[s]}

(* ~Shader                                                                 *)
ShaderDeletes == {s \in ShaderObjects : handle[s]}

(* ~MapLayer                                                               *)
DestroyBuffers == {w \in Buffers : layers[w] = "made"}

DestroyGameLayer ==
  /\ at = "idle"
  /\ objects' = objects \ (ShaderDeletes \cup DestroyBuffers \cup {"renderTexture"})
  /\ world' = "freed"
  /\ at' = "destroying"
  /\ UNCHANGED <<handle, body, mouse, updates, cameraFirst, gl, stencil, lit, draw, n,
                 sceneVars, casterVars>>

(* ~Layer deletes the children, and ~Player asks its body, which is freed, *)
(* for the world.                                                          *)
DestroyPlayer ==
  /\ at = "destroying"
  /\ at' \in IF world = "freed" THEN {"deleted", "corrupted"} ELSE {"deleted"}
  /\ UNCHANGED <<gameVars, gl, stencil, lit, draw, n, sceneVars, casterVars>>

Next ==
  \/ NewShadowLayer \/ CreateShaders \/ CompileShaders \/ CreateProgram \/ LinkProgram
  \/ SetUniforms \/ LoadLevel \/ NewPlayer
  \/ Update
  \/ RenderStep /\ UNCHANGED gameVars
  \/ DestroyGameLayer \/ DestroyPlayer

Spec == Init /\ [][Next]_vars

-----------------------------------------------------------------------------
(* Properties.                                                             *)

(* Whatever step of loading the shader fails, a field of Shader that is    *)
(* not 0 names an object that exists, so that none is deleted twice; and   *)
(* when the layer has been deleted nothing is left in OpenGL of its shader,*)
(* its ShadowLayer's texture and its tiles' buffers.  What a failed load   *)
(* leaves behind (the exception ends the program), the texture the lights  *)
(* share (module Lights) and the frees of ~Player are not its subject.     *)
ObjectsOwned ==
  /\ at \notin {"destroying", "deleted", "corrupted"} =>
       \A s \in ShaderObjects : handle[s] => s \in objects
  /\ at = "deleted" => objects = {}

(* The player is turned to the mouse as the two are drawn, unless they are *)
(* within two steps of each other: the camera follows the player's place   *)
(* of the last frame, and the player may be aimed before the camera has    *)
(* moved.                                                                  *)
FacesTheMouse ==
  updates = 2 =>
    /\ mouse > playerPos + layerPos + 2 => rotation = "right"
    /\ mouse < playerPos + layerPos - 2 => rotation = "left"
=============================================================================
