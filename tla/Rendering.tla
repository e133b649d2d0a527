------------------------------ MODULE Rendering -----------------------------
(***************************************************************************)
(* A frame: GameLayer::Render and what it calls in Map, MapLayer,          *)
(* ShadowLayer, LightSource, ShadowCaster and PhysicsDebugDrawer.  All of  *)
(* them set parts of one OpenGL state and leave parts of it behind; the    *)
(* actions follow that state from draw call to draw call, and the pixels   *)
(* of the stencil buffer and of the lights.  The level is the line         *)
(* 0 .. MaxPos, pixel x being the interval from x to x + 1.                *)
(***************************************************************************)
EXTENDS ShadowCaster, Sequences

CONSTANTS
  LampPos,       \* where the map's light is
  LampRadius,    \* its radius
  TorchLength,   \* the width of the player's light texture
  ScreenWidth    \* the resolution

ASSUME RenderingAssumption ==
  /\ LampPos \in 0 .. MaxPos /\ LampRadius \in Nat /\ TorchLength \in Nat
  /\ ScreenWidth \in Nat

VARIABLES
  gl,          \* the state of OpenGL
  stencil,     \* the pixels of the stencil buffer that are set
  lit,         \* per light source, the pixels it has lit this frame
  draw,        \* the last draw call: what it drew, and the state it used
  at,          \* the next step of the frame, or of the layer's life
  n,           \* the light source whose turn it is
  layers,      \* _bgLayer and _fgLayer: "none" to draw, buffers "made", or
               \* "null" when glGenBuffers gave none
  short,       \* a layer has fewer vertices than what is drawn after it
  playerPos,   \* the player's Position
  rotation,    \* the player's Rotation
  layerPos     \* GameLayer's Position

sceneVars == <<layers, short, playerPos, rotation, layerPos>>
renderVars == <<gl, stencil, lit, draw, at, n>>

Pixels == 0 .. MaxPos - 1

(* _lightSources: the map's lights, then the player's.                     *)
LightSources == <<"lamp", "torch">>

(* The state OpenGL starts in, with the blending trutle sets.   (external) *)
GLInit ==
  [target |-> "screen", matrices |-> <<"identity">>, program |-> FALSE,
   stencilTest |-> FALSE, marking |-> FALSE, blend |-> "over",
   texture |-> "off", color |-> "white",
   arrays |-> {}, vertexPtr |-> "none", texPtr |-> "none"]

RenderInit ==
  /\ gl = GLInit
  /\ stencil = {}
  /\ lit = [l \in {"lamp", "torch"} |-> {}]
  /\ draw = [what |-> "nothing", state |-> GLInit]
  /\ n = 1

Push(g, t) == [g EXCEPT !.matrices = Append(@, t)]
Pop(g) == [g EXCEPT !.matrices = SubSeq(@, 1, Len(@) - 1)]

(* Local arrays are gone when the function that drew them returns.         *)
Return(g) ==
  [g EXCEPT !.vertexPtr = IF @ = "local" THEN "gone" ELSE @,
            !.texPtr    = IF @ = "local" THEN "gone" ELSE @]

Drew(what, g) == draw' = [what |-> what, state |-> g]

-----------------------------------------------------------------------------
(* MapLayer::Render.  The two arrays stay enabled.                         *)
TilesState(g) ==
  [Push(g, "layer") EXCEPT !.texture = "tiles", !.arrays = {"vertex", "tex"},
                           !.vertexPtr = "buffer", !.texPtr = "buffer"]

AfterTiles(g) == [Pop(g) EXCEPT !.texture = "off"]

AfterMapLayer(which, g) ==
  IF layers[which] = "none" THEN g ELSE AfterTiles(TilesState(g))

RenderMapLayer(which, g) ==
  \/ layers[which] = "none" /\ UNCHANGED draw
  \/ layers[which] = "made" /\ Drew("tiles", TilesState(g))

(* Where glGenBuffers gave no buffer, the arrays are at address 0.         *)
NullArrays(which) == layers[which] = "null" /\ at' = "crashed" /\ UNCHANGED <<gl, draw>>

(* GameLayer::Render up to the children.                                   *)
RenderBackgroundLayer ==
  /\ at = "idle"
  /\ \/ /\ RenderMapLayer("bg", Push(gl, "layer"))
        /\ gl' = Pop(AfterMapLayer("bg", Push(gl, "layer")))
        /\ at' = "children"
     \/ NullArrays("bg")
  /\ UNCHANGED <<stencil, lit, n, sceneVars, casterVars>>

(* Layer::Render draws the player.  It leaves the state as it found it, or *)
(* with its own arrays, disabled.                               (external) *)
RenderChildren ==
  /\ at = "children"
  /\ gl' \in {gl, [gl EXCEPT !.arrays = {}, !.vertexPtr = "gone", !.texPtr = "gone"]}
  /\ at' = "shadowLayer"
  /\ UNCHANGED <<stencil, lit, draw, n, sceneVars, casterVars>>

-----------------------------------------------------------------------------
(* ShadowLayer::Render up to the loop over the lights, with the transform  *)
(* GameLayer::Render has applied.  BindFBO starts from an identity of its  *)
(* own, which UnbindFBO removes.                                (external) *)
BeginShadowLayer ==
  /\ at = "shadowLayer"
  /\ gl' = Push(Push([Push(gl, "layer") EXCEPT !.target = "texture", !.stencilTest = TRUE],
                     "identity"), "layer")
  /\ stencil' = {}
  /\ lit' = [l \in DOMAIN lit |-> {}]
  /\ n' = 1
  /\ at' = "lights"
  /\ UNCHANGED <<draw, sceneVars, casterVars>>

Source == LightSources[n]

LightPos(l) == IF l = "lamp" THEN LampPos ELSE playerPos

GetLightRadius(l) == IF l = "lamp" THEN LampRadius ELSE TorchLength

(* Rect::Overlaps                                               (external) *)
Overlaps(r, s) == r[1] < s[2] /\ s[1] < r[2]

(* The rectangle is the left half of the light's.                          *)
ShouldDrawLight(l) ==
  Overlaps(<<LightPos(l) - GetLightRadius(l), LightPos(l)>>,
           <<- layerPos, ScreenWidth - layerPos>>)

(* Mutant: the left half here too.                                         *)
WillLightHitCasterHalf(l) ==
  Overlaps(<<LightPos(l) - GetLightRadius(l), LightPos(l)>>, GetAABB)

WillLightHitCaster(l) ==
  Overlaps(<<LightPos(l) - GetLightRadius(l), LightPos(l) + GetLightRadius(l)>>, GetAABB)

(* GetShadowVertices: the vertices of the shape and, for each, one far     *)
(* away, which is not moved to the light; the quad covers what is between. *)
Quad(l, shape) == shape \cup {1000 * (v - LightPos(l)) : v \in shape}

Covered(verts) == {x \in Pixels : Min(verts) <= x /\ x + 1 <= Max(verts)}

(* Mutant: what another light's shadows have set stays.                    *)
NotCleared(s) == s

(* glClear, for every light.                                               *)
Cleared(s) == {}

ShadowState(g) ==
  [g EXCEPT !.marking = TRUE, !.color = "shadow",
            !.arrays = @ \cup {"vertex"}, !.vertexPtr = "local"]

AfterShadows(g) ==
  Return([g EXCEPT !.arrays = @ \ {"vertex"}, !.color = "white"])

(* An array that is enabled still, and is too short for what is drawn.     *)
ReadsAstray == "tex" \in gl.arrays /\ gl.texPtr = "buffer" /\ short

RenderShadows ==
  /\ at = "lights" /\ n <= Len(LightSources)
  /\ ShouldDrawLight(Source)
  /\ IF WillLightHitCaster(Source)
     THEN /\ GetShadowShape
          /\ stencil' = Cleared(stencil) \cup Covered(Quad(Source, globalVerts'))
     ELSE /\ stencil' = Cleared(stencil)
          /\ UNCHANGED casterVars
  /\ Drew("shadow", ShadowState(gl))
  /\ gl' = AfterShadows(ShadowState(gl))
  /\ \/ at' = "light"
     \/ ReadsAstray /\ at' = "crashed"
  /\ UNCHANGED <<lit, n, sceneVars>>

SkipLight ==
  /\ at = "lights" /\ n <= Len(LightSources)
  /\ ~ ShouldDrawLight(Source)
  /\ n' = n + 1
  /\ UNCHANGED <<gl, stencil, lit, draw, at, sceneVars, casterVars>>

(* RenderLight: the shared texture around the source, a custom texture in  *)
(* front of it.                                                            *)
Area(l) ==
  LET p == LightPos(l)  r == GetLightRadius(l) IN
  IF l = "lamp" THEN {x \in Pixels : p - r <= x /\ x < p + r}
  ELSE IF rotation = "right" THEN {x \in Pixels : p <= x /\ x < p + r}
  ELSE {x \in Pixels : p - r <= x /\ x < p}

LightState(g) ==
  [Push(g, "object") EXCEPT !.marking = FALSE, !.texture = "light", !.color = "white",
                            !.arrays = {"vertex", "tex"},
                            !.vertexPtr = "local", !.texPtr = "local"]

(* Mutant: the texture coordinates are not disabled.                       *)
AfterLightArrays(g) == Return([Pop(g) EXCEPT !.arrays = {"tex"}, !.texture = "off"])

AfterLight(g) == Return([Pop(g) EXCEPT !.arrays = {}, !.texture = "off"])

(* GL_NOTEQUAL: where the stencil is not set.                              *)
RenderLight ==
  /\ at = "light"
  /\ lit' = [lit EXCEPT ![Source] = Area(Source) \ stencil]
  /\ Drew("light", LightState(gl))
  /\ gl' = AfterLight(LightState(gl))
  /\ n' = n + 1
  /\ at' = "lights"
  /\ UNCHANGED <<stencil, sceneVars, casterVars>>

FillState(g) ==
  [Pop(g) EXCEPT !.stencilTest = FALSE, !.color = "shadow", !.blend = "fill",
                 !.arrays = @ \cup {"vertex"}, !.vertexPtr = "local"]

(* Mutant: the blend function stays.                                       *)
AfterFillBlending(g) ==
  Return([Pop(g) EXCEPT !.color = "white", !.target = "screen", !.arrays = @ \ {"vertex"}])

(* The rest of DrawFillShadow, and UnbindFBO.                              *)
AfterFill(g) ==
  Return([Pop(g) EXCEPT !.color = "white", !.blend = "over", !.target = "screen",
                        !.arrays = @ \ {"vertex"}])

DrawFillShadow ==
  /\ at = "lights" /\ n > Len(LightSources)
  /\ Drew("fill", FillState(gl))
  /\ gl' = AfterFill(FillState(gl))
  /\ at' = "composite"
  /\ UNCHANGED <<stencil, lit, n, sceneVars, casterVars>>

CompositeState(g) ==
  [Push(g, "identity") EXCEPT !.texture = "shadows", !.program = TRUE, !.color = "white",
                              !.arrays = {"vertex", "tex"},
                              !.vertexPtr = "local", !.texPtr = "local"]

(* The texture stays on.                                                   *)
AfterComposite(g) == Return([Pop(g) EXCEPT !.arrays = {}, !.program = FALSE])

DrawRenderTexture ==
  /\ at = "composite"
  /\ Drew("composite", CompositeState(gl))
  /\ gl' = AfterComposite(CompositeState(gl))
  /\ at' = "foreground"
  /\ UNCHANGED <<stencil, lit, n, sceneVars, casterVars>>

-----------------------------------------------------------------------------
RenderForegroundLayer ==
  /\ at = "foreground"
  /\ \/ /\ RenderMapLayer("fg", gl)
        /\ gl' = AfterMapLayer("fg", gl)
        /\ at' = "debug"
     \/ NullArrays("fg")
  /\ UNCHANGED <<stencil, lit, n, sceneVars, casterVars>>

(* PhysicsDebugDrawer: one of the shapes of the level's bodies.            *)
DebugState(g) ==
  [Push(g, "metres") EXCEPT !.texture = "off", !.color = "debug",
                            !.arrays = @ \cup {"vertex"}, !.vertexPtr = "local"]

AfterDebug(g) == Return([Pop(g) EXCEPT !.arrays = @ \ {"vertex"}, !.color = "white"])

(* DrawDebugData draws every body, the player's at least, in the same way. *)
(* _uiLayer has no children; then the layer's transform is removed.        *)
DrawDebugData ==
  /\ at = "debug"
  /\ Drew("debug", DebugState(gl))
  /\ gl' = Pop(AfterDebug(DebugState(gl)))
  /\ \/ at' = "idle"
     \/ ReadsAstray /\ at' = "crashed"
  /\ UNCHANGED <<stencil, lit, n, sceneVars, casterVars>>

RenderStep ==
  \/ RenderBackgroundLayer \/ RenderChildren
  \/ BeginShadowLayer \/ RenderShadows \/ SkipLight \/ RenderLight
  \/ DrawFillShadow \/ DrawRenderTexture
  \/ RenderForegroundLayer \/ DrawDebugData

-----------------------------------------------------------------------------
(* Properties.                                                             *)

(* The state each kind of draw call is written for.                        *)
Intended ==
  [nothing   |-> GLInit,
   tiles     |-> [target |-> "screen", matrices |-> <<"identity", "layer", "layer">>,
                  program |-> FALSE, stencilTest |-> FALSE, blend |-> "over",
                  texture |-> "tiles", color |-> "white", arrays |-> {"vertex", "tex"}],
   shadow    |-> [target |-> "texture", stencilTest |-> TRUE, marking |-> TRUE,
                  matrices |-> <<"identity", "layer", "identity", "layer">>],
   light     |-> [target |-> "texture", stencilTest |-> TRUE, marking |-> FALSE,
                  matrices |-> <<"identity", "layer", "identity", "layer", "object">>,
                  program |-> FALSE, blend |-> "over", texture |-> "light",
                  color |-> "white", arrays |-> {"vertex", "tex"}],
   fill      |-> [target |-> "texture", matrices |-> <<"identity", "layer", "identity">>,
                  program |-> FALSE, stencilTest |-> FALSE, blend |-> "fill",
                  texture |-> "off", color |-> "shadow"],
   composite |-> [target |-> "screen", matrices |-> <<"identity", "layer", "identity">>,
                  program |-> TRUE, stencilTest |-> FALSE, blend |-> "over",
                  texture |-> "shadows", color |-> "white", arrays |-> {"vertex", "tex"}],
   debug     |-> [target |-> "screen", matrices |-> <<"identity", "layer", "metres">>,
                  program |-> FALSE, stencilTest |-> FALSE, blend |-> "over",
                  texture |-> "off", color |-> "debug"]]

(* Whatever was drawn before, in this frame or the last one, a draw call   *)
(* finds the target, transform, shader, stencil, blending, texture and     *)
(* colour it needs: what the functions leave behind harms none of them.    *)
DrawnAsIntended ==
  \A f \in DOMAIN Intended[draw.what] : draw.state[f] = Intended[draw.what][f]

(* No draw call reads an array whose memory is gone, although pointers to  *)
(* local arrays and deleted memory are left in OpenGL's state.             *)
DrawsFromLiveMemory ==
  /\ "vertex" \in draw.state.arrays => draw.state.vertexPtr \notin {"none", "gone"}
  /\ "tex" \in draw.state.arrays => draw.state.texPtr \notin {"none", "gone"}

(* The pixels a tile at w keeps from a light beside it: the tile's own and *)
(* those on its other side.                                                *)
Behind(l, w) ==
  IF LightPos(l) < w THEN {x \in Pixels : x >= w} ELSE {x \in Pixels : x < w + TileSize}

(* Beside the tile, and so far from it that the vertices put a thousand    *)
(* times as far away are beyond the end of the level: outside the tile, in *)
(* a level of no more than 1000.                                           *)
Outside(l, w) ==
  \/ 1000 * (w - LightPos(l)) >= MaxPos
  \/ 1000 * (LightPos(l) - (w + TileSize)) >= MaxPos

(* A light that is not inside the caster (nor, in a level wider than 1000, *)
(* too close to it) is lit up to the caster's shadow as it stands now,     *)
(* within the threshold, whatever the other lights' shadows are and        *)
(* wherever the caster was when its vertices were computed.  A light that  *)
(* is not drawn has the left half of its rectangle off the screen.         *)
LitUnlessShadowed ==
  at = "lights" =>
    \A k \in 1 .. n - 1 :
      LET l     == LightSources[k]
          Near  == worldPos - Threshold .. worldPos + Threshold
      IN  \/ lit[l] = {} /\ ~ ShouldDrawLight(l)
          \/ \E w \in Near : ~ Outside(l, w)
          \/ \E w \in Near : lit[l] = Area(l) \ Behind(l, w)
=============================================================================
