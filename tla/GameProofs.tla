----------------------------- MODULE GameProofs -----------------------------
(***************************************************************************)
(* What holds of GameLayer for a level, lamp, torch and screen of any      *)
(* size.                                                                   *)
(***************************************************************************)
EXTENDS GameLayer, TLAPS

-----------------------------------------------------------------------------
(* Lemmas about the matrix stack, whose contents are written out.          *)

LEMMA SameSeq ==
  ASSUME NEW S, NEW s \in Seq(S), NEW t \in Seq(S), Len(s) = Len(t),
         \A i \in 1 .. Len(s) : s[i] = t[i]
  PROVE  s = t
OBVIOUS

(* What is pushed is popped again.                                         *)
LEMMA PopAppend ==
  ASSUME NEW S, NEW s \in Seq(S), NEW e \in S
  PROVE  SubSeq(Append(s, e), 1, Len(Append(s, e)) - 1) = s
OBVIOUS

LEMMA Append2 ==
  ASSUME NEW S, NEW a \in S, NEW b \in S
  PROVE  Append(<<a>>, b) = <<a, b>> /\ <<a>> \in Seq(S)
<1>1. <<a>> \in Seq(S) /\ Len(<<a>>) = 1
  OBVIOUS
<1>2. Append(<<a>>, b) \in Seq(S) /\ Len(Append(<<a>>, b)) = 2
  BY <1>1
<1>3. <<a, b>> \in Seq(S) /\ Len(<<a, b>>) = 2
  OBVIOUS
<1>4. Append(<<a>>, b)[1] = a /\ Append(<<a>>, b)[2] = b
  BY <1>1
<1>5. \A i \in 1 .. 2 : Append(<<a>>, b)[i] = <<a, b>>[i]
  BY <1>4
<1> QED  BY <1>1, <1>2, <1>3, <1>5, SameSeq

LEMMA Append3 ==
  ASSUME NEW S, NEW a \in S, NEW b \in S, NEW c \in S
  PROVE  Append(<<a, b>>, c) = <<a, b, c>> /\ <<a, b>> \in Seq(S)
<1>1. <<a, b>> \in Seq(S) /\ Len(<<a, b>>) = 2
  OBVIOUS
<1>2. Append(<<a, b>>, c) \in Seq(S) /\ Len(Append(<<a, b>>, c)) = 3
  BY <1>1
<1>3. <<a, b, c>> \in Seq(S) /\ Len(<<a, b, c>>) = 3
  OBVIOUS
<1>4. Append(<<a, b>>, c)[1] = a /\ Append(<<a, b>>, c)[2] = b /\ Append(<<a, b>>, c)[3] = c
  BY <1>1
<1>5. \A i \in 1 .. 3 : Append(<<a, b>>, c)[i] = <<a, b, c>>[i]
  BY <1>4
<1> QED  BY <1>1, <1>2, <1>3, <1>5, SameSeq

LEMMA Append4 ==
  ASSUME NEW S, NEW a \in S, NEW b \in S, NEW c \in S, NEW d \in S
  PROVE  Append(<<a, b, c>>, d) = <<a, b, c, d>> /\ <<a, b, c>> \in Seq(S)
<1>1. <<a, b, c>> \in Seq(S) /\ Len(<<a, b, c>>) = 3
  OBVIOUS
<1>2. Append(<<a, b, c>>, d) \in Seq(S) /\ Len(Append(<<a, b, c>>, d)) = 4
  BY <1>1
<1>3. <<a, b, c, d>> \in Seq(S) /\ Len(<<a, b, c, d>>) = 4
  OBVIOUS
<1>4. /\ Append(<<a, b, c>>, d)[1] = a /\ Append(<<a, b, c>>, d)[2] = b
      /\ Append(<<a, b, c>>, d)[3] = c /\ Append(<<a, b, c>>, d)[4] = d
  BY <1>1
<1>5. \A i \in 1 .. 4 : Append(<<a, b, c>>, d)[i] = <<a, b, c, d>>[i]
  BY <1>4
<1> QED  BY <1>1, <1>2, <1>3, <1>5, SameSeq

LEMMA Append5 ==
  ASSUME NEW S, NEW a \in S, NEW b \in S, NEW c \in S, NEW d \in S, NEW e \in S
  PROVE  Append(<<a, b, c, d>>, e) = <<a, b, c, d, e>> /\ <<a, b, c, d>> \in Seq(S)
<1>1. <<a, b, c, d>> \in Seq(S) /\ Len(<<a, b, c, d>>) = 4
  OBVIOUS
<1>2. Append(<<a, b, c, d>>, e) \in Seq(S) /\ Len(Append(<<a, b, c, d>>, e)) = 5
  BY <1>1
<1>3. <<a, b, c, d, e>> \in Seq(S) /\ Len(<<a, b, c, d, e>>) = 5
  OBVIOUS
<1>4. /\ Append(<<a, b, c, d>>, e)[1] = a /\ Append(<<a, b, c, d>>, e)[2] = b
      /\ Append(<<a, b, c, d>>, e)[3] = c /\ Append(<<a, b, c, d>>, e)[4] = d
      /\ Append(<<a, b, c, d>>, e)[5] = e
  BY <1>1
<1>5. \A i \in 1 .. 5 : Append(<<a, b, c, d>>, e)[i] = <<a, b, c, d, e>>[i]
  BY <1>4
<1> QED  BY <1>1, <1>2, <1>3, <1>5, SameSeq

(* The stacks a frame goes through: on the screen, inside the layer, in    *)
(* the shadow layer's texture, and inside the layer there.                 *)
Matrix == {"identity", "layer", "object", "metres"}

OnScreen  == <<"identity">>
InLayer   == <<"identity", "layer">>
InTexture == <<"identity", "layer", "identity">>
InLights  == <<"identity", "layer", "identity", "layer">>

LEMMA Stacks ==
  /\ OnScreen \in Seq(Matrix) /\ InLayer \in Seq(Matrix)
  /\ InTexture \in Seq(Matrix) /\ InLights \in Seq(Matrix)
  /\ Append(OnScreen, "layer") = InLayer
  /\ Append(InLayer, "identity") = InTexture
  /\ Append(InTexture, "layer") = InLights
  /\ Append(InLayer, "layer") = <<"identity", "layer", "layer">>
  /\ Append(InLayer, "metres") = <<"identity", "layer", "metres">>
  /\ Append(InLights, "object") = <<"identity", "layer", "identity", "layer", "object">>
<1>1. "identity" \in Matrix /\ "layer" \in Matrix /\ "object" \in Matrix /\ "metres" \in Matrix
  BY DEF Matrix
<1> QED
  BY <1>1, Append2, Append3, Append4, Append5 DEF OnScreen, InLayer, InTexture, InLights

(* Pop undoes Push on the stacks.                                          *)
LEMMA Pops ==
  \A s \in Seq(Matrix), e \in Matrix :
    /\ Append(s, e) \in Seq(Matrix)
    /\ SubSeq(Append(s, e), 1, Len(Append(s, e)) - 1) = s
BY PopAppend

LEMMA Popped ==
  /\ SubSeq(InTexture, 1, Len(InTexture) - 1) = InLayer
  /\ SubSeq(InLights, 1, Len(InLights) - 1) = InTexture
  /\ LET s == Append(InLayer, "identity") IN SubSeq(s, 1, Len(s) - 1) = InLayer
  /\ LET s == Append(InLayer, "layer")  IN SubSeq(s, 1, Len(s) - 1) = InLayer
  /\ LET s == Append(InLayer, "metres") IN SubSeq(s, 1, Len(s) - 1) = InLayer
  /\ LET s == Append(InLights, "object") IN SubSeq(s, 1, Len(s) - 1) = InLights
<1>1. "identity" \in Matrix /\ "layer" \in Matrix /\ "object" \in Matrix /\ "metres" \in Matrix
  BY DEF Matrix
<1>2. /\ InLayer \in Seq(Matrix) /\ InTexture \in Seq(Matrix) /\ InLights \in Seq(Matrix)
      /\ InTexture = Append(InLayer, "identity") /\ InLights = Append(InTexture, "layer")
  BY Stacks
<1> QED  BY <1>1, <1>2, Pops

-----------------------------------------------------------------------------
(* What a drawing function may rely on, and leaves behind: the target, the *)
(* stack and the stencil test of its place in the frame, no program,       *)
(* ordinary blending and colour, and no array enabled whose memory is not  *)
(* a buffer's.                                                             *)

Pointer == {"none", "local", "gone", "buffer"}

GLState ==
  [target : {"screen", "texture"}, matrices : Seq(Matrix), program : BOOLEAN,
   stencilTest : BOOLEAN, marking : BOOLEAN, blend : {"over", "fill"},
   texture : {"off", "tiles", "light", "shadows"}, color : {"white", "shadow", "debug"},
   arrays : SUBSET {"vertex", "tex"}, vertexPtr : Pointer, texPtr : Pointer]

Rest(g, target, stack) ==
  /\ g \in GLState
  /\ g.target = target /\ g.matrices = stack /\ g.stencilTest = (target = "texture")
  /\ g.program = FALSE /\ g.blend = "over" /\ g.color = "white"
  /\ "vertex" \in g.arrays => g.vertexPtr = "buffer"
  /\ "tex" \in g.arrays => g.texPtr = "buffer"

(* A state that suits a draw call, as the two properties say.              *)
Suits(what, g) ==
  /\ \A f \in DOMAIN Intended[what] : g[f] = Intended[what][f]
  /\ "vertex" \in g.arrays => g.vertexPtr \notin {"none", "gone"}
  /\ "tex" \in g.arrays => g.texPtr \notin {"none", "gone"}

LEMMA RestInit == Rest(GLInit, "screen", OnScreen) /\ Suits("nothing", GLInit)
<1>1. GLInit \in GLState
  BY Stacks DEF GLInit, GLState, Pointer, OnScreen
<1>2. Rest(GLInit, "screen", OnScreen)
  BY <1>1 DEF Rest, GLInit, OnScreen
<1>3. Suits("nothing", GLInit)
  BY DEF Suits, Intended, GLInit
<1> QED  BY <1>2, <1>3

LEMMA RestPush ==
  ASSUME NEW g, NEW target \in {"screen", "texture"}, NEW stack \in Seq(Matrix), NEW m \in Matrix,
         Rest(g, target, stack)
  PROVE  /\ Rest(Push(g, m), target, Append(stack, m))
         /\ Push(g, m).texture = g.texture
<1>1. Append(stack, m) \in Seq(Matrix)
  BY Pops
<1> QED  BY <1>1 DEF Rest, Push, GLState

LEMMA RestPop ==
  ASSUME NEW g, NEW target \in {"screen", "texture"}, NEW stack \in Seq(Matrix), NEW m \in Matrix,
         Rest(g, target, Append(stack, m))
  PROVE  Rest(Pop(g), target, stack) /\ Pop(g).texture = g.texture
<1>1. SubSeq(g.matrices, 1, Len(g.matrices) - 1) = stack
  BY Pops DEF Rest
<1> QED  BY <1>1 DEF Rest, Pop, GLState

LEMMA ReturnType ==
  ASSUME NEW g \in GLState
  PROVE  Return(g) \in GLState
BY DEF Return, GLState, Pointer

LEMMA RestReturn ==
  ASSUME NEW g, NEW target \in {"screen", "texture"}, NEW stack, Rest(g, target, stack)
  PROVE  Rest(Return(g), target, stack) /\ Return(g).texture = g.texture
BY DEF Rest, Return, GLState, Pointer

(* MapLayer::Render                                                        *)
LEMMA TilesFacts ==
  ASSUME NEW g, Rest(g, "screen", InLayer)
  PROVE  /\ TilesState(g) \in GLState /\ Suits("tiles", TilesState(g))
         /\ Rest(AfterTiles(TilesState(g)), "screen", InLayer)
         /\ AfterTiles(TilesState(g)).texture = "off"
<1> DEFINE h == TilesState(g)
<1>1. /\ h \in GLState /\ h.matrices = Append(InLayer, "layer")
      /\ h.target = "screen" /\ h.stencilTest = FALSE /\ h.program = FALSE
      /\ h.blend = "over" /\ h.color = "white" /\ h.texture = "tiles"
      /\ h.arrays = {"vertex", "tex"} /\ h.vertexPtr = "buffer" /\ h.texPtr = "buffer"
  BY Stacks, Pops DEF Rest, TilesState, Push, GLState, Pointer, Matrix
<1> HIDE DEF h
<1>2. Suits("tiles", h)
  <2> DEFINE r == Intended["tiles"]
  <2>1. r = [target |-> "screen", matrices |-> <<"identity", "layer", "layer">>,
             program |-> FALSE, stencilTest |-> FALSE, blend |-> "over",
             texture |-> "tiles", color |-> "white", arrays |-> {"vertex", "tex"}]
    BY DEF Intended
  <2> HIDE DEF r
  <2>2. DOMAIN r = {"target", "matrices", "program", "stencilTest", "blend", "texture",
                    "color", "arrays"}
    BY <2>1
  <2>3. /\ h["target"] = r["target"] /\ h["matrices"] = r["matrices"]
        /\ h["program"] = r["program"] /\ h["stencilTest"] = r["stencilTest"]
        /\ h["blend"] = r["blend"] /\ h["texture"] = r["texture"]
        /\ h["color"] = r["color"] /\ h["arrays"] = r["arrays"]
    BY <1>1, <2>1, Stacks
  <2>4. \A f \in DOMAIN r : h[f] = r[f]
    BY <2>2, <2>3, Zenon
  <2> QED  BY <1>1, <2>4 DEF Suits, r
<1>3. SubSeq(h.matrices, 1, Len(h.matrices) - 1) = InLayer
  BY <1>1, Popped
<1>4. Rest(AfterTiles(h), "screen", InLayer) /\ AfterTiles(h).texture = "off"
  BY <1>1, <1>3, Stacks DEF Rest, AfterTiles, Pop, GLState
<1> QED  BY <1>1, <1>2, <1>4 DEF h

(* RenderShadows: whatever the arrays left enabled are, they are buffers.  *)
LEMMA ShadowFacts ==
  ASSUME NEW g, Rest(g, "texture", InLights)
  PROVE  /\ ShadowState(g) \in GLState /\ Suits("shadow", ShadowState(g))
         /\ Rest(AfterShadows(ShadowState(g)), "texture", InLights)
         /\ AfterShadows(ShadowState(g)).texture = g.texture
<1> DEFINE h == ShadowState(g)
<1>1. /\ h \in GLState /\ h.matrices = InLights
      /\ h.target = "texture" /\ h.stencilTest = TRUE /\ h.program = FALSE
      /\ h.marking = TRUE /\ h.blend = "over" /\ h.color = "shadow" /\ h.texture = g.texture
      /\ h.vertexPtr = "local"
      /\ "tex" \in h.arrays => h.texPtr = "buffer"
  BY Stacks DEF Rest, ShadowState, GLState, Pointer
<1> HIDE DEF h
<1>2. Suits("shadow", h)
  <2> DEFINE r == Intended["shadow"]
  <2>1. r = [target |-> "texture", stencilTest |-> TRUE, marking |-> TRUE,
             matrices |-> <<"identity", "layer", "identity", "layer">>]
    BY DEF Intended
  <2> HIDE DEF r
  <2>2. DOMAIN r = {"target", "stencilTest", "marking", "matrices"}
    BY <2>1
  <2>3. /\ h["target"] = r["target"] /\ h["stencilTest"] = r["stencilTest"]
        /\ h["marking"] = r["marking"] /\ h["matrices"] = r["matrices"]
    BY <1>1, <2>1 DEF InLights
  <2>4. \A f \in DOMAIN r : h[f] = r[f]
    BY <2>2, <2>3, Zenon
  <2> QED  BY <1>1, <2>4 DEF Suits, r
<1>3. Rest(AfterShadows(h), "texture", InLights) /\ AfterShadows(h).texture = g.texture
  <2>1. AfterShadows(h) \in GLState
    <3>1. [h EXCEPT !.arrays = @ \ {"vertex"}, !.color = "white"] \in GLState
      BY <1>1 DEF GLState
    <3> QED  BY <3>1, ReturnType DEF AfterShadows
  <2>2. /\ AfterShadows(h).target = "texture" /\ AfterShadows(h).matrices = InLights
        /\ AfterShadows(h).stencilTest = TRUE /\ AfterShadows(h).program = FALSE
        /\ AfterShadows(h).blend = "over" /\ AfterShadows(h).color = "white"
        /\ AfterShadows(h).texture = g.texture
    BY <1>1 DEF AfterShadows, Return, GLState
  <2>3. /\ "vertex" \notin AfterShadows(h).arrays
        /\ "tex" \in AfterShadows(h).arrays => AfterShadows(h).texPtr = "buffer"
    BY <1>1 DEF AfterShadows, Return, GLState
  <2> QED  BY <2>1, <2>2, <2>3 DEF Rest
<1> QED  BY <1>1, <1>2, <1>3 DEF h

(* LightSource::RenderLight                                                *)
LEMMA LightFacts ==
  ASSUME NEW g, Rest(g, "texture", InLights)
  PROVE  /\ LightState(g) \in GLState /\ Suits("light", LightState(g))
         /\ Rest(AfterLight(LightState(g)), "texture", InLights)
         /\ AfterLight(LightState(g)).texture = "off"
<1> DEFINE h == LightState(g)
<1>1. /\ h \in GLState /\ h.matrices = Append(InLights, "object")
      /\ h.target = "texture" /\ h.stencilTest = TRUE /\ h.program = FALSE
      /\ h.marking = FALSE /\ h.blend = "over" /\ h.color = "white" /\ h.texture = "light"
      /\ h.arrays = {"vertex", "tex"} /\ h.vertexPtr = "local" /\ h.texPtr = "local"
  BY Stacks, Pops DEF Rest, LightState, Push, GLState, Pointer, Matrix
<1> HIDE DEF h
<1>2. Suits("light", h)
  <2> DEFINE r == Intended["light"]
  <2>1. r = [target |-> "texture", stencilTest |-> TRUE, marking |-> FALSE,
             matrices |-> <<"identity", "layer", "identity", "layer", "object">>,
             program |-> FALSE, blend |-> "over", texture |-> "light",
             color |-> "white", arrays |-> {"vertex", "tex"}]
    BY DEF Intended
  <2> HIDE DEF r
  <2>2. DOMAIN r = {"target", "stencilTest", "marking", "matrices", "program", "blend",
                    "texture", "color", "arrays"}
    BY <2>1
  <2>3. /\ h["target"] = r["target"] /\ h["stencilTest"] = r["stencilTest"]
        /\ h["marking"] = r["marking"] /\ h["matrices"] = r["matrices"]
        /\ h["program"] = r["program"] /\ h["blend"] = r["blend"]
        /\ h["texture"] = r["texture"] /\ h["color"] = r["color"]
        /\ h["arrays"] = r["arrays"]
    BY <1>1, <2>1, Stacks
  <2>4. \A f \in DOMAIN r : h[f] = r[f]
    BY <2>2, <2>3, Zenon
  <2> QED  BY <1>1, <2>4 DEF Suits, r
<1>3. SubSeq(h.matrices, 1, Len(h.matrices) - 1) = InLights
  BY <1>1, Popped
<1>4. Rest(AfterLight(h), "texture", InLights) /\ AfterLight(h).texture = "off"
  BY <1>1, <1>3, Stacks DEF Rest, AfterLight, Return, Pop, GLState, Pointer
<1> QED  BY <1>1, <1>2, <1>4 DEF h

(* DrawFillShadow and UnbindFBO: the only use of another blend function.   *)
LEMMA FillFacts ==
  ASSUME NEW g, Rest(g, "texture", InLights), g.texture = "off"
  PROVE  /\ FillState(g) \in GLState /\ Suits("fill", FillState(g))
         /\ Rest(AfterFill(FillState(g)), "screen", InLayer)
         /\ AfterFill(FillState(g)).texture = "off"
<1> DEFINE h == FillState(g)
<1>1. /\ h \in GLState /\ h.matrices = InTexture
      /\ h.target = "texture" /\ h.stencilTest = FALSE /\ h.program = FALSE
      /\ h.blend = "fill" /\ h.color = "shadow" /\ h.texture = "off"
      /\ h.vertexPtr = "local"
      /\ "tex" \in h.arrays => h.texPtr = "buffer"
  <2>1. SubSeq(g.matrices, 1, Len(g.matrices) - 1) = InTexture
    <3>1. g.matrices = InLights
      BY DEF Rest
    <3> QED  BY <3>1, Popped
  <2> QED  BY <2>1, Stacks DEF Rest, FillState, Pop, GLState, Pointer
<1> HIDE DEF h
<1>2. Suits("fill", h)
  <2> DEFINE r == Intended["fill"]
  <2>1. r = [target |-> "texture", matrices |-> <<"identity", "layer", "identity">>,
             program |-> FALSE, stencilTest |-> FALSE, blend |-> "fill",
             texture |-> "off", color |-> "shadow"]
    BY DEF Intended
  <2> HIDE DEF r
  <2>2. DOMAIN r = {"target", "matrices", "program", "stencilTest", "blend", "texture",
                    "color"}
    BY <2>1
  <2>3. /\ h["target"] = r["target"] /\ h["matrices"] = r["matrices"]
        /\ h["program"] = r["program"] /\ h["stencilTest"] = r["stencilTest"]
        /\ h["blend"] = r["blend"] /\ h["texture"] = r["texture"]
        /\ h["color"] = r["color"]
    BY <1>1, <2>1 DEF InTexture
  <2>4. \A f \in DOMAIN r : h[f] = r[f]
    BY <2>2, <2>3, Zenon
  <2> QED  BY <1>1, <2>4 DEF Suits, r
<1>3. SubSeq(h.matrices, 1, Len(h.matrices) - 1) = InLayer
  BY <1>1, Popped
<1>4. Rest(AfterFill(h), "screen", InLayer) /\ AfterFill(h).texture = "off"
  <2> DEFINE k == [Pop(h) EXCEPT !.color = "white", !.blend = "over", !.target = "screen",
                                 !.arrays = @ \ {"vertex"}]
  <2>1. Rest(k, "screen", InLayer) /\ k.texture = "off"
    BY <1>1, <1>3, Stacks DEF Rest, Pop, GLState
  <2>2. AfterFill(h) = Return(k)
    BY DEF AfterFill
  <2> HIDE DEF k
  <2> QED  BY <2>1, <2>2, RestReturn
<1> QED  BY <1>1, <1>2, <1>4 DEF h

(* DrawRenderTexture: the texture stays on.                                *)
LEMMA CompositeFacts ==
  ASSUME NEW g, Rest(g, "screen", InLayer)
  PROVE  /\ CompositeState(g) \in GLState /\ Suits("composite", CompositeState(g))
         /\ Rest(AfterComposite(CompositeState(g)), "screen", InLayer)
<1> DEFINE h == CompositeState(g)
<1>1. /\ h \in GLState /\ h.matrices = Append(InLayer, "identity")
      /\ h.target = "screen" /\ h.stencilTest = FALSE /\ h.program = TRUE
      /\ h.blend = "over" /\ h.color = "white" /\ h.texture = "shadows"
      /\ h.arrays = {"vertex", "tex"} /\ h.vertexPtr = "local" /\ h.texPtr = "local"
  BY Stacks, Pops DEF Rest, CompositeState, Push, GLState, Pointer, Matrix
<1> HIDE DEF h
<1>2. Suits("composite", h)
  <2> DEFINE r == Intended["composite"]
  <2>1. r = [target |-> "screen", matrices |-> <<"identity", "layer", "identity">>,
             program |-> TRUE, stencilTest |-> FALSE, blend |-> "over",
             texture |-> "shadows", color |-> "white", arrays |-> {"vertex", "tex"}]
    BY DEF Intended
  <2> HIDE DEF r
  <2>2. DOMAIN r = {"target", "matrices", "program", "stencilTest", "blend", "texture",
                    "color", "arrays"}
    BY <2>1
  <2>3. /\ h["target"] = r["target"] /\ h["matrices"] = r["matrices"]
        /\ h["program"] = r["program"] /\ h["stencilTest"] = r["stencilTest"]
        /\ h["blend"] = r["blend"] /\ h["texture"] = r["texture"]
        /\ h["color"] = r["color"] /\ h["arrays"] = r["arrays"]
    BY <1>1, <2>1, Stacks DEF InTexture
  <2>4. \A f \in DOMAIN r : h[f] = r[f]
    BY <2>2, <2>3, Zenon
  <2> QED  BY <1>1, <2>4 DEF Suits, r
<1>3. SubSeq(h.matrices, 1, Len(h.matrices) - 1) = InLayer
  BY <1>1, Popped
<1>4. Rest(AfterComposite(h), "screen", InLayer)
  BY <1>1, <1>3, Stacks DEF Rest, AfterComposite, Return, Pop, GLState, Pointer
<1> QED  BY <1>1, <1>2, <1>4 DEF h

(* PhysicsDebugDrawer, and the end of GameLayer::Render.                   *)
LEMMA DebugFacts ==
  ASSUME NEW g, Rest(g, "screen", InLayer)
  PROVE  /\ DebugState(g) \in GLState /\ Suits("debug", DebugState(g))
         /\ Rest(Pop(AfterDebug(DebugState(g))), "screen", OnScreen)
         /\ Pop(AfterDebug(DebugState(g))).texture = "off"
<1> DEFINE h == DebugState(g)
<1>1. /\ h \in GLState /\ h.matrices = Append(InLayer, "metres")
      /\ h.target = "screen" /\ h.stencilTest = FALSE /\ h.program = FALSE
      /\ h.blend = "over" /\ h.color = "debug" /\ h.texture = "off"
      /\ h.vertexPtr = "local"
      /\ "tex" \in h.arrays => h.texPtr = "buffer"
  BY Stacks, Pops DEF Rest, DebugState, Push, GLState, Pointer, Matrix
<1> HIDE DEF h
<1>2. Suits("debug", h)
  <2> DEFINE r == Intended["debug"]
  <2>1. r = [target |-> "screen", matrices |-> <<"identity", "layer", "metres">>,
             program |-> FALSE, stencilTest |-> FALSE, blend |-> "over",
             texture |-> "off", color |-> "debug"]
    BY DEF Intended
  <2> HIDE DEF r
  <2>2. DOMAIN r = {"target", "matrices", "program", "stencilTest", "blend", "texture",
                    "color"}
    BY <2>1
  <2>3. /\ h["target"] = r["target"] /\ h["matrices"] = r["matrices"]
        /\ h["program"] = r["program"] /\ h["stencilTest"] = r["stencilTest"]
        /\ h["blend"] = r["blend"] /\ h["texture"] = r["texture"]
        /\ h["color"] = r["color"]
    BY <1>1, <2>1, Stacks
  <2>4. \A f \in DOMAIN r : h[f] = r[f]
    BY <2>2, <2>3, Zenon
  <2> QED  BY <1>1, <2>4 DEF Suits, r
<1>3. SubSeq(h.matrices, 1, Len(h.matrices) - 1) = InLayer
  BY <1>1, Popped
<1>4. Rest(AfterDebug(h), "screen", InLayer) /\ AfterDebug(h).texture = "off"
  <2> DEFINE k == [Pop(h) EXCEPT !.arrays = @ \ {"vertex"}, !.color = "white"]
  <2>1. Rest(k, "screen", InLayer) /\ k.texture = "off"
    BY <1>1, <1>3, Stacks DEF Rest, Pop, GLState
  <2>2. AfterDebug(h) = Return(k)
    BY DEF AfterDebug
  <2> HIDE DEF k
  <2> QED  BY <2>1, <2>2, RestReturn
<1>5. InLayer = Append(OnScreen, "layer") /\ OnScreen \in Seq(Matrix) /\ "layer" \in Matrix
  BY Stacks DEF Matrix
<1>6. Rest(Pop(AfterDebug(h)), "screen", OnScreen) /\ Pop(AfterDebug(h)).texture = "off"
  BY <1>4, <1>5, RestPop
<1> QED  BY <1>1, <1>2, <1>6 DEF h

(* BeginShadowLayer: BindFBO and the transforms.                           *)
LEMMA BeginFacts ==
  ASSUME NEW g, Rest(g, "screen", OnScreen)
  PROVE  LET h == Push(Push([Push(g, "layer") EXCEPT !.target = "texture", !.stencilTest = TRUE],
                            "identity"), "layer")
         IN  Rest(h, "texture", InLights) /\ h.texture = g.texture
<1> DEFINE a == Push(g, "layer")
           b == [a EXCEPT !.target = "texture", !.stencilTest = TRUE]
           c == Push(b, "identity")
<1>1. /\ "layer" \in Matrix /\ "identity" \in Matrix
      /\ OnScreen \in Seq(Matrix) /\ InLayer \in Seq(Matrix) /\ InTexture \in Seq(Matrix)
      /\ InLayer = Append(OnScreen, "layer")
      /\ InTexture = Append(InLayer, "identity")
      /\ InLights = Append(InTexture, "layer")
  BY Stacks DEF Matrix
<1>2. Rest(a, "screen", InLayer) /\ a.texture = g.texture
  BY <1>1, RestPush
<1> HIDE DEF a
<1>3. Rest(b, "texture", InLayer) /\ b.texture = g.texture
  BY <1>2 DEF Rest, GLState
<1> HIDE DEF b
<1>4. Rest(c, "texture", InTexture) /\ c.texture = g.texture
  BY <1>1, <1>3, RestPush
<1> HIDE DEF c
<1>5. Rest(Push(c, "layer"), "texture", InLights) /\ Push(c, "layer").texture = g.texture
  BY <1>1, <1>4, RestPush
<1> QED  BY <1>5 DEF a, b, c

-----------------------------------------------------------------------------
(* The inductive invariant of drawing: where the frame is decides what the *)
(* state of OpenGL is, and the last draw call had what it needs.           *)

Loading == {"new", "create", "frag", "vert", "prog", "link", "uniforms", "map", "player"}

FrameInv ==
  /\ at \in Loading \cup {"idle", "children", "shadowLayer"} =>
       Rest(gl, "screen", OnScreen) /\ gl.texture = "off"
  /\ at \in {"lights", "light"} => Rest(gl, "texture", InLights) /\ gl.texture = "off"
  /\ at \in {"composite", "foreground", "debug"} => Rest(gl, "screen", InLayer)
  /\ Suits(draw.what, draw.state)

LEMMA FrameInit == Init => FrameInv
BY RestInit DEF Init, RenderInit, FrameInv, Loading, GLInit

(* A map layer, drawn or not.                                              *)
LEMMA MapLayerFacts ==
  ASSUME NEW w, NEW g, Rest(g, "screen", InLayer), RenderMapLayer(w, g),
         Suits(draw.what, draw.state)
  PROVE  /\ Rest(AfterMapLayer(w, g), "screen", InLayer)
         /\ AfterMapLayer(w, g).texture \in {"off", g.texture}
         /\ Suits(draw'.what, draw'.state)
<1>1. CASE layers[w] = "none"
  <2>1. AfterMapLayer(w, g) = g /\ draw' = draw
    BY <1>1 DEF AfterMapLayer, RenderMapLayer
  <2> QED  BY <2>1
<1>2. CASE layers[w] = "made"
  <2>1. /\ AfterMapLayer(w, g) = AfterTiles(TilesState(g))
        /\ draw' = [what |-> "tiles", state |-> TilesState(g)]
    BY <1>2 DEF AfterMapLayer, RenderMapLayer, Drew
  <2>2. draw'.what = "tiles" /\ draw'.state = TilesState(g)
    BY <2>1
  <2> QED  BY <2>1, <2>2, TilesFacts
<1> QED  BY <1>1, <1>2 DEF RenderMapLayer

LEMMA FrameStep == FrameInv /\ [Next]_vars => FrameInv'
<1> SUFFICES ASSUME FrameInv, [Next]_vars PROVE FrameInv'
  OBVIOUS
<1>1. Suits(draw.what, draw.state)
  BY DEF FrameInv
<1>2. CASE NewShadowLayer \/ CreateShaders \/ CompileShaders \/ CreateProgram \/ LinkProgram
           \/ LoadLevel \/ NewPlayer
  <2>1. /\ UNCHANGED <<gl, draw>> /\ at \in Loading
        /\ at' \in Loading \cup {"idle", "threw"}
    BY <1>2 DEF NewShadowLayer, CreateShaders, CompileShaders, CompileShader, CreateProgram,
                LinkProgram, LoadLevel, NewPlayer, loadUnchanged, Loading, Stages
  <2> QED  BY <2>1 DEF FrameInv, Loading
<1>3. CASE SetUniforms
  <2>1. Rest(gl, "screen", OnScreen) /\ gl.texture = "off"
    BY <1>3 DEF SetUniforms, FrameInv, Loading
  <2>2. gl' = [gl EXCEPT !.program = FALSE] /\ at' = "map" /\ UNCHANGED draw
    BY <1>3 DEF SetUniforms
  <2>3. Rest(gl', "screen", OnScreen) /\ gl'.texture = "off"
    BY <2>1, <2>2 DEF Rest, GLState
  <2> QED  BY <1>1, <2>2, <2>3 DEF FrameInv, Loading
<1>4. CASE Update
  BY <1>4 DEF Update, renderVars, FrameInv
<1>5. CASE RenderBackgroundLayer
  <2>1. Rest(gl, "screen", OnScreen) /\ gl.texture = "off"
    BY <1>5 DEF RenderBackgroundLayer, FrameInv
  <2> DEFINE g == Push(gl, "layer")
  <2>2. Rest(g, "screen", InLayer) /\ g.texture = "off"
    <3>1. InLayer = Append(OnScreen, "layer") /\ OnScreen \in Seq(Matrix) /\ "layer" \in Matrix
      BY Stacks DEF Matrix
    <3> QED  BY <2>1, <3>1, RestPush
  <2> HIDE DEF g
  <2>3. CASE RenderMapLayer("bg", g) /\ gl' = Pop(AfterMapLayer("bg", g)) /\ at' = "children"
    <3>1. /\ Rest(AfterMapLayer("bg", g), "screen", InLayer)
          /\ AfterMapLayer("bg", g).texture = "off"
          /\ Suits(draw'.what, draw'.state)
      BY <1>1, <2>2, <2>3, MapLayerFacts
    <3>2. InLayer = Append(OnScreen, "layer") /\ OnScreen \in Seq(Matrix) /\ "layer" \in Matrix
      BY Stacks DEF Matrix
    <3>3. Rest(gl', "screen", OnScreen) /\ gl'.texture = "off"
      BY <2>3, <3>1, <3>2, RestPop
    <3> QED  BY <2>3, <3>1, <3>3 DEF FrameInv, Loading
  <2>4. CASE at' = "crashed" /\ UNCHANGED <<gl, draw>>
    BY <1>1, <2>4 DEF FrameInv, Loading
  <2> QED  BY <1>5, <2>3, <2>4 DEF RenderBackgroundLayer, NullArrays, g
<1>6. CASE RenderChildren
  <2>1. Rest(gl, "screen", OnScreen) /\ gl.texture = "off"
    BY <1>6 DEF RenderChildren, FrameInv
  <2>2. Rest(gl', "screen", OnScreen) /\ gl'.texture = "off"
    BY <1>6, <2>1 DEF RenderChildren, Rest, GLState, Pointer
  <2> QED  BY <1>1, <1>6, <2>2 DEF RenderChildren, FrameInv, Loading
<1>7. CASE BeginShadowLayer
  <2>1. Rest(gl, "screen", OnScreen) /\ gl.texture = "off"
    BY <1>7 DEF BeginShadowLayer, FrameInv
  <2>2. Rest(gl', "texture", InLights) /\ gl'.texture = "off"
    BY <1>7, <2>1, BeginFacts DEF BeginShadowLayer
  <2> QED  BY <1>1, <1>7, <2>2 DEF BeginShadowLayer, FrameInv, Loading
<1>8. CASE RenderShadows
  <2>1. Rest(gl, "texture", InLights) /\ gl.texture = "off"
    BY <1>8 DEF RenderShadows, FrameInv
  <2>2. /\ draw' = [what |-> "shadow", state |-> ShadowState(gl)]
        /\ gl' = AfterShadows(ShadowState(gl)) /\ at' \in {"light", "crashed"}
    BY <1>8 DEF RenderShadows, Drew
  <2>3. Rest(gl', "texture", InLights) /\ gl'.texture = "off" /\ Suits(draw'.what, draw'.state)
    BY <2>1, <2>2, ShadowFacts
  <2> QED  BY <2>2, <2>3 DEF FrameInv, Loading
<1>9. CASE SkipLight
  BY <1>9 DEF SkipLight, FrameInv
<1>10. CASE RenderLight
  <2>1. Rest(gl, "texture", InLights)
    BY <1>10 DEF RenderLight, FrameInv
  <2>2. /\ draw' = [what |-> "light", state |-> LightState(gl)]
        /\ gl' = AfterLight(LightState(gl)) /\ at' = "lights"
    BY <1>10 DEF RenderLight, Drew
  <2>3. Rest(gl', "texture", InLights) /\ gl'.texture = "off" /\ Suits(draw'.what, draw'.state)
    BY <2>1, <2>2, LightFacts
  <2> QED  BY <2>2, <2>3 DEF FrameInv, Loading
<1>11. CASE DrawFillShadow
  <2>1. Rest(gl, "texture", InLights) /\ gl.texture = "off"
    BY <1>11 DEF DrawFillShadow, FrameInv
  <2>2. /\ draw' = [what |-> "fill", state |-> FillState(gl)]
        /\ gl' = AfterFill(FillState(gl)) /\ at' = "composite"
    BY <1>11 DEF DrawFillShadow, Drew
  <2>3. Rest(gl', "screen", InLayer) /\ Suits(draw'.what, draw'.state)
    BY <2>1, <2>2, FillFacts
  <2> QED  BY <2>2, <2>3 DEF FrameInv, Loading
<1>12. CASE DrawRenderTexture
  <2>1. Rest(gl, "screen", InLayer)
    BY <1>12 DEF DrawRenderTexture, FrameInv
  <2>2. /\ draw' = [what |-> "composite", state |-> CompositeState(gl)]
        /\ gl' = AfterComposite(CompositeState(gl)) /\ at' = "foreground"
    BY <1>12 DEF DrawRenderTexture, Drew
  <2>3. Rest(gl', "screen", InLayer) /\ Suits(draw'.what, draw'.state)
    BY <2>1, <2>2, CompositeFacts
  <2> QED  BY <2>2, <2>3 DEF FrameInv, Loading
<1>13. CASE RenderForegroundLayer
  <2>1. Rest(gl, "screen", InLayer)
    BY <1>13 DEF RenderForegroundLayer, FrameInv
  <2>2. CASE RenderMapLayer("fg", gl) /\ gl' = AfterMapLayer("fg", gl) /\ at' = "debug"
    <3>1. Rest(gl', "screen", InLayer) /\ Suits(draw'.what, draw'.state)
      BY <1>1, <2>1, <2>2, MapLayerFacts
    <3> QED  BY <2>2, <3>1 DEF FrameInv, Loading
  <2>3. CASE at' = "crashed" /\ UNCHANGED <<gl, draw>>
    BY <1>1, <2>3 DEF FrameInv, Loading
  <2> QED  BY <1>13, <2>2, <2>3 DEF RenderForegroundLayer, NullArrays
<1>14. CASE DrawDebugData
  <2>1. Rest(gl, "screen", InLayer)
    BY <1>14 DEF DrawDebugData, FrameInv
  <2>2. /\ draw' = [what |-> "debug", state |-> DebugState(gl)]
        /\ gl' = Pop(AfterDebug(DebugState(gl))) /\ at' \in {"idle", "crashed"}
    BY <1>14 DEF DrawDebugData, Drew
  <2>3. Rest(gl', "screen", OnScreen) /\ gl'.texture = "off" /\ Suits(draw'.what, draw'.state)
    BY <2>1, <2>2, DebugFacts
  <2> QED  BY <2>2, <2>3 DEF FrameInv, Loading
<1>15. CASE DestroyGameLayer \/ DestroyPlayer
  <2>1. UNCHANGED draw /\ at' \in {"destroying", "deleted", "corrupted"}
    BY <1>15 DEF DestroyGameLayer, DestroyPlayer
  <2> QED  BY <1>1, <2>1 DEF FrameInv, Loading
<1>16. CASE UNCHANGED vars
  BY <1>16 DEF vars, renderVars, FrameInv
<1> QED
  BY <1>2, <1>3, <1>4, <1>5, <1>6, <1>7, <1>8, <1>9, <1>10, <1>11, <1>12, <1>13, <1>14,
     <1>15, <1>16
  DEF Next, RenderStep

(* Every draw call of every frame finds the target, transform, shader,     *)
(* stencil test, blending, texture and colour it is written for.           *)
THEOREM DrawingAsIntended == Spec => []DrawnAsIntended
<1>1. FrameInv => DrawnAsIntended
  BY DEF FrameInv, Suits, DrawnAsIntended
<1> QED  BY <1>1, FrameInit, FrameStep, PTL DEF Spec

(* No draw call reads an array that is gone.                               *)
THEOREM DrawingFromLiveMemory == Spec => []DrawsFromLiveMemory
<1>1. FrameInv => DrawsFromLiveMemory
  BY DEF FrameInv, Suits, DrawsFromLiveMemory
<1> QED  BY <1>1, FrameInit, FrameStep, PTL DEF Spec

-----------------------------------------------------------------------------
(* The inductive invariant of ownership: until the layer is deleted the    *)
(* objects that exist are exactly those a field, a map layer or the        *)
(* shadow layer will delete.  Before the level is loaded no layer has any. *)

Owned ==
  {s \in ShaderObjects : handle[s]} \cup {w \in Buffers : layers[w] = "made"}
    \cup (IF at = "new" THEN {} ELSE {"renderTexture"})

OwnInv ==
  /\ handle \in [ShaderObjects -> BOOLEAN]
  /\ at \in Loading \ {"player"} => layers = [w \in Buffers |-> "none"]
  /\ at \in {"new", "create"} => \A s \in ShaderObjects : ~ handle[s]
  /\ at \in {"frag", "vert", "prog"} => ~ handle["prog"]
  /\ at \notin {"destroying", "deleted", "corrupted"} => objects = Owned
  /\ at \in {"destroying", "deleted", "corrupted"} => objects = {}

LEMMA OwnInit == Init => OwnInv
BY DEF Init, OwnInv, Owned, Loading

LEMMA OwnStep == OwnInv /\ [Next]_vars => OwnInv'
<1> SUFFICES ASSUME OwnInv, [Next]_vars PROVE OwnInv'
  OBVIOUS
<1>1. CASE NewShadowLayer
  BY <1>1 DEF NewShadowLayer, loadUnchanged, sceneVars, OwnInv, Owned, Loading
<1>2. CASE CreateShaders
  <2> PICK made \in SUBSET Stages :
        /\ objects' = objects \cup made
        /\ handle' = [s \in ShaderObjects |-> s \in made]
        /\ at' = IF made = Stages THEN "frag" ELSE "threw"
    BY <1>2 DEF CreateShaders
  <2>1. at = "create" /\ layers' = layers
    BY <1>2 DEF CreateShaders, loadUnchanged, sceneVars
  <2>2. handle' \in [ShaderObjects -> BOOLEAN]
    <3>1. \A s \in ShaderObjects : (s \in made) \in BOOLEAN
      OBVIOUS
    <3> QED  BY <3>1, SMT
  <2>3. {s \in ShaderObjects : handle'[s]} = made
    BY DEF ShaderObjects
  <2>4. {s \in ShaderObjects : handle[s]} = {}
    BY <2>1 DEF OwnInv
  <2>5. objects' = Owned'
    BY <2>1, <2>3, <2>4 DEF OwnInv, Owned
  <2>6. at' \in {"frag", "threw"} /\ ~ handle'["prog"]
    BY DEF ShaderObjects, Stages
  <2> QED  BY <2>1, <2>2, <2>5, <2>6 DEF OwnInv, Loading
<1>3. CASE CompileShaders
  <2>1. at \in Stages /\ CompileShader(at) /\ layers' = layers
    BY <1>3 DEF CompileShaders, loadUnchanged, sceneVars
  <2>2. CASE UNCHANGED <<objects, handle>> /\ at' \in {"vert", "prog"}
    <3>1. objects = Owned /\ ~ handle["prog"] /\ at # "new" /\ layers = [w \in Buffers |-> "none"]
      BY <2>1 DEF OwnInv, Loading, Stages
    <3>2. objects' = Owned'
      BY <2>1, <2>2, <3>1 DEF Owned
    <3> QED  BY <2>1, <2>2, <3>1, <3>2 DEF OwnInv
  <2>3. CASE /\ objects' = objects \ {at} /\ handle' = [handle EXCEPT ![at] = FALSE]
             /\ at' = "threw"
    <3>1. at \in ShaderObjects /\ at \notin Buffers /\ at # "renderTexture" /\ at # "new"
      BY <2>1 DEF Stages, ShaderObjects, Buffers
    <3>2. {s \in ShaderObjects : handle'[s]} = {s \in ShaderObjects : handle[s]} \ {at}
      BY <2>3, <3>1 DEF OwnInv
    <3>3. objects = Owned
      BY <2>1 DEF OwnInv, Stages
    <3>4. objects' = Owned'
      BY <2>1, <2>3, <3>1, <3>2, <3>3 DEF Owned
    <3> QED  BY <2>3, <3>4 DEF OwnInv, Loading
  <2> QED  BY <2>1, <2>2, <2>3 DEF CompileShader, Stages
<1>4. CASE CreateProgram
  <2>1. at = "prog" /\ layers' = layers
    BY <1>4 DEF CreateProgram, loadUnchanged, sceneVars
  <2>2. CASE /\ objects' = objects \cup {"prog"} /\ handle' = [handle EXCEPT !["prog"] = TRUE]
             /\ at' = "link"
    <3>1. {s \in ShaderObjects : handle'[s]} = {s \in ShaderObjects : handle[s]} \cup {"prog"}
      BY <2>2 DEF OwnInv, ShaderObjects
    <3>2. objects' = Owned'
      BY <2>1, <2>2, <3>1 DEF OwnInv, Owned
    <3> QED  BY <2>1, <2>2, <3>2 DEF OwnInv, Loading
  <2>3. CASE at' = "threw" /\ UNCHANGED <<objects, handle>>
    BY <2>1, <2>3 DEF OwnInv, Owned, Loading
  <2> QED  BY <1>4, <2>2, <2>3 DEF CreateProgram
<1>5. CASE LinkProgram
  <2>1. at = "link" /\ layers' = layers
    BY <1>5 DEF LinkProgram, loadUnchanged, sceneVars
  <2>2. CASE at' = "uniforms" /\ UNCHANGED <<objects, handle>>
    BY <2>1, <2>2 DEF OwnInv, Owned, Loading
  <2>3. CASE /\ objects' = objects \ ShaderObjects /\ at' = "threw"
             /\ handle' = [s \in ShaderObjects |-> FALSE]
    <3>1. objects = Owned /\ "renderTexture" \notin ShaderObjects
      BY <2>1 DEF OwnInv, ShaderObjects, Stages
    <3>2. \A w \in Buffers : w \notin ShaderObjects
      BY DEF Buffers, ShaderObjects, Stages
    <3>3. objects' = Owned'
      BY <2>1, <2>3, <3>1, <3>2 DEF Owned
    <3> QED  BY <2>1, <2>3, <3>3 DEF OwnInv, Loading
  <2> QED  BY <1>5, <2>2, <2>3 DEF LinkProgram
<1>6. CASE SetUniforms \/ NewPlayer
  BY <1>6 DEF SetUniforms, NewPlayer, gameVars, sceneVars, OwnInv, Owned, Loading
<1>7. CASE LoadLevel
  <2>1. /\ at = "map" /\ at' = "player" /\ handle' = handle
        /\ objects' = objects \cup {w \in Buffers : layers'[w] = "made"}
    BY <1>7 DEF LoadLevel
  <2>2. {w \in Buffers : layers[w] = "made"} = {}
    BY <2>1 DEF OwnInv, Loading
  <2>3. objects' = Owned'
    BY <2>1, <2>2 DEF OwnInv, Owned
  <2> QED  BY <2>1, <2>3 DEF OwnInv, Loading
<1>8. CASE Update
  BY <1>8 DEF Update, renderVars, OwnInv, Owned, Loading
<1>9. CASE RenderStep /\ UNCHANGED gameVars
  <2>1. UNCHANGED <<objects, handle, layers>>
    BY <1>9 DEF RenderStep, gameVars, sceneVars, RenderBackgroundLayer, RenderChildren,
                BeginShadowLayer, RenderShadows, SkipLight, RenderLight, DrawFillShadow,
                DrawRenderTexture, RenderForegroundLayer, DrawDebugData
  <2>2. /\ at \in {"idle", "children", "shadowLayer", "lights", "light", "composite",
                   "foreground", "debug"}
        /\ at' \in {"idle", "children", "shadowLayer", "lights", "light", "composite",
                    "foreground", "debug", "crashed"}
    BY <1>9 DEF RenderStep, RenderBackgroundLayer, RenderChildren, NullArrays,
                BeginShadowLayer, RenderShadows, SkipLight, RenderLight, DrawFillShadow,
                DrawRenderTexture, RenderForegroundLayer, DrawDebugData
  <2> QED  BY <2>1, <2>2 DEF OwnInv, Owned, Loading
<1>10. CASE DestroyGameLayer
  <2>1. /\ at = "idle" /\ at' = "destroying" /\ UNCHANGED <<handle, layers>>
        /\ objects' = objects \ (ShaderDeletes \cup DestroyBuffers \cup {"renderTexture"})
    BY <1>10 DEF DestroyGameLayer, sceneVars
  <2>2. objects' = {}
    BY <2>1 DEF OwnInv, Owned, ShaderDeletes, DestroyBuffers
  <2> QED  BY <2>1, <2>2 DEF OwnInv, Loading
<1>11. CASE DestroyPlayer
  BY <1>11 DEF DestroyPlayer, gameVars, sceneVars, OwnInv, Loading
<1>12. CASE UNCHANGED vars
  BY <1>12 DEF vars, gameVars, renderVars, sceneVars, OwnInv, Owned
<1> QED
  BY <1>1, <1>2, <1>3, <1>4, <1>5, <1>6, <1>7, <1>8, <1>9, <1>10, <1>11, <1>12 DEF Next

(* However loading the shader ends, no field names an object that does not *)
(* exist, and a deleted layer leaves nothing in OpenGL.                    *)
THEOREM NothingLeftInOpenGL == Spec => []ObjectsOwned
<1>1. OwnInv => ObjectsOwned
  BY DEF OwnInv, Owned, ObjectsOwned
<1> QED  BY <1>1, OwnInit, OwnStep, PTL DEF Spec

-----------------------------------------------------------------------------
(* The inductive invariant of aiming: the player is where its body is, and *)
(* once the camera has followed it is drawn within a step of the centre.   *)

AimInv ==
  /\ updates \in 0 .. 2 /\ playerPos \in Int /\ layerPos \in Int /\ mouse \in Int
  /\ body = playerPos
  /\ at \in Loading => playerPos = 0
  /\ updates > 0 => playerPos + layerPos \in Centre - 1 .. Centre + 1
  /\ FacesTheMouse

LEMMA CentreType == Centre \in Int
BY RenderingAssumption DEF Centre

LEMMA AimInit == Init => AimInv
BY DEF Init, AimInv, FacesTheMouse

(* A frame moves the body by at most one.                                  *)
LEMMA OneStep ==
  ASSUME body \in Int, NEW b \in StepWorld({Velocity(a, d) : a, d \in BOOLEAN})
  PROVE  b \in Int /\ b - body \in -1 .. 1
<1>1. \A a, d \in BOOLEAN : Velocity(a, d) \in -1 .. 1
  BY DEF Velocity
<1>2. b = body \/ \E v \in {Velocity(a, d) : a, d \in BOOLEAN} : b = body + v
  BY DEF StepWorld
<1> QED  BY <1>1, <1>2

(* Two places within a step of the centre are within two of each other.    *)
LEMMA AimArithmetic ==
  \A c, m \in Int : \A now, then \in c - 1 .. c + 1 :
    /\ m > then + 2 => m - now >= 0
    /\ m < then - 2 => ~ (m - now >= 0)
OBVIOUS

LEMMA SumLess == \A p, l : p \in Int /\ l \in Int => p + l - 2 = (p + l) - 2
OBVIOUS

LEMMA AimStep == AimInv /\ [Next]_vars => AimInv'
<1> SUFFICES ASSUME AimInv, [Next]_vars PROVE AimInv'
  OBVIOUS
<1>1. CASE Update
  <2>1. /\ at = "idle" /\ at' = at /\ mouse' \in 0 .. ScreenWidth
        /\ rotation' = Aim(mouse', IF cameraFirst THEN Camera(playerPos) ELSE layerPos)
        /\ layerPos' = Camera(playerPos) /\ playerPos' = body'
        /\ updates' = IF updates < 2 THEN updates + 1 ELSE 2
    BY <1>1 DEF Update, renderVars
  <2>2. body' \in Int /\ body' - playerPos \in -1 .. 1
    BY <1>1, OneStep DEF Update, AimInv
  <2>3. /\ updates' \in 0 .. 2 /\ playerPos' \in Int /\ layerPos' \in Int /\ mouse' \in Int
        /\ playerPos' + layerPos' \in Centre - 1 .. Centre + 1
    <3>1. updates' \in 0 .. 2 /\ mouse' \in Int
      BY <2>1, RenderingAssumption DEF AimInv
    <3>2. layerPos' = Centre - playerPos /\ playerPos' = body' /\ playerPos \in Int
      BY <2>1 DEF Camera, AimInv
    <3>3. playerPos' + layerPos' = Centre + (body' - playerPos)
      BY <2>2, <3>2, CentreType
    <3>4. Centre + (body' - playerPos) \in Centre - 1 .. Centre + 1
      BY <2>2, CentreType
    <3>5. layerPos' \in Int /\ playerPos' \in Int
      BY <2>2, <3>2, CentreType
    <3> QED  BY <3>1, <3>3, <3>4, <3>5
  <2>4. FacesTheMouse'
    <3> SUFFICES ASSUME updates' = 2
                 PROVE  /\ mouse' > playerPos' + layerPos' + 2 => rotation' = "right"
                        /\ mouse' < playerPos' + layerPos' - 2 => rotation' = "left"
      BY DEF FacesTheMouse
    <3>1. PICK layer \in Int : /\ rotation' = Aim(mouse', layer)
                              /\ playerPos + layer \in Centre - 1 .. Centre + 1
      <4>1. playerPos + Camera(playerPos) = Centre /\ Camera(playerPos) \in Int
        BY CentreType DEF AimInv, Camera
      <4>2. playerPos + layerPos \in Centre - 1 .. Centre + 1 /\ layerPos \in Int
        BY <2>1 DEF AimInv
      <4>3. CASE cameraFirst
        <5>1. rotation' = Aim(mouse', Camera(playerPos))
          BY <2>1, <4>3
        <5> QED  BY <4>1, <5>1, CentreType
      <4>4. CASE ~ cameraFirst
        <5>1. rotation' = Aim(mouse', layerPos)
          BY <2>1, <4>4
        <5> QED  BY <4>2, <5>1
      <4> QED  BY <4>3, <4>4
    <3>2. PICK now \in Centre - 1 .. Centre + 1 : now = playerPos + layer
      BY <3>1
    <3>3. PICK then \in Centre - 1 .. Centre + 1 : then = playerPos' + layerPos'
      BY <2>3
    <3>4. PICK m \in Int : m = mouse'
      BY <2>3
    <3>5. rotation' = IF m - now >= 0 THEN "right" ELSE "left"
      BY <3>1, <3>2, <3>4 DEF Aim
    <3>6. /\ m > then + 2 => m - now >= 0
          /\ m < then - 2 => ~ (m - now >= 0)
      BY CentreType, AimArithmetic
    <3>7. (m > then + 2 => rotation' = "right") /\ (m < then - 2 => rotation' = "left")
      BY <3>5, <3>6
    <3>8. mouse' > playerPos' + layerPos' + 2 => m > then + 2
      BY <3>3, <3>4
    <3>9. mouse' < playerPos' + layerPos' - 2 => m < then - 2
      <4>1. playerPos' + layerPos' - 2 = (playerPos' + layerPos') - 2
        BY <2>3, SumLess
      <4> QED  BY <3>3, <3>4, <4>1
    <3> QED  BY <3>7, <3>8, <3>9
  <2> QED  BY <2>1, <2>3, <2>4 DEF AimInv, Loading
<1>2. CASE NewPlayer
  BY <1>2 DEF NewPlayer, sceneVars, AimInv, Loading, FacesTheMouse
<1>3. ASSUME UNCHANGED <<updates, playerPos, layerPos, mouse, body, rotation>>,
             at' \in Loading => at \in Loading
      PROVE  AimInv'
  BY <1>3 DEF AimInv, FacesTheMouse
<1>4. CASE NewShadowLayer \/ CreateShaders \/ CompileShaders \/ CreateProgram \/ LinkProgram
           \/ SetUniforms \/ LoadLevel
  <2>1. at \in Loading
    BY <1>4 DEF NewShadowLayer, CreateShaders, CompileShaders, CreateProgram, LinkProgram,
                SetUniforms, LoadLevel, Loading, Stages
  <2>2. UNCHANGED <<updates, playerPos, layerPos, mouse, body, rotation>>
    BY <1>4 DEF NewShadowLayer, CreateShaders, CompileShaders, CreateProgram, LinkProgram,
                SetUniforms, LoadLevel, loadUnchanged, sceneVars, gameVars
  <2> QED  BY <1>3, <2>1, <2>2
<1>5. CASE RenderStep /\ UNCHANGED gameVars
  <2>1. UNCHANGED <<updates, playerPos, layerPos, mouse, body, rotation>>
    BY <1>5 DEF RenderStep, gameVars, sceneVars, RenderBackgroundLayer, RenderChildren,
                BeginShadowLayer, RenderShadows, SkipLight, RenderLight, DrawFillShadow,
                DrawRenderTexture, RenderForegroundLayer, DrawDebugData
  <2>2. at' \notin Loading
    BY <1>5 DEF RenderStep, RenderBackgroundLayer, RenderChildren, NullArrays,
                BeginShadowLayer, RenderShadows, SkipLight, RenderLight, DrawFillShadow,
                DrawRenderTexture, RenderForegroundLayer, DrawDebugData, Loading
  <2> QED  BY <1>3, <2>1, <2>2
<1>6. CASE DestroyGameLayer \/ DestroyPlayer
  <2>1. /\ UNCHANGED <<updates, playerPos, layerPos, mouse, body, rotation>>
        /\ at' \in {"destroying", "deleted", "corrupted"}
    BY <1>6 DEF DestroyGameLayer, DestroyPlayer, gameVars, sceneVars
  <2> QED  BY <1>3, <2>1 DEF Loading
<1>7. CASE UNCHANGED vars
  BY <1>3, <1>7 DEF vars, gameVars, renderVars, sceneVars
<1> QED  BY <1>1, <1>2, <1>4, <1>5, <1>6, <1>7 DEF Next

(* Whichever of camera and player is updated first, the player is turned   *)
(* to the mouse unless the two are drawn within two steps of each other.   *)
THEOREM PlayerFacesMouse == Spec => []FacesTheMouse
<1>1. AimInv => FacesTheMouse
  BY DEF AimInv
<1> QED  BY <1>1, AimInit, AimStep, PTL DEF Spec

-----------------------------------------------------------------------------
(* The inductive invariant of the lights.  The caster's cached vertices    *)
(* are its rectangle at the place they were computed for; while lights are *)
(* drawn, nothing they depend on moves; those whose turn is to come have   *)
(* not lit a pixel, and the stencil is right for the one whose turn it is. *)

Near == worldPos - Threshold .. worldPos + Threshold

LightIsRight(l) ==
  \/ lit[l] = {} /\ ~ ShouldDrawLight(l)
  \/ \E w \in Near : ~ Outside(l, w)
  \/ \E w \in Near : lit[l] = Area(l) \ Behind(l, w)

ShadowIsRight(l) ==
  \/ \E w \in Near : ~ Outside(l, w)
  \/ \E w \in Near : Area(l) \ stencil = Area(l) \ Behind(l, w)

Placed ==
  /\ localVerts = {0, TileSize}
  /\ calcPos \in Places
  /\ globalVerts = {calcPos, calcPos + TileSize}

LightInv ==
  /\ worldPos \in Places /\ lit \in [{"lamp", "torch"} -> SUBSET Pixels]
  /\ at \notin Loading \ {"player"} => Placed \/ at = "threw"
  /\ at \in {"lights", "light"} =>
       /\ n \in Nat \ {0}
       /\ \A k \in 1 .. 2 : /\ k < n => LightIsRight(LightSources[k])
                            /\ k >= n => lit[LightSources[k]] = {}
  /\ at = "lights" => n <= 3
  /\ at = "light" => n <= 2 /\ ShadowIsRight(Source)

LEMMA MinIs ==
  ASSUME NEW S, S \subseteq Int, NEW m \in S, \A y \in S : m =< y
  PROVE  Min(S) = m
<1>1. \E x \in S : \A y \in S : x =< y
  OBVIOUS
<1>2. Min(S) \in S /\ \A y \in S : Min(S) =< y
  BY <1>1, Zenon DEF Min
<1>3. PICK x \in S : x = Min(S)
  BY <1>2
<1>4. x \in Int /\ m \in Int /\ x =< m /\ m =< x
  BY <1>2, <1>3
<1> QED  BY <1>3, <1>4

LEMMA MaxIs ==
  ASSUME NEW S, S \subseteq Int, NEW m \in S, \A y \in S : m >= y
  PROVE  Max(S) = m
<1>1. \E x \in S : \A y \in S : x >= y
  OBVIOUS
<1>2. Max(S) \in S /\ \A y \in S : Max(S) >= y
  BY <1>1, Zenon DEF Max
<1>3. PICK x \in S : x = Max(S)
  BY <1>2
<1>4. x \in Int /\ m \in Int /\ x >= m /\ m >= x
  BY <1>2, <1>3
<1> QED  BY <1>3, <1>4

(* GetShadowVertices: from a light beside it, the quad of a caster at g    *)
(* covers the caster and what is behind it, to the end of the level.       *)
LEMMA QuadCovers ==
  ASSUME NEW l, LightPos(l) \in Int, NEW g \in Places, Outside(l, g)
  PROVE  Covered(Quad(l, {g, g + TileSize})) = Behind(l, g)
<1> DEFINE p == LightPos(l)
           h == g + TileSize
           V == Quad(l, {g, h})
<1>0. p \in Int
  OBVIOUS
<1> HIDE DEF p
<1>1. /\ g \in Int /\ h \in Int /\ 0 <= g /\ g < h /\ h <= MaxPos /\ MaxPos \in Int
  BY CasterAssumption DEF Places
<1> HIDE DEF h
<1>2. V = {g, h, 1000 * (g - p), 1000 * (h - p)}
  BY DEF Quad, p
<1>3. V \subseteq Int
  BY <1>0, <1>1, <1>2
<1> HIDE DEF V
<1>4. \A x \in Pixels : x \in Int /\ 0 <= x /\ x + 1 <= MaxPos
  BY <1>1 DEF Pixels
<1>5. CASE 1000 * (g - p) >= MaxPos
  <2>1. Min(V) = g
    <3>1. g \in V /\ \A y \in V : g =< y
      BY <1>0, <1>1, <1>2, <1>5
    <3> QED  BY <1>3, <3>1, MinIs
  <2>2. Max(V) = 1000 * (h - p) /\ Max(V) >= MaxPos /\ Max(V) \in Int
    <3>1. /\ 1000 * (h - p) \in V /\ \A y \in V : 1000 * (h - p) >= y
          /\ 1000 * (h - p) >= MaxPos /\ 1000 * (h - p) \in Int
      BY <1>0, <1>1, <1>2, <1>5
    <3>2. PICK q \in V : q = 1000 * (h - p) /\ \A y \in V : q >= y
      BY <3>1
    <3>3. q \in V /\ \A y \in V : q >= y
      BY <3>2
    <3>4. Max(V) = q
      BY <1>3, <3>3, MaxIs
    <3> QED  BY <3>1, <3>2, <3>4
  <2>3. Covered(V) = {x \in Pixels : x >= g}
    BY <1>1, <1>4, <2>1, <2>2 DEF Covered
  <2>4. p < g
    BY <1>0, <1>1, <1>5
  <2> QED  BY <2>3, <2>4 DEF Behind, V, h, p
<1>6. CASE 1000 * (p - h) >= MaxPos
  <2>1. Min(V) <= 0 /\ Min(V) \in Int
    <3>1. /\ 1000 * (g - p) \in V /\ \A y \in V : 1000 * (g - p) =< y
          /\ 1000 * (g - p) <= 0 /\ 1000 * (g - p) \in Int
      BY <1>0, <1>1, <1>2, <1>6
    <3>2. PICK q \in V : q = 1000 * (g - p) /\ \A y \in V : q =< y
      BY <3>1
    <3>3. q \in V /\ \A y \in V : q =< y
      BY <3>2
    <3>4. Min(V) = q
      BY <1>3, <3>3, MinIs
    <3> QED  BY <3>1, <3>2, <3>4
  <2>2. Max(V) = h
    <3>1. h \in V /\ \A y \in V : h >= y
      BY <1>0, <1>1, <1>2, <1>6
    <3> QED  BY <1>3, <3>1, MaxIs
  <2>3. Covered(V) = {x \in Pixels : x < h}
    BY <1>1, <1>4, <2>1, <2>2 DEF Covered
  <2>4. ~ (p < g)
    BY <1>0, <1>1, <1>6
  <2> QED  BY <2>3, <2>4 DEF Behind, V, h, p
<1> QED  BY <1>5, <1>6 DEF Outside, h, p

(* A light that does not reach the caster lights nothing behind it.        *)
LEMMA MissedCaster ==
  ASSUME NEW l, LightPos(l) \in Int, GetLightRadius(l) \in Nat, worldPos \in Places,
         localVerts = {0, TileSize}, ~ WillLightHitCaster(l), Outside(l, worldPos)
  PROVE  Area(l) \ {} = Area(l) \ Behind(l, worldPos)
<1> DEFINE p == LightPos(l)
           r == GetLightRadius(l)
           w == worldPos
           h == worldPos + TileSize
<1>0. p \in Int /\ r \in Nat
  OBVIOUS
<1>1. w \in Int /\ h \in Int /\ w < h /\ TileSize \in Int /\ 0 < TileSize /\ MaxPos \in Nat \ {0}
  BY CasterAssumption DEF Places
<1>2. GetAABB = <<w, h>>
  <2>1. Min({0, TileSize}) = 0
    BY <1>1, MinIs
  <2>2. Max({0, TileSize}) = TileSize
    BY <1>1, MaxIs
  <2> QED  BY <1>1, <2>1, <2>2 DEF GetAABB
<1>3. p - r >= h \/ w >= p + r
  BY <1>0, <1>1, <1>2 DEF WillLightHitCaster, Overlaps
<1>4. \A x \in Area(l) : x \in Int /\ p - r <= x /\ x < p + r
  BY <1>0 DEF Area, Pixels
<1>5. CASE 1000 * (w - p) >= MaxPos
  <2>1. p < w /\ w >= p + r
    BY <1>0, <1>1, <1>3, <1>5
  <2>2. \A x \in Area(l) : ~ (x >= w)
    BY <1>0, <1>1, <1>4, <2>1
  <2> QED  BY <2>1, <2>2 DEF Behind
<1>6. CASE 1000 * (p - h) >= MaxPos
  <2>1. p > h /\ p - r >= h /\ ~ (p < w)
    BY <1>0, <1>1, <1>3, <1>6
  <2>2. \A x \in Area(l) : ~ (x < h)
    BY <1>0, <1>1, <1>4, <2>1
  <2> QED  BY <2>1, <2>2 DEF Behind
<1> QED  BY <1>5, <1>6 DEF Outside

LEMMA LightTypes ==
  ASSUME AimInv, NEW k \in 1 .. 2
  PROVE  /\ LightSources[k] \in {"lamp", "torch"}
         /\ \A j \in 1 .. 2 : LightSources[j] = LightSources[k] => j = k
         /\ LightPos(LightSources[k]) \in Int /\ GetLightRadius(LightSources[k]) \in Nat
<1>1. k = 1 \/ k = 2
  OBVIOUS
<1>2. LightSources[1] = "lamp" /\ LightSources[2] = "torch"
  BY DEF LightSources
<1>3. LampPos \in Int /\ playerPos \in Int /\ LampRadius \in Nat /\ TorchLength \in Nat
  BY RenderingAssumption, CasterAssumption DEF AimInv
<1> QED  BY <1>1, <1>2, <1>3 DEF LightPos, GetLightRadius

(* GetShadowShape: the vertices it returns are those of a place within the *)
(* threshold, whether it computes them or not.                             *)
LEMMA ShapeFacts ==
  ASSUME Placed, worldPos \in Places, GetShadowShape
  PROVE  /\ Placed' /\ UNCHANGED worldPos
         /\ calcPos' \in Near
<1>1. /\ worldPos \in Int /\ calcPos \in Int /\ Threshold \in Nat /\ TileSize \in Nat
      /\ UNCHANGED <<worldPos, localVerts>>
  BY CasterAssumption DEF Places, Placed, GetShadowShape
<1>2. CASE globalVerts = {} \/ IsPositionDirty
  <2>1. globalVerts' = {v + worldPos : v \in {0, TileSize}} /\ calcPos' = worldPos
    BY <1>2 DEF GetShadowShape, CalculateGlobalVertices, Placed
  <2>2. 0 + worldPos = worldPos /\ TileSize + worldPos = worldPos + TileSize
    BY <1>1
  <2>3. globalVerts' = {worldPos, worldPos + TileSize}
    BY <2>1, <2>2
  <2> QED  BY <1>1, <2>1, <2>3 DEF Placed, Near
<1>3. CASE ~ (globalVerts = {} \/ IsPositionDirty)
  <2>1. UNCHANGED <<globalVerts, calcPos>> /\ ~ (Distance(worldPos, calcPos) > Threshold)
    BY <1>3 DEF GetShadowShape, IsPositionDirty
  <2>2. calcPos \in Near
    BY <1>1, <2>1 DEF Distance, Near
  <2> QED  BY <1>1, <2>1, <2>2 DEF Placed
<1> QED  BY <1>2, <1>3

(* RenderShadows prepares the stencil for the light whose turn it is.      *)
LEMMA StencilFacts ==
  ASSUME AimInv, LightInv, RenderShadows
  PROVE  /\ Placed' /\ UNCHANGED worldPos
         /\ n \in 1 .. 2
         /\ ShadowIsRight(Source)'
<1>1. n \in 1 .. 2 /\ Placed /\ worldPos \in Places
  BY DEF RenderShadows, LightInv, LightSources, Loading
<1> DEFINE l == Source
<1>2. LightPos(l) \in Int /\ GetLightRadius(l) \in Nat
  BY <1>1, LightTypes DEF Source
<1>3. UNCHANGED <<n, playerPos, rotation>>
  BY DEF RenderShadows, sceneVars
<1>4. /\ Source' = Source /\ Area(l)' = Area(l) /\ LightPos(l)' = LightPos(l)
      /\ \A w : Behind(l, w)' = Behind(l, w) /\ Outside(l, w)' = Outside(l, w)
  BY <1>3 DEF Source, Area, LightPos, GetLightRadius, Behind, Outside
<1>5. CASE WillLightHitCaster(l)
  <2>1. GetShadowShape /\ stencil' = {} \cup Covered(Quad(l, globalVerts'))
    BY <1>5 DEF RenderShadows, Cleared
  <2>2. Placed' /\ UNCHANGED worldPos /\ calcPos' \in Near
    BY <1>1, <2>1, ShapeFacts
  <2>3. PICK g \in Places : g = calcPos'
    BY <2>2 DEF Placed
  <2>4. stencil' = Covered(Quad(l, {g, g + TileSize}))
    BY <2>1, <2>2, <2>3 DEF Placed
  <2>5. g \in Near' /\ g \in Near
    BY <2>2, <2>3 DEF Near
  <2>6. CASE Outside(l, g)
    <3>1. stencil' = Behind(l, g)
      BY <1>2, <2>4, <2>6, QuadCovers
    <3>2. Area(l)' \ stencil' = Area(l)' \ Behind(l, g)'
      BY <1>4, <3>1
    <3> QED  BY <1>1, <1>4, <2>2, <2>5, <3>2 DEF ShadowIsRight
  <2>7. CASE ~ Outside(l, g)
    BY <1>1, <1>4, <2>2, <2>5, <2>7 DEF ShadowIsRight
  <2> QED  BY <2>6, <2>7
<1>6. CASE ~ WillLightHitCaster(l)
  <2>1. stencil' = {} /\ UNCHANGED <<worldPos, localVerts, globalVerts, calcPos>>
    BY <1>6 DEF RenderShadows, Cleared, casterVars
  <2>2. Placed' /\ UNCHANGED worldPos
    BY <1>1, <2>1 DEF Placed
  <2>3. worldPos \in Near'
    BY <1>1, <2>1, CasterAssumption DEF Near, Places
  <2>4. CASE Outside(l, worldPos)
    <3>1. Area(l) \ {} = Area(l) \ Behind(l, worldPos)
      BY <1>1, <1>2, <1>6, <2>4, MissedCaster DEF Placed
    <3>2. Area(l)' \ stencil' = Area(l)' \ Behind(l, worldPos)'
      BY <1>4, <2>1, <3>1
    <3> QED  BY <1>1, <1>4, <2>1, <2>2, <2>3, <3>2 DEF ShadowIsRight
  <2>5. CASE ~ Outside(l, worldPos)
    BY <1>1, <1>4, <2>1, <2>2, <2>3, <2>5 DEF ShadowIsRight
  <2> QED  BY <2>4, <2>5
<1> QED  BY <1>5, <1>6

LEMMA LightInit == Init => LightInv
BY DEF Init, CasterInit, RenderInit, LightInv, Loading

(* A light that is right stays so as long as nothing moves.                *)
LEMMA StaysRight ==
  ASSUME NEW l, LightIsRight(l), lit'[l] = lit[l],
         UNCHANGED <<worldPos, playerPos, rotation, layerPos>>
  PROVE  LightIsRight(l)'
<1>1. /\ Area(l)' = Area(l) /\ ShouldDrawLight(l)' = ShouldDrawLight(l) /\ Near' = Near
      /\ \A w : Behind(l, w)' = Behind(l, w) /\ Outside(l, w)' = Outside(l, w)
  BY DEF Area, LightPos, GetLightRadius, ShouldDrawLight, Near, Behind, Outside
<1> QED  BY <1>1, Zenon DEF LightIsRight

LEMMA LightStep == AimInv /\ LightInv /\ [Next]_vars => LightInv'
<1> SUFFICES ASSUME AimInv, LightInv, [Next]_vars PROVE LightInv'
  OBVIOUS
<1>0. worldPos \in Places /\ lit \in [{"lamp", "torch"} -> SUBSET Pixels]
  BY DEF LightInv
<1>1. ASSUME UNCHANGED <<worldPos, lit, localVerts, globalVerts, calcPos>>,
             at' \notin {"lights", "light"},
             at' \in Loading \ {"player"} \/ at' = "threw" \/ at \notin Loading \ {"player"},
             at' # "threw" => at # "threw"
      PROVE  LightInv'
  BY <1>1 DEF LightInv, Placed
<1>2. CASE NewShadowLayer \/ CreateShaders \/ CompileShaders \/ CreateProgram \/ LinkProgram
           \/ SetUniforms \/ NewPlayer
  <2>1. UNCHANGED <<worldPos, lit, localVerts, globalVerts, calcPos>>
    BY <1>2 DEF NewShadowLayer, CreateShaders, CompileShaders, CreateProgram, LinkProgram,
                SetUniforms, NewPlayer, loadUnchanged, casterVars
  <2>2. \/ at' \in (Loading \ {"player"}) \cup {"threw"}
        \/ at = "player" /\ at' = "idle"
    <3>1. CASE NewShadowLayer \/ CreateShaders \/ CompileShaders
      BY <3>1 DEF NewShadowLayer, CreateShaders, CompileShaders, CompileShader, Loading, Stages
    <3>2. CASE CreateProgram \/ LinkProgram \/ SetUniforms
      BY <3>2 DEF CreateProgram, LinkProgram, SetUniforms, Loading
    <3>3. CASE NewPlayer
      BY <3>3 DEF NewPlayer
    <3> QED  BY <1>2, <3>1, <3>2, <3>3
  <2>3. at \in Loading
    BY <1>2 DEF NewShadowLayer, CreateShaders, CompileShaders, CreateProgram, LinkProgram,
                SetUniforms, NewPlayer, Loading, Stages
  <2> QED  BY <1>1, <2>1, <2>2, <2>3 DEF Loading
<1>3. CASE LoadLevel
  <2>1. /\ UNCHANGED <<worldPos, lit>> /\ localVerts' = {0, TileSize}
        /\ globalVerts' = {v + worldPos : v \in {0, TileSize}} /\ calcPos' = worldPos
        /\ at' = "player"
    BY <1>3 DEF LoadLevel, SetShadowRectangle, CalculateGlobalVertices
  <2>2. 0 + worldPos = worldPos /\ TileSize + worldPos = worldPos + TileSize
    BY <1>0, CasterAssumption DEF Places
  <2>3. globalVerts' = {worldPos, worldPos + TileSize}
    BY <2>1, <2>2
  <2> QED  BY <1>0, <2>1, <2>3 DEF LightInv, Placed
<1>4. CASE Update
  <2>1. /\ worldPos' \in Places /\ UNCHANGED <<lit, at, localVerts, globalVerts, calcPos>>
        /\ at = "idle"
    BY <1>4 DEF Update, MoveObject, renderVars
  <2> QED  BY <2>1 DEF LightInv, Placed, Loading
<1>5. CASE RenderBackgroundLayer \/ RenderChildren \/ DrawFillShadow \/ DrawRenderTexture
           \/ RenderForegroundLayer \/ DrawDebugData \/ DestroyGameLayer \/ DestroyPlayer
  <2>1. UNCHANGED <<worldPos, lit, localVerts, globalVerts, calcPos>>
    BY <1>5 DEF RenderBackgroundLayer, RenderChildren, DrawFillShadow, DrawRenderTexture,
                RenderForegroundLayer, DrawDebugData, DestroyGameLayer, DestroyPlayer, casterVars
  <2>2. /\ at \notin Loading /\ at # "threw" /\ at' # "threw"
        /\ at' \notin {"lights", "light"}
    BY <1>5 DEF RenderBackgroundLayer, RenderChildren, DrawFillShadow, DrawRenderTexture,
                RenderForegroundLayer, DrawDebugData, DestroyGameLayer, DestroyPlayer, NullArrays,
                Loading
  <2> QED  BY <1>1, <2>1, <2>2
<1>6. CASE BeginShadowLayer
  <2>1. /\ UNCHANGED <<worldPos, localVerts, globalVerts, calcPos>>
        /\ lit' = [l \in DOMAIN lit |-> {}] /\ n' = 1
        /\ at = "shadowLayer" /\ at' = "lights"
    BY <1>6 DEF BeginShadowLayer, casterVars
  <2>2. /\ lit' \in [{"lamp", "torch"} -> SUBSET Pixels]
        /\ \A k \in 1 .. 2 : lit'[LightSources[k]] = {}
    BY <1>0, <2>1, LightTypes
  <2>3. Placed'
    BY <2>1 DEF LightInv, Placed, Loading
  <2>4. \A k \in 1 .. 2 : ~ (k < n')
    BY <2>1
  <2> QED  BY <1>0, <2>1, <2>2, <2>3, <2>4 DEF LightInv
<1>7. CASE RenderShadows
  <2>1. /\ UNCHANGED <<lit, n, playerPos, rotation, layerPos>>
        /\ at = "lights" /\ at' \in {"light", "crashed"}
    BY <1>7 DEF RenderShadows, sceneVars
  <2>2. /\ Placed' /\ UNCHANGED worldPos /\ n \in 1 .. 2 /\ ShadowIsRight(Source)'
    BY <1>7, StencilFacts
  <2>3. ASSUME NEW k \in 1 .. 2
        PROVE  /\ k < n' => LightIsRight(LightSources[k])'
               /\ k >= n' => lit'[LightSources[k]] = {}
    <3>1. /\ k < n => LightIsRight(LightSources[k])
          /\ k >= n => lit[LightSources[k]] = {}
      BY <2>1 DEF LightInv
    <3> QED  BY <2>1, <2>2, <3>1, StaysRight DEF LightSources
  <2> QED  BY <1>0, <2>1, <2>2, <2>3 DEF LightInv, LightSources
<1>8. CASE SkipLight
  <2>1. /\ UNCHANGED <<worldPos, localVerts, globalVerts, calcPos, lit, at, playerPos, rotation,
                       layerPos>>
        /\ at = "lights" /\ n \in 1 .. 2 /\ n' = n + 1 /\ ~ ShouldDrawLight(Source)
    BY <1>8 DEF SkipLight, sceneVars, casterVars, LightInv, LightSources
  <2>2. LightIsRight(Source)
    BY <2>1 DEF LightInv, Source, LightIsRight
  <2>3. ASSUME NEW k \in 1 .. 2
        PROVE  /\ k < n' => LightIsRight(LightSources[k])'
               /\ k >= n' => lit'[LightSources[k]] = {}
    <3>1. /\ k < n => LightIsRight(LightSources[k])
          /\ k >= n => lit[LightSources[k]] = {}
      BY <2>1 DEF LightInv
    <3>2. k < n' => k < n \/ k = n
      BY <2>1
    <3>3. k >= n' => k >= n
      BY <2>1
    <3>4. k < n' => LightIsRight(LightSources[k])
      BY <2>2, <3>1, <3>2 DEF Source
    <3> QED  BY <2>1, <3>1, <3>3, <3>4, StaysRight DEF LightSources
  <2>4. Placed'
    BY <2>1 DEF LightInv, Placed, Loading
  <2>5. n' \in Nat \ {0} /\ n' <= 3
    BY <2>1
  <2> QED  BY <1>0, <2>1, <2>3, <2>4, <2>5 DEF LightInv, LightSources
<1>9. CASE RenderLight
  <2>1. /\ UNCHANGED <<worldPos, localVerts, globalVerts, calcPos, playerPos, rotation, layerPos>>
        /\ at = "light" /\ at' = "lights" /\ n \in 1 .. 2 /\ n' = n + 1
        /\ lit' = [lit EXCEPT ![Source] = Area(Source) \ stencil]
    BY <1>9 DEF RenderLight, sceneVars, casterVars, LightInv
  <2>2. Source \in {"lamp", "torch"} /\ Area(Source) \in SUBSET Pixels
    BY <2>1, LightTypes DEF Source, Area
  <2>3. /\ lit' \in [{"lamp", "torch"} -> SUBSET Pixels]
        /\ lit'[Source] = Area(Source) \ stencil
        /\ \A l \in {"lamp", "torch"} \ {Source} : lit'[l] = lit[l]
    BY <1>0, <2>1, <2>2
  <2>4. ShadowIsRight(Source)
    BY <2>1 DEF LightInv
  <2>5. ASSUME NEW k \in 1 .. 2
        PROVE  /\ k < n' => LightIsRight(LightSources[k])'
               /\ k >= n' => lit'[LightSources[k]] = {}
    <3>1. /\ k < n => LightIsRight(LightSources[k])
          /\ k >= n => lit[LightSources[k]] = {}
      BY <2>1 DEF LightInv
    <3>2. /\ LightSources[k] \in {"lamp", "torch"}
          /\ LightSources[k] = Source => k = n
      BY <2>1, LightTypes DEF Source
    <3>3. CASE k < n
      <4>1. LightSources[k] # Source
        BY <2>1, <3>2, <3>3
      <4>2. LightIsRight(LightSources[k])'
        BY <2>1, <2>3, <3>1, <3>2, <3>3, <4>1, StaysRight DEF LightSources
      <4> QED  BY <2>1, <3>3, <4>2
    <3>4. CASE k > n
      <4>1. LightSources[k] # Source
        BY <2>1, <3>2, <3>4
      <4>2. lit'[LightSources[k]] = {}
        BY <2>1, <2>3, <3>1, <3>2, <3>4, <4>1
      <4> QED  BY <2>1, <3>4, <4>2
    <3>5. CASE k = n
      <4> DEFINE l == LightSources[k]
      <4>1. l = Source
        BY <3>5 DEF Source
      <4>2. /\ Area(l)' = Area(l) /\ Near' = Near
            /\ \A w : Behind(l, w)' = Behind(l, w) /\ Outside(l, w)' = Outside(l, w)
        BY <2>1 DEF Area, LightPos, GetLightRadius, Near, Behind, Outside, LightSources
      <4>3. \/ \E w \in Near : ~ Outside(l, w)
            \/ \E w \in Near : lit'[l] = Area(l) \ Behind(l, w)
        BY <2>3, <2>4, <4>1, Zenon DEF ShadowIsRight
      <4>4. LightIsRight(l)'
        BY <4>2, <4>3, Zenon DEF LightIsRight, LightSources
      <4> QED  BY <2>1, <3>5, <4>4
    <3> QED  BY <2>1, <3>3, <3>4, <3>5
  <2>6. Placed'
    BY <2>1 DEF LightInv, Placed, Loading
  <2>7. n' \in Nat \ {0} /\ n' <= 3
    BY <2>1
  <2> QED  BY <1>0, <2>1, <2>3, <2>5, <2>6, <2>7 DEF LightInv
<1>10. CASE UNCHANGED vars
  <2>1. UNCHANGED <<worldPos, localVerts, globalVerts, calcPos, playerPos, rotation, layerPos,
                    at, n, lit, stencil>>
    BY <1>10 DEF vars, renderVars, sceneVars, casterVars
  <2>2. ASSUME NEW k \in 1 .. 2, LightIsRight(LightSources[k]) PROVE LightIsRight(LightSources[k])'
    BY <2>1, <2>2, StaysRight DEF LightSources
  <2>3. ShadowIsRight(Source) => ShadowIsRight(Source)'
    BY <2>1 DEF ShadowIsRight, Source, Near, Area, LightPos, GetLightRadius, Behind, Outside
  <2> QED  BY <2>1, <2>2, <2>3 DEF LightInv, Placed, LightSources
<1> QED
  BY <1>2, <1>3, <1>4, <1>5, <1>6, <1>7, <1>8, <1>9, <1>10 DEF Next, RenderStep

(* Whatever the other lights' shadows have set in the stencil, and         *)
(* wherever the caster stood when its vertices were last computed, each    *)
(* light lights exactly what the caster does not hide from it.             *)
THEOREM LightsStopAtShadows == Spec => []LitUnlessShadowed
<1>1. LightInv => LitUnlessShadowed
  <2> SUFFICES ASSUME LightInv, at = "lights", NEW k \in 1 .. n - 1
               PROVE  LightIsRight(LightSources[k])
    BY DEF LitUnlessShadowed, LightIsRight, Near
  <2>1. n \in Nat /\ n <= 3
    BY DEF LightInv
  <2>2. k \in 1 .. 2 /\ k < n
    BY <2>1
  <2> QED  BY <2>2 DEF LightInv
<1> QED  BY <1>1, AimInit, AimStep, LightInit, LightStep, PTL DEF Spec
=============================================================================
