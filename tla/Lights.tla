------------------------------- MODULE Lights -------------------------------
(***************************************************************************)
(* LightSource, the LightTexture all of them share, and ShadowLayer, which *)
(* lists the light sources and shadow casters it draws: what is created,   *)
(* retained, registered and deleted.  Lights come from GameLayer::AddLight *)
(* and Player's constructor; after that the members of LightSource and the *)
(* Add and Remove methods of ShadowLayer may be called in any order, but   *)
(* "deleted instances are removed from the ShadowLayer" first.             *)
(***************************************************************************)
EXTENDS Naturals, Sequences, FiniteSets

CONSTANTS
  Sources,      \* the LightSources that are ever made
  Casters,      \* the ShadowCasters that are ever made
  Textures,     \* custom textures
  MaxRetains,   \* bound: how often one of them is retained
  MaxListed,    \* bound: entries of ShadowLayer's lists
  NULL

ASSUME LightsAssumption ==
  /\ IsFiniteSet(Sources)
  /\ MaxRetains \in Nat /\ MaxListed \in Nat
  /\ NULL \notin Textures

VARIABLES
  source,         \* each LightSource: "none", "live" or "deleted"
  caster,         \* each ShadowCaster: the same
  texture,        \* LightSource::_texture
  sharedTexture,  \* LightSource::_sharedTexture is set
  radius,         \* LightSource::_properties.radius: 0, the distance that was
                  \* set, or the width of the texture
  refs,           \* LightTexture::_refs
  renderTexture,  \* LightTexture::_renderTexture: NULL, or "live" or "freed"
                  \* memory
  retains,        \* each custom texture's own count (trutle)       (external)
  lightSources,   \* ShadowLayer::_lightSources
  shadowCasters,  \* ShadowLayer::_shadowCasters
  corrupted       \* has memory been used that must not be?

lightVars == <<source, texture, sharedTexture, radius, refs, renderTexture, retains>>
listVars  == <<caster, lightSources, shadowCasters>>
vars      == <<lightVars, listVars, corrupted>>

Elements(s) == {s[k] : k \in 1 .. Len(s)}

TypeOK ==
  /\ source \in [Sources -> {"none", "live", "deleted"}]
  /\ caster \in [Casters -> {"none", "live", "deleted"}]
  /\ texture \in [Sources -> Textures \cup {NULL}]
  /\ sharedTexture \in [Sources -> BOOLEAN]
  /\ radius \in [Sources -> {"zero", "distance", "width"}]
  /\ refs \in Nat
  /\ renderTexture \in {NULL, "live", "freed"}
  /\ retains \in [Textures -> Nat]
  /\ lightSources \in Seq(Sources)
  /\ shadowCasters \in Seq(Casters)
  /\ corrupted \in BOOLEAN

Init ==
  /\ source = [l \in Sources |-> "none"]
  /\ caster = [c \in Casters |-> "none"]
  /\ texture = [l \in Sources |-> NULL]
  /\ sharedTexture = [l \in Sources |-> FALSE]
  /\ radius = [l \in Sources |-> "zero"]
  /\ refs = 0
  /\ renderTexture = NULL
  /\ retains = [t \in Textures |-> 0]
  /\ lightSources = <<>>
  /\ shadowCasters = <<>>
  /\ corrupted = FALSE

-----------------------------------------------------------------------------
(* LightTexture                                                            *)

(* GetSharedTexture creates the texture if there is no pointer to one.     *)
GetSharedTexture(rt) == IF rt = NULL THEN "live" ELSE rt

(* ReleaseSharedTexture: the count after it ...                            *)
Released(r) == IF r > 0 THEN r - 1 ELSE 0

(* ... and the texture: with no references left it is deleted, and the     *)
(* pointer is not reset.                                                   *)
TextureAfter(r, rt) == IF r = 0 /\ rt # NULL THEN "freed" ELSE rt

(* Deleting what is deleted already.                                       *)
DoubleDelete(r, rt) == r = 0 /\ rt = "freed"

-----------------------------------------------------------------------------
(* LightSource.  SetLightProperties of a source l that holds, or does not  *)
(* yet hold, the shared texture: UseSharedTexture.                         *)

(* Mutant: retained again by a source that already uses it.                *)
UseSharedTextureAgain(l) ==
  /\ texture' = [texture EXCEPT ![l] = NULL]
  /\ sharedTexture' = [sharedTexture EXCEPT ![l] = TRUE]
  /\ renderTexture' = GetSharedTexture(renderTexture)
  /\ refs' = refs + 1

(* The custom texture is forgotten, without Release.                       *)
UseSharedTexture(l) ==
  /\ texture' = [texture EXCEPT ![l] = NULL]
  /\ IF sharedTexture[l]
     THEN UNCHANGED <<sharedTexture, renderTexture, refs>>
     ELSE /\ sharedTexture' = [sharedTexture EXCEPT ![l] = TRUE]
          /\ renderTexture' = GetSharedTexture(renderTexture)
          /\ refs' = refs + 1

(* Mutant: the radius of the texture is kept.                              *)
SetLightPropertiesKeepsRadius(l) ==
  /\ source[l] = "live"
  /\ UseSharedTexture(l)
  /\ UNCHANGED <<source, radius, retains, listVars, corrupted>>

SetLightProperties(l) ==
  /\ source[l] = "live"
  /\ radius' = [radius EXCEPT ![l] = "distance"]
  /\ UseSharedTexture(l)
  /\ UNCHANGED <<source, retains, listVars, corrupted>>

ReleaseSharedTexture(l) ==
  IF sharedTexture[l]
  THEN /\ refs' = Released(refs)
       /\ renderTexture' = TextureAfter(refs', renderTexture)
       /\ corrupted' = (corrupted \/ DoubleDelete(refs', renderTexture))
       /\ sharedTexture' = [sharedTexture EXCEPT ![l] = FALSE]
  ELSE UNCHANGED <<refs, renderTexture, corrupted, sharedTexture>>

(* Mutant: the new texture is not retained.                                *)
SetTextureUnretained(l, t) ==
  /\ source[l] = "live"
  /\ retains[t] < MaxRetains
  /\ ReleaseSharedTexture(l)
  /\ texture' = [texture EXCEPT ![l] = t]
  /\ radius' = [radius EXCEPT ![l] = "width"]
  /\ UNCHANGED <<source, retains, listVars>>

(* The texture it had before is not released.                              *)
SetTexture(l, t) ==
  /\ source[l] = "live"
  /\ retains[t] < MaxRetains
  /\ ReleaseSharedTexture(l)
  /\ texture' = [texture EXCEPT ![l] = t]
  /\ retains' = [retains EXCEPT ![t] = @ + 1]
  /\ radius' = [radius EXCEPT ![l] = "width"]
  /\ UNCHANGED <<source, listVars>>

-----------------------------------------------------------------------------
(* GameLayer::AddLight: a new source, SetLightProperties, AddLightSource.  *)
AddLight(l) ==
  /\ source[l] = "none"
  /\ Len(lightSources) < MaxListed
  /\ source' = [source EXCEPT ![l] = "live"]
  /\ radius' = [radius EXCEPT ![l] = "distance"]
  /\ UseSharedTexture(l)
  /\ lightSources' = Append(lightSources, l)
  /\ UNCHANGED <<retains, caster, shadowCasters, corrupted>>

(* Player's constructor sets properties and then a texture: the shared     *)
(* texture is fetched, retained and released at once.  GameLayer registers *)
(* the source.                                                             *)
NewPlayer(l, t) ==
  /\ source[l] = "none"
  /\ retains[t] < MaxRetains
  /\ Len(lightSources) < MaxListed
  /\ source' = [source EXCEPT ![l] = "live"]
  /\ refs' = Released(refs + 1)
  /\ renderTexture' = TextureAfter(refs', GetSharedTexture(renderTexture))
  /\ corrupted' = (corrupted \/ DoubleDelete(refs', renderTexture))
  /\ texture' = [texture EXCEPT ![l] = t]
  /\ retains' = [retains EXCEPT ![t] = @ + 1]
  /\ radius' = [radius EXCEPT ![l] = "width"]
  /\ lightSources' = Append(lightSources, l)
  /\ UNCHANGED <<sharedTexture, caster, shadowCasters>>

-----------------------------------------------------------------------------
(* ShadowLayer's lists.                                                    *)

(* A list of which the entries at the indices `kept' are left, in their    *)
(* order: the j-th of them is the one with j kept indices up to it.        *)
Rank(kept, k) == Cardinality({i \in kept : i <= k})

Keep(list, kept) ==
  [j \in 1 .. Cardinality(kept) |-> list[CHOOSE k \in kept : Rank(kept, k) = j]]

AddLightSource(l) ==
  /\ source[l] = "live"
  /\ Len(lightSources) < MaxListed
  /\ lightSources' = Append(lightSources, l)
  /\ UNCHANGED <<lightVars, caster, shadowCasters, corrupted>>

(* RemoveLightSource walks _lightSources, but until it has passed as many  *)
(* entries as _shadowCasters has: what lies behind is not looked at, and   *)
(* if there are fewer it reads, and may erase, behind the vector's end.    *)
RemoveLightSource(l) ==
  LET Others(k) == Cardinality({j \in 1 .. k : lightSources[j] # l})
      walk      == Len(shadowCasters)
      kept      == {k \in 1 .. Len(lightSources) :
                      lightSources[k] # l \/ Others(k - 1) >= walk}
  IN  \/ /\ lightSources' = Keep(lightSources, kept)
         /\ UNCHANGED corrupted
      \/ /\ Others(Len(lightSources)) < walk
         /\ corrupted' = TRUE
         /\ UNCHANGED lightSources

AddShadowCaster(c) ==
  /\ caster[c] # "deleted"
  /\ Len(shadowCasters) < MaxListed
  /\ caster' = [caster EXCEPT ![c] = "live"]
  /\ shadowCasters' = Append(shadowCasters, c)
  /\ UNCHANGED <<lightVars, lightSources, corrupted>>

(* Mutant: no i-- after the erase.                                         *)
RemoveShadowCasterSkips(c) ==
  LET skipped(k) == k > 1 /\ shadowCasters[k - 1] = c /\ (k = 2 \/ shadowCasters[k - 2] # c)
  IN  shadowCasters' =
        Keep(shadowCasters, {k \in 1 .. Len(shadowCasters) : shadowCasters[k] # c \/ skipped(k)})

(* RemoveShadowCaster: every entry, the index adjusted after each erase.   *)
RemoveShadowCaster(c) ==
  shadowCasters' =
    Keep(shadowCasters, {k \in 1 .. Len(shadowCasters) : shadowCasters[k] # c})

-----------------------------------------------------------------------------
(* Deletion, "removed from the ShadowLayer" first.                         *)

(* Mutant: the custom texture is released here and once more by the source.*)
DeleteTexturesTwice(l) ==
  /\ source' = [source EXCEPT ![l] = "deleted"]
  /\ IF sharedTexture[l]
     THEN /\ refs' = Released(refs)
          /\ renderTexture' = TextureAfter(refs', renderTexture)
          /\ sharedTexture' = [sharedTexture EXCEPT ![l] = FALSE]
     ELSE UNCHANGED <<refs, renderTexture, sharedTexture>>
  /\ retains' = IF texture[l] = NULL THEN retains
                ELSE [retains EXCEPT ![texture[l]] = @ - 2]
  /\ UNCHANGED <<texture, radius>>

(* ~LightSource                                                            *)
DeleteTextures(l) ==
  /\ source' = [source EXCEPT ![l] = "deleted"]
  /\ IF sharedTexture[l]
     THEN /\ refs' = Released(refs)
          /\ renderTexture' = TextureAfter(refs', renderTexture)
          /\ sharedTexture' = [sharedTexture EXCEPT ![l] = FALSE]
     ELSE UNCHANGED <<refs, renderTexture, sharedTexture>>
  /\ retains' = IF texture[l] = NULL THEN retains
                ELSE [retains EXCEPT ![texture[l]] = @ - 1]
  /\ UNCHANGED <<texture, radius>>

DeleteSource(l) ==
  /\ source[l] = "live"
  /\ DeleteTextures(l)
  /\ IF sharedTexture[l] /\ DoubleDelete(refs', renderTexture)
     THEN corrupted' = TRUE /\ UNCHANGED lightSources
     ELSE RemoveLightSource(l)
  /\ UNCHANGED <<caster, shadowCasters>>

DeleteCaster(c) ==
  /\ caster[c] = "live"
  /\ caster' = [caster EXCEPT ![c] = "deleted"]
  /\ RemoveShadowCaster(c)
  /\ UNCHANGED <<lightVars, lightSources, corrupted>>

(* Render reads every listed source, and RenderLight the texture it is     *)
(* drawn with ...                                                          *)
DanglingSource ==
  \E l \in Elements(lightSources) :
    source[l] = "deleted" \/ (sharedTexture[l] /\ renderTexture = "freed")

(* ... and GetShadowVertices, for every source that is drawn, every listed *)
(* caster.                                                                 *)
DanglingCaster ==
  lightSources # <<>> /\ \E c \in Elements(shadowCasters) : caster[c] = "deleted"

(* A frame in which one of them is gone; others change nothing here.       *)
Render ==
  /\ DanglingSource \/ DanglingCaster
  /\ corrupted' = TRUE
  /\ UNCHANGED <<lightVars, listVars>>

-----------------------------------------------------------------------------
Step ==
  \/ \E l \in Sources :
       \/ AddLight(l) \/ SetLightProperties(l) \/ AddLightSource(l) \/ DeleteSource(l)
       \/ \E t \in Textures : NewPlayer(l, t) \/ SetTexture(l, t)
  \/ \E c \in Casters : AddShadowCaster(c) \/ DeleteCaster(c)
  \/ Render

(* Once memory is corrupted nothing more is said.                          *)
Next == ~ corrupted /\ Step

Spec == Init /\ [][Next]_vars

-----------------------------------------------------------------------------
(* Properties.                                                             *)

Users == {l \in Sources : sharedTexture[l]}

(* LightTexture::_refs is the number of sources that use the shared        *)
(* texture, whatever sequence of properties, textures and deletions they   *)
(* have gone through.                                                      *)
RefsCountUsers ==
  ~ corrupted =>
    /\ refs = Cardinality(Users)
    /\ \A l \in Users : source[l] = "live"

Showing(t) == {l \in Sources : source[l] = "live" /\ texture[l] = t}

(* A custom texture is retained at least as often as live sources show it, *)
(* so that none of them outlives its texture.                              *)
TexturesRetained == \A t \in Textures : retains[t] >= Cardinality(Showing(t))

(* A source is drawn with what its radius, by which shadows and culling go,*)
(* was taken from: the shared texture and the distance that was set, or a  *)
(* custom texture and its width; never both.                               *)
DrawnAsMeasured ==
  \A l \in Sources :
    source[l] = "live" =>
      \/ sharedTexture[l] /\ texture[l] = NULL /\ radius[l] = "distance"
      \/ ~ sharedTexture[l] /\ texture[l] # NULL /\ radius[l] = "width"

(* "It's important that deleted instances are removed from the             *)
(* ShadowLayer": no list entry of a caster outlives it, however often it   *)
(* was added.                                                              *)
ListedCastersLive == \A c \in Elements(shadowCasters) : caster[c] = "live"
=============================================================================
