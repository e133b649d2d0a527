---------------------------- MODULE LightsProofs ----------------------------
(***************************************************************************)
(* What holds of Lights for every finite set of sources and any casters,   *)
(* textures and bounds.                                                    *)
(***************************************************************************)
EXTENDS Lights, FiniteSetTheorems, TLAPS

-----------------------------------------------------------------------------
(* Lemmas about the lists: what erasing entries leaves.                    *)

(* Each of the first Cardinality(kept) numbers is the rank of a kept       *)
(* index: ranks of different indices differ, and there are as many of them.*)
LEMMA RankOnto ==
  ASSUME NEW n \in Nat, NEW kept \in SUBSET (1 .. n)
  PROVE  /\ Cardinality(kept) \in Nat
         /\ \A j \in 1 .. Cardinality(kept) : \E k \in kept : Rank(kept, k) = j
<1> DEFINE Upto(k) == {i \in kept : i <= k}
           m       == Cardinality(kept)
           f       == [k \in kept |-> Rank(kept, k)]
<1>1. IsFiniteSet(kept) /\ m \in Nat
  <2>1. 1 \in Int /\ n \in Int
    OBVIOUS
  <2>2. IsFiniteSet(1 .. n)
    BY <2>1, FS_Interval
  <2> QED  BY <2>2, FS_Subset, FS_CardinalityType
<1>2. ASSUME NEW k \in kept
      PROVE  IsFiniteSet(Upto(k)) /\ Rank(kept, k) \in 1 .. m
  <2>1. IsFiniteSet(Upto(k)) /\ Cardinality(Upto(k)) <= m
    BY <1>1, FS_Subset
  <2>2. Cardinality(Upto(k)) \in Nat
    BY <2>1, FS_CardinalityType
  <2>3. k \in Upto(k)
    OBVIOUS
  <2>4. Cardinality(Upto(k)) # 0
    BY <2>1, <2>3, FS_EmptySet
  <2> QED  BY <1>1, <2>1, <2>2, <2>4 DEF Rank
<1>3. ASSUME NEW k \in kept, NEW l \in kept, k < l
      PROVE  Rank(kept, k) # Rank(kept, l)
  <2>1. Upto(k) \in SUBSET Upto(l)
    <3>1. k \in Int /\ l \in Int /\ \A i \in kept : i \in Int
      OBVIOUS
    <3>2. \A i \in kept : i <= k => i <= l
      BY <1>3, <3>1
    <3> QED  BY <3>2, Zenon
  <2>2. l \in Upto(l) /\ l \notin Upto(k)
    BY <1>3
  <2>3. IsFiniteSet(Upto(l))
    BY <1>2
  <2>4. Cardinality(Upto(l)) # Cardinality(Upto(k))
    BY <2>1, <2>2, <2>3, FS_Subset
  <2> QED  BY <2>4 DEF Rank
<1>4. f \in Injection(kept, 1 .. m)
  <2>1. f \in [kept -> 1 .. m]
    BY <1>2
  <2>2. ASSUME NEW k \in kept, NEW l \in kept, f[k] = f[l] PROVE k = l
    BY <2>2, <1>3
  <2> QED  BY <2>1, <2>2 DEF Injection, IsInjective
<1>5. IsFiniteSet(1 .. m) /\ Cardinality(1 .. m) = m
  BY <1>1, FS_Interval
<1>6. f \in Surjection(kept, 1 .. m)
  BY <1>4, <1>5, FS_Injection
<1> QED  BY <1>1, <1>6 DEF Surjection

(* Erasing keeps entries of the list, those at the kept indices only.      *)
LEMMA KeepFacts ==
  ASSUME NEW S, NEW list \in Seq(S), NEW kept \in SUBSET (1 .. Len(list))
  PROVE  /\ Keep(list, kept) \in Seq(S)
         /\ \A e \in Elements(Keep(list, kept)) : \E k \in kept : e = list[k]
<1> DEFINE m == Cardinality(kept)
<1>1. m \in Nat /\ \A j \in 1 .. m : \E k \in kept : Rank(kept, k) = j
  <2>1. Len(list) \in Nat
    OBVIOUS
  <2> QED  BY <2>1, RankOnto
<1>2. \A j \in 1 .. m : \E k \in kept : Keep(list, kept)[j] = list[k]
  BY <1>1 DEF Keep
<1>3. \A k \in kept : list[k] \in S
  OBVIOUS
<1>4. Keep(list, kept) \in Seq(S) /\ Len(Keep(list, kept)) = m
  <2>1. Keep(list, kept) \in [1 .. m -> S]
    <3>1. \A j \in 1 .. m : Keep(list, kept)[j] \in S
      BY <1>2, <1>3
    <3> QED  BY <3>1 DEF Keep
  <2> QED  BY <1>1, <2>1
<1> QED  BY <1>2, <1>4 DEF Elements

(* What push_back does.                                                    *)
LEMMA AppendFacts ==
  ASSUME NEW S, NEW s \in Seq(S), NEW e \in S
  PROVE  /\ Append(s, e) \in Seq(S)
         /\ Elements(Append(s, e)) = Elements(s) \cup {e}
<1>1. Append(s, e) \in Seq(S) /\ Len(Append(s, e)) = Len(s) + 1
  OBVIOUS
<1>2. \A k \in 1 .. Len(s) : Append(s, e)[k] = s[k]
  OBVIOUS
<1>3. Append(s, e)[Len(s) + 1] = e /\ Len(s) \in Nat
  OBVIOUS
<1>4. 1 .. Len(s) + 1 = (1 .. Len(s)) \cup {Len(s) + 1}
  BY <1>3
<1> QED  BY <1>1, <1>2, <1>3, <1>4 DEF Elements

-----------------------------------------------------------------------------
(* Lemmas about counting users.                                            *)

LEMMA CountFacts ==
  ASSUME NEW S, NEW T, NEW x, IsFiniteSet(S), T \subseteq S \cup {x}
  PROVE  /\ Cardinality(S) \in Nat /\ Cardinality(T) \in Nat
         /\ Cardinality(T) <= Cardinality(S) + 1
         /\ T \subseteq S => Cardinality(T) <= Cardinality(S)
<1>1. IsFiniteSet(S \cup {x}) /\ Cardinality(S) \in Nat
      /\ Cardinality(S \cup {x}) <= Cardinality(S) + 1
  <2>1. IsFiniteSet(S \cup {x})
        /\ Cardinality(S \cup {x}) = IF x \in S THEN Cardinality(S) ELSE Cardinality(S) + 1
    BY FS_AddElement, Zenon
  <2>2. Cardinality(S) \in Nat
    BY FS_CardinalityType
  <2> QED  BY <2>1, <2>2
<1>2. IsFiniteSet(T) /\ Cardinality(T) <= Cardinality(S \cup {x})
  <2>1. T \in SUBSET (S \cup {x})
    OBVIOUS
  <2> QED  BY <1>1, <2>1, FS_Subset
<1>3. Cardinality(T) \in Nat /\ Cardinality(S \cup {x}) \in Nat
  BY <1>1, <1>2, FS_CardinalityType
<1>4. T \subseteq S => Cardinality(T) <= Cardinality(S)
  BY FS_Subset
<1> QED  BY <1>1, <1>2, <1>3, <1>4

LEMMA FiniteUsers ==
  /\ IsFiniteSet(Users) /\ Cardinality(Users) \in Nat
  /\ \A t : IsFiniteSet(Showing(t)) /\ Cardinality(Showing(t)) \in Nat
<1>1. IsFiniteSet(Sources)
  BY LightsAssumption
<1>2. Users \in SUBSET Sources
  BY DEF Users
<1>3. \A t : Showing(t) \in SUBSET Sources
  BY DEF Showing
<1> QED  BY <1>1, <1>2, <1>3, FS_Subset, FS_CardinalityType

(* A source that did not use the shared texture and now does is one more.  *)
LEMMA UserAdded ==
  ASSUME TypeOK, NEW l \in Sources, ~ sharedTexture[l],
         sharedTexture' = [sharedTexture EXCEPT ![l] = TRUE]
  PROVE  /\ Users' = Users \cup {l}
         /\ Cardinality(Users') = Cardinality(Users) + 1
<1>1. Users' = Users \cup {l} /\ l \notin Users
  BY DEF Users, TypeOK
<1> QED  BY <1>1, FiniteUsers, FS_AddElement

(* A source that used it and now does not is one less.                     *)
LEMMA UserRemoved ==
  ASSUME TypeOK, NEW l \in Sources, sharedTexture[l],
         sharedTexture' = [sharedTexture EXCEPT ![l] = FALSE]
  PROVE  /\ Users' = Users \ {l}
         /\ Cardinality(Users) \in Nat \ {0}
         /\ Cardinality(Users') = Cardinality(Users) - 1
<1>1. Users' = Users \ {l} /\ l \in Users
  BY DEF Users, TypeOK
<1>2. Cardinality(Users) # 0
  BY <1>1, FiniteUsers, FS_EmptySet
<1> QED  BY <1>1, <1>2, FiniteUsers, FS_RemoveElement

-----------------------------------------------------------------------------
(* The inductive invariant: the runs' invariants hold each other up (the   *)
(* count of a texture's users keeps its reference count a natural number), *)
(* and a source that is yet to be made uses no texture.                    *)

FreshInv ==
  \A l \in Sources : source[l] = "none" => ~ sharedTexture[l] /\ texture[l] = NULL

Inv ==
  /\ TypeOK /\ FreshInv
  /\ RefsCountUsers /\ TexturesRetained /\ DrawnAsMeasured /\ ListedCastersLive

LEMMA InvInit == Init => Inv
<1> SUFFICES ASSUME Init PROVE Inv
  OBVIOUS
<1>1. <<>> \in Seq(Sources) /\ <<>> \in Seq(Casters) /\ Elements(<<>>) = {}
  BY DEF Elements
<1>2. TypeOK
  BY <1>1 DEF Init, TypeOK
<1>3. FreshInv /\ DrawnAsMeasured
  BY DEF Init, FreshInv, DrawnAsMeasured
<1>4. Users = {} /\ \A t : Showing(t) = {}
  BY DEF Init, Users, Showing
<1>5. RefsCountUsers /\ TexturesRetained
  <2>1. Cardinality({}) = 0
    BY FS_EmptySet
  <2>2. RefsCountUsers
    BY <1>4, <2>1 DEF Init, RefsCountUsers
  <2>3. ASSUME NEW t \in Textures PROVE retains[t] >= Cardinality(Showing(t))
    <3>1. Showing(t) = {} /\ retains[t] = 0
      BY <1>4 DEF Init
    <3> QED  BY <2>1, <3>1
  <2> QED  BY <2>2, <2>3 DEF TexturesRetained
<1>6. ListedCastersLive
  BY <1>1 DEF Init, ListedCastersLive
<1> QED  BY <1>2, <1>3, <1>5, <1>6 DEF Inv

(* UseSharedTexture keeps the count of users and stops showing a custom    *)
(* texture.                                                                *)
LEMMA UseSharedTextureFacts ==
  ASSUME Inv, ~ corrupted, NEW l \in Sources, UseSharedTexture(l)
  PROVE  /\ texture' \in [Sources -> Textures \cup {NULL}]
         /\ sharedTexture' \in [Sources -> BOOLEAN]
         /\ refs' \in Nat
         /\ renderTexture' \in {NULL, "live", "freed"}
         /\ texture'[l] = NULL /\ sharedTexture'[l]
         /\ \A m \in Sources \ {l} : /\ texture'[m] = texture[m]
                                      /\ sharedTexture'[m] = sharedTexture[m]
         /\ refs' = Cardinality(Users')
<1>1. TypeOK /\ refs = Cardinality(Users)
  BY DEF Inv, RefsCountUsers
<1>2. CASE sharedTexture[l]
  <2>1. Users' = Users
    BY <1>2 DEF UseSharedTexture, Users
  <2> QED  BY <1>1, <1>2, <2>1 DEF UseSharedTexture, TypeOK
<1>3. CASE ~ sharedTexture[l]
  <2>1. sharedTexture' = [sharedTexture EXCEPT ![l] = TRUE]
    BY <1>3 DEF UseSharedTexture
  <2>2. Cardinality(Users') = Cardinality(Users) + 1
    BY <1>1, <1>3, <2>1, UserAdded
  <2> QED
    BY <1>1, <1>3, <2>1, <2>2 DEF UseSharedTexture, TypeOK, GetSharedTexture
<1> QED  BY <1>2, <1>3

(* Giving up the shared texture keeps the count of users.                  *)
LEMMA ReleaseFacts ==
  ASSUME Inv, ~ corrupted, NEW l \in Sources,
         IF sharedTexture[l]
         THEN /\ refs' = Released(refs)
              /\ renderTexture' = TextureAfter(refs', renderTexture)
              /\ sharedTexture' = [sharedTexture EXCEPT ![l] = FALSE]
         ELSE UNCHANGED <<refs, renderTexture, sharedTexture>>
  PROVE  /\ sharedTexture' \in [Sources -> BOOLEAN]
         /\ refs' \in Nat
         /\ renderTexture' \in {NULL, "live", "freed"}
         /\ ~ sharedTexture'[l]
         /\ \A m \in Sources \ {l} : sharedTexture'[m] = sharedTexture[m]
         /\ refs' = Cardinality(Users')
<1>1. TypeOK /\ refs = Cardinality(Users)
  BY DEF Inv, RefsCountUsers
<1>2. CASE ~ sharedTexture[l]
  <2>1. Users' = Users
    BY <1>2 DEF Users
  <2> QED  BY <1>1, <1>2, <2>1 DEF TypeOK
<1>3. CASE sharedTexture[l]
  <2>1. sharedTexture' = [sharedTexture EXCEPT ![l] = FALSE]
    BY <1>3
  <2>2. /\ Cardinality(Users) \in Nat \ {0}
        /\ Cardinality(Users') = Cardinality(Users) - 1
    BY <1>1, <1>3, <2>1, UserRemoved
  <2> QED
    BY <1>1, <1>3, <2>1, <2>2 DEF TypeOK, Released, TextureAfter
<1> QED  BY <1>2, <1>3

(* A list loses entries only.                                              *)
LEMMA RemoveLightSourceFacts ==
  ASSUME TypeOK, NEW l \in Sources, RemoveLightSource(l)
  PROVE  lightSources' \in Seq(Sources) /\ corrupted' \in BOOLEAN
<1> DEFINE Others(k) == Cardinality({j \in 1 .. k : lightSources[j] # l})
           kept == {k \in 1 .. Len(lightSources) :
                      lightSources[k] # l \/ Others(k - 1) >= Len(shadowCasters)}
<1>1. kept \in SUBSET (1 .. Len(lightSources))
  OBVIOUS
<1>2. Keep(lightSources, kept) \in Seq(Sources)
  <2> HIDE DEF kept
  <2> QED  BY <1>1, KeepFacts DEF TypeOK
<1>3. \/ lightSources' = Keep(lightSources, kept) /\ UNCHANGED corrupted
      \/ corrupted' = TRUE /\ UNCHANGED lightSources
  BY DEF RemoveLightSource
<1> HIDE DEF kept
<1> QED  BY <1>2, <1>3 DEF TypeOK

(* No entry of the removed caster is left, however many there were.        *)
LEMMA RemoveShadowCasterFacts ==
  ASSUME TypeOK, NEW c \in Casters, RemoveShadowCaster(c)
  PROVE  /\ shadowCasters' \in Seq(Casters)
         /\ Elements(shadowCasters') \subseteq Elements(shadowCasters) \ {c}
<1> DEFINE kept == {k \in 1 .. Len(shadowCasters) : shadowCasters[k] # c}
<1>1. kept \in SUBSET (1 .. Len(shadowCasters))
  OBVIOUS
<1>2. \A k \in kept : shadowCasters[k] \in Elements(shadowCasters) \ {c}
  BY DEF Elements
<1>3. shadowCasters' = Keep(shadowCasters, kept) /\ shadowCasters \in Seq(Casters)
  BY DEF RemoveShadowCaster, TypeOK
<1> HIDE DEF kept
<1> QED  BY <1>1, <1>2, <1>3, KeepFacts

(* A step in which no source comes to show a custom texture, and none is   *)
(* released, keeps the textures retained.                                  *)
LEMMA StillRetained ==
  ASSUME TypeOK, TexturesRetained, retains' = retains,
         \A t \in Textures : Showing(t)' \subseteq Showing(t)
  PROVE  TexturesRetained'
<1> SUFFICES ASSUME NEW t \in Textures PROVE retains'[t] >= Cardinality(Showing(t)')
  BY DEF TexturesRetained
<1>1. Cardinality(Showing(t)') <= Cardinality(Showing(t)) /\ Cardinality(Showing(t)') \in Nat
  BY FiniteUsers, CountFacts
<1> QED  BY <1>1, FiniteUsers DEF TypeOK, TexturesRetained

(* A step in which one source comes to show t, and retains it.             *)
LEMMA OneMoreRetained ==
  ASSUME TypeOK, TexturesRetained, NEW l \in Sources, NEW t \in Textures,
         retains' = [retains EXCEPT ![t] = @ + 1],
         Showing(t)' \subseteq Showing(t) \cup {l},
         \A u \in Textures \ {t} : Showing(u)' \subseteq Showing(u)
  PROVE  TexturesRetained' /\ retains' \in [Textures -> Nat]
<1>1. Cardinality(Showing(t)') <= Cardinality(Showing(t)) + 1 /\ Cardinality(Showing(t)') \in Nat
  BY FiniteUsers, CountFacts
<1>2. ASSUME NEW u \in Textures \ {t}
      PROVE  Cardinality(Showing(u)') <= Cardinality(Showing(u)) /\ Cardinality(Showing(u)') \in Nat
  BY FiniteUsers, CountFacts
<1>3. ASSUME NEW u \in Textures PROVE retains'[u] >= Cardinality(Showing(u)')
  <2>1. retains[u] >= Cardinality(Showing(u)) /\ retains[u] \in Nat /\ Cardinality(Showing(u)) \in Nat
    BY FiniteUsers DEF TypeOK, TexturesRetained
  <2>2. CASE u = t
    BY <1>1, <2>1, <2>2 DEF TypeOK
  <2>3. CASE u # t
    BY <1>2, <2>1, <2>3 DEF TypeOK
  <2> QED  BY <2>2, <2>3
<1>4. retains' \in [Textures -> Nat]
  BY DEF TypeOK
<1> QED  BY <1>3, <1>4 DEF TexturesRetained

(* The destructor releases what its source showed, and not below zero.     *)
LEMMA DeletedRetained ==
  ASSUME Inv, NEW l \in Sources, source[l] = "live", DeleteTextures(l)
  PROVE  TexturesRetained' /\ retains' \in [Textures -> Nat]
<1>1. TypeOK /\ TexturesRetained
  BY DEF Inv
<1>2. source' = [source EXCEPT ![l] = "deleted"] /\ texture' = texture
  BY DEF DeleteTextures
<1>3. \A t \in Textures : Showing(t)' = Showing(t) \ {l}
  BY <1>1, <1>2 DEF Showing, TypeOK
<1>4. CASE texture[l] = NULL
  <2>1. retains' = retains
    BY <1>4 DEF DeleteTextures
  <2> QED  BY <1>1, <1>3, <2>1, StillRetained DEF TypeOK
<1>5. CASE texture[l] # NULL
  <2> PICK t \in Textures : t = texture[l]
    BY <1>1, <1>5 DEF TypeOK
  <2>1. l \in Showing(t)
    BY DEF Showing
  <2>2. retains' = [retains EXCEPT ![t] = @ - 1]
    BY <1>5 DEF DeleteTextures
  <2>3. /\ Cardinality(Showing(t)) \in Nat \ {0}
        /\ Cardinality(Showing(t)') = Cardinality(Showing(t)) - 1
    <3>1. IsFiniteSet(Showing(t)) /\ Cardinality(Showing(t)) \in Nat
      BY FiniteUsers
    <3>2. Cardinality(Showing(t)) # 0
      BY <2>1, <3>1, FS_EmptySet
    <3>3. Cardinality(Showing(t) \ {l}) = Cardinality(Showing(t)) - 1
      BY <2>1, <3>1, FS_RemoveElement
    <3> QED  BY <1>3, <2>1, <3>1, <3>2, <3>3
  <2>4. ASSUME NEW u \in Textures \ {t}
        PROVE  Cardinality(Showing(u)') <= Cardinality(Showing(u))
    <3>1. Showing(u)' \in SUBSET Showing(u)
      BY <1>3
    <3> QED  BY <3>1, FiniteUsers, FS_Subset
  <2>5. retains[t] \in Nat \ {0} /\ retains[t] >= Cardinality(Showing(t))
    BY <1>1, <2>1, <2>3 DEF TypeOK, TexturesRetained
  <2>6. retains' \in [Textures -> Nat]
    BY <1>1, <2>1, <2>2, <2>5 DEF TypeOK
  <2>7. ASSUME NEW u \in Textures PROVE retains'[u] >= Cardinality(Showing(u)')
    <3>1. CASE u = t
      <4>1. retains'[u] = retains[t] - 1
        BY <1>1, <2>1, <2>2, <3>1 DEF TypeOK
      <4> QED  BY <2>3, <2>5, <3>1, <4>1
    <3>2. CASE u # t
      <4>1. Cardinality(Showing(u)) \in Nat /\ Cardinality(Showing(u)') \in Nat
        BY <1>3, FiniteUsers, FS_RemoveElement, FS_CardinalityType
      <4>2. retains'[u] = retains[u] /\ retains[u] \in Nat /\ retains[u] >= Cardinality(Showing(u))
        BY <1>1, <2>2, <3>2 DEF TypeOK, TexturesRetained
      <4> QED  BY <2>4, <3>2, <4>1, <4>2
    <3> QED  BY <3>1, <3>2
  <2> QED  BY <2>6, <2>7 DEF TexturesRetained
<1> QED  BY <1>4, <1>5

-----------------------------------------------------------------------------
(* Every step preserves the invariant, one lemma per kind of step.         *)

(* Steps that leave textures and reference counts alone.                   *)
LEMMA UnchangedLights ==
  ASSUME Inv, ~ corrupted, UNCHANGED lightVars
  PROVE  FreshInv' /\ RefsCountUsers' /\ TexturesRetained' /\ DrawnAsMeasured'
<1>1. UNCHANGED <<source, texture, sharedTexture, radius, refs, retains>>
  BY DEF lightVars
<1>2. Users' = Users /\ \A t : Showing(t)' = Showing(t)
  BY <1>1 DEF Users, Showing
<1>3. RefsCountUsers' /\ TexturesRetained'
  BY <1>1, <1>2 DEF Inv, RefsCountUsers, TexturesRetained
<1>4. FreshInv' /\ DrawnAsMeasured'
  BY <1>1 DEF Inv, FreshInv, DrawnAsMeasured
<1> QED  BY <1>3, <1>4

LEMMA AddLightSourceStep ==
  ASSUME Inv, ~ corrupted, NEW l \in Sources, AddLightSource(l)
  PROVE  Inv'
<1>1. TypeOK /\ ListedCastersLive
  BY DEF Inv
<1>2. UNCHANGED <<lightVars, caster, shadowCasters, corrupted>>
  BY DEF AddLightSource
<1>3. lightSources' \in Seq(Sources)
  BY <1>1, AppendFacts DEF AddLightSource, TypeOK
<1>4. TypeOK' /\ ListedCastersLive'
  BY <1>1, <1>2, <1>3 DEF TypeOK, ListedCastersLive, lightVars
<1> QED  BY <1>2, <1>4, UnchangedLights DEF Inv

LEMMA RenderStep ==
  ASSUME Inv, ~ corrupted, Render
  PROVE  Inv'
<1>1. corrupted' = TRUE /\ UNCHANGED <<lightVars, caster, lightSources, shadowCasters>>
  BY DEF Render, listVars
<1>2. TypeOK' /\ ListedCastersLive'
  BY <1>1 DEF Inv, TypeOK, ListedCastersLive, lightVars
<1> QED  BY <1>1, <1>2, UnchangedLights DEF Inv

LEMMA CasterStep ==
  ASSUME Inv, ~ corrupted, NEW c \in Casters, AddShadowCaster(c) \/ DeleteCaster(c)
  PROVE  Inv'
<1>1. UNCHANGED <<lightVars, lightSources, corrupted>>
  BY DEF AddShadowCaster, DeleteCaster
<1>2. TypeOK /\ ListedCastersLive
  BY DEF Inv
<1>3. \A d \in Elements(shadowCasters) : d \in Casters
  BY <1>2 DEF Elements, TypeOK
<1>4. CASE AddShadowCaster(c)
  <2>1. caster' = [caster EXCEPT ![c] = "live"]
    BY <1>4 DEF AddShadowCaster
  <2>2. /\ shadowCasters' \in Seq(Casters)
        /\ Elements(shadowCasters') = Elements(shadowCasters) \cup {c}
    BY <1>2, <1>4, AppendFacts DEF AddShadowCaster, TypeOK
  <2>3. TypeOK'
    BY <1>1, <1>2, <2>1, <2>2 DEF TypeOK, lightVars
  <2>4. ListedCastersLive'
    BY <1>2, <1>3, <2>1, <2>2 DEF TypeOK, ListedCastersLive
  <2> QED  BY <1>1, <2>3, <2>4, UnchangedLights DEF Inv
<1>5. CASE DeleteCaster(c)
  <2>1. caster' = [caster EXCEPT ![c] = "deleted"]
    BY <1>5 DEF DeleteCaster
  <2>2. /\ shadowCasters' \in Seq(Casters)
        /\ Elements(shadowCasters') \subseteq Elements(shadowCasters) \ {c}
    BY <1>2, <1>5, RemoveShadowCasterFacts DEF DeleteCaster
  <2>3. TypeOK'
    BY <1>1, <1>2, <2>1, <2>2 DEF TypeOK, lightVars
  <2>4. ListedCastersLive'
    BY <1>2, <1>3, <2>1, <2>2 DEF TypeOK, ListedCastersLive
  <2> QED  BY <1>1, <2>3, <2>4, UnchangedLights DEF Inv
<1> QED  BY <1>4, <1>5

(* A source, new or not, is given properties.                              *)
LEMMA PropertiesStep ==
  ASSUME Inv, ~ corrupted, NEW l \in Sources, AddLight(l) \/ SetLightProperties(l)
  PROVE  Inv'
<1>1. /\ TypeOK /\ FreshInv /\ TexturesRetained /\ DrawnAsMeasured /\ ListedCastersLive
      /\ \A m \in Users : source[m] = "live"
  BY DEF Inv, RefsCountUsers
<1>2. /\ UseSharedTexture(l)
      /\ radius' = [radius EXCEPT ![l] = "distance"]
      /\ UNCHANGED <<retains, caster, shadowCasters, corrupted>>
  BY DEF AddLight, SetLightProperties, listVars
<1>3. /\ texture' \in [Sources -> Textures \cup {NULL}]
      /\ sharedTexture' \in [Sources -> BOOLEAN]
      /\ refs' \in Nat
      /\ renderTexture' \in {NULL, "live", "freed"}
      /\ texture'[l] = NULL /\ sharedTexture'[l]
      /\ \A m \in Sources \ {l} : /\ texture'[m] = texture[m]
                                   /\ sharedTexture'[m] = sharedTexture[m]
      /\ refs' = Cardinality(Users')
  BY <1>2, UseSharedTextureFacts
<1>4. /\ source' \in [Sources -> {"none", "live", "deleted"}]
      /\ source'[l] = "live" /\ \A m \in Sources \ {l} : source'[m] = source[m]
  BY <1>1 DEF AddLight, SetLightProperties, TypeOK
<1>5. lightSources' \in Seq(Sources)
  <2>1. lightSources' \in {lightSources, Append(lightSources, l)}
    BY DEF AddLight, SetLightProperties, listVars
  <2>2. lightSources \in Seq(Sources)
    BY <1>1 DEF TypeOK
  <2>3. Append(lightSources, l) \in Seq(Sources)
    BY <2>2
  <2> QED  BY <2>1, <2>2, <2>3
<1>6. TypeOK'
  BY <1>1, <1>2, <1>3, <1>4, <1>5 DEF TypeOK
<1>7. FreshInv' /\ DrawnAsMeasured'
  BY <1>1, <1>2, <1>3, <1>4 DEF TypeOK, FreshInv, DrawnAsMeasured
<1>8. RefsCountUsers'
  BY <1>1, <1>3, <1>4 DEF RefsCountUsers, Users
<1>9. TexturesRetained'
  <2>1. NULL \notin Textures
    BY LightsAssumption
  <2>2. \A t \in Textures : Showing(t)' \subseteq Showing(t)
    BY <1>3, <1>4, <2>1 DEF Showing
  <2> QED  BY <1>1, <1>2, <2>2, StillRetained
<1>10. ListedCastersLive'
  BY <1>1, <1>2 DEF ListedCastersLive
<1> QED  BY <1>6, <1>7, <1>8, <1>9, <1>10 DEF Inv

(* A source, new or not, is given a custom texture.                        *)
LEMMA TextureStep ==
  ASSUME Inv, ~ corrupted, NEW l \in Sources, NEW t \in Textures,
         NewPlayer(l, t) \/ SetTexture(l, t)
  PROVE  Inv'
<1>1. /\ TypeOK /\ FreshInv /\ TexturesRetained /\ DrawnAsMeasured /\ ListedCastersLive
      /\ refs = Cardinality(Users) /\ \A m \in Users : source[m] = "live"
  BY DEF Inv, RefsCountUsers
<1>2. /\ texture' = [texture EXCEPT ![l] = t]
      /\ retains' = [retains EXCEPT ![t] = @ + 1]
      /\ radius' = [radius EXCEPT ![l] = "width"]
      /\ UNCHANGED <<caster, shadowCasters>>
  BY DEF NewPlayer, SetTexture, listVars
<1>3. /\ sharedTexture' \in [Sources -> BOOLEAN]
      /\ refs' \in Nat
      /\ renderTexture' \in {NULL, "live", "freed"}
      /\ ~ sharedTexture'[l]
      /\ \A m \in Sources \ {l} : sharedTexture'[m] = sharedTexture[m]
      /\ refs' = Cardinality(Users')
  <2>1. CASE NewPlayer(l, t)
    <3>1. sharedTexture' = sharedTexture /\ source[l] = "none"
      BY <2>1 DEF NewPlayer
    <3>2. Users' = Users
      BY <3>1 DEF Users
    <3>3. refs' = refs /\ renderTexture' \in {NULL, "live", "freed"}
      BY <1>1, <2>1 DEF NewPlayer, TypeOK, Released, TextureAfter, GetSharedTexture
    <3> QED  BY <1>1, <3>1, <3>2, <3>3 DEF TypeOK, FreshInv
  <2>2. CASE SetTexture(l, t)
    <3>1. IF sharedTexture[l]
          THEN /\ refs' = Released(refs)
               /\ renderTexture' = TextureAfter(refs', renderTexture)
               /\ sharedTexture' = [sharedTexture EXCEPT ![l] = FALSE]
          ELSE UNCHANGED <<refs, renderTexture, sharedTexture>>
      BY <2>2 DEF SetTexture, ReleaseSharedTexture
    <3> QED  BY <3>1, ReleaseFacts
  <2> QED  BY <2>1, <2>2
<1>4. /\ source' \in [Sources -> {"none", "live", "deleted"}]
      /\ source'[l] = "live" /\ \A m \in Sources \ {l} : source'[m] = source[m]
  BY <1>1 DEF NewPlayer, SetTexture, TypeOK
<1>5. lightSources' \in Seq(Sources)
  <2>1. lightSources' \in {lightSources, Append(lightSources, l)}
    BY DEF NewPlayer, SetTexture, listVars
  <2>2. lightSources \in Seq(Sources)
    BY <1>1 DEF TypeOK
  <2>3. Append(lightSources, l) \in Seq(Sources)
    BY <2>2
  <2> QED  BY <2>1, <2>2, <2>3
<1>6. corrupted' \in BOOLEAN
  BY <1>1 DEF NewPlayer, SetTexture, ReleaseSharedTexture, TypeOK
<1>7. TexturesRetained' /\ retains' \in [Textures -> Nat]
  <2>1. Showing(t)' \subseteq Showing(t) \cup {l}
    BY <1>1, <1>2, <1>4 DEF Showing, TypeOK
  <2>2. \A u \in Textures \ {t} : Showing(u)' \subseteq Showing(u)
    BY <1>1, <1>2, <1>4 DEF Showing, TypeOK
  <2> QED  BY <1>1, <1>2, <2>1, <2>2, OneMoreRetained
<1>8. TypeOK'
  BY <1>1, <1>2, <1>3, <1>4, <1>5, <1>6, <1>7 DEF TypeOK
<1>9. FreshInv' /\ DrawnAsMeasured'
  <2>1. NULL # t
    BY LightsAssumption
  <2> QED  BY <1>1, <1>2, <1>3, <1>4, <2>1 DEF TypeOK, FreshInv, DrawnAsMeasured
<1>10. RefsCountUsers'
  BY <1>1, <1>3, <1>4 DEF RefsCountUsers, Users
<1>11. ListedCastersLive'
  BY <1>1, <1>2 DEF ListedCastersLive
<1> QED  BY <1>7, <1>8, <1>9, <1>10, <1>11 DEF Inv

(* A source is deleted.                                                    *)
LEMMA DeleteSourceStep ==
  ASSUME Inv, ~ corrupted, NEW l \in Sources, DeleteSource(l)
  PROVE  Inv'
<1>1. /\ TypeOK /\ FreshInv /\ TexturesRetained /\ DrawnAsMeasured /\ ListedCastersLive
      /\ refs = Cardinality(Users) /\ \A m \in Users : source[m] = "live"
  BY DEF Inv, RefsCountUsers
<1>2. source[l] = "live" /\ DeleteTextures(l) /\ UNCHANGED <<caster, shadowCasters>>
  BY DEF DeleteSource
<1>3. source' = [source EXCEPT ![l] = "deleted"] /\ UNCHANGED <<texture, radius>>
  BY <1>2 DEF DeleteTextures
<1>4. /\ sharedTexture' \in [Sources -> BOOLEAN]
      /\ refs' \in Nat
      /\ renderTexture' \in {NULL, "live", "freed"}
      /\ ~ sharedTexture'[l]
      /\ \A m \in Sources \ {l} : sharedTexture'[m] = sharedTexture[m]
      /\ refs' = Cardinality(Users')
  <2>1. IF sharedTexture[l]
        THEN /\ refs' = Released(refs)
             /\ renderTexture' = TextureAfter(refs', renderTexture)
             /\ sharedTexture' = [sharedTexture EXCEPT ![l] = FALSE]
        ELSE UNCHANGED <<refs, renderTexture, sharedTexture>>
    BY <1>2 DEF DeleteTextures
  <2> QED  BY <2>1, ReleaseFacts
<1>5. TexturesRetained' /\ retains' \in [Textures -> Nat]
  BY <1>2, DeletedRetained
<1>6. lightSources' \in Seq(Sources) /\ corrupted' \in BOOLEAN
  BY <1>1, RemoveLightSourceFacts DEF DeleteSource, TypeOK
<1>7. TypeOK'
  BY <1>1, <1>2, <1>3, <1>4, <1>5, <1>6 DEF TypeOK
<1>8. FreshInv' /\ DrawnAsMeasured'
  BY <1>1, <1>3, <1>4 DEF TypeOK, FreshInv, DrawnAsMeasured
<1>9. RefsCountUsers'
  BY <1>1, <1>3, <1>4 DEF RefsCountUsers, Users, TypeOK
<1>10. ListedCastersLive'
  BY <1>1, <1>2 DEF ListedCastersLive
<1> QED  BY <1>5, <1>7, <1>8, <1>9, <1>10 DEF Inv

LEMMA InvStep == Inv /\ [Next]_vars => Inv'
<1> SUFFICES ASSUME Inv, [Next]_vars PROVE Inv'
  OBVIOUS
<1>1. ASSUME ~ corrupted, NEW l \in Sources,
             AddLight(l) \/ SetLightProperties(l) \/ AddLightSource(l) \/ DeleteSource(l)
      PROVE  Inv'
  BY <1>1, PropertiesStep, AddLightSourceStep, DeleteSourceStep
<1>2. ASSUME ~ corrupted, NEW l \in Sources, NEW t \in Textures,
             NewPlayer(l, t) \/ SetTexture(l, t)
      PROVE  Inv'
  BY <1>2, TextureStep
<1>3. ASSUME ~ corrupted, NEW c \in Casters, AddShadowCaster(c) \/ DeleteCaster(c)
      PROVE  Inv'
  BY <1>3, CasterStep
<1>4. ASSUME ~ corrupted, Render PROVE Inv'
  BY <1>4, RenderStep
<1>5. CASE UNCHANGED vars
  <2>1. UNCHANGED <<source, texture, sharedTexture, radius, refs, renderTexture, retains,
                    caster, lightSources, shadowCasters, corrupted>>
    BY <1>5 DEF vars, lightVars, listVars
  <2>2. Users' = Users /\ \A t : Showing(t)' = Showing(t)
    BY <2>1 DEF Users, Showing
  <2>3. RefsCountUsers' /\ TexturesRetained'
    BY <2>1, <2>2 DEF Inv, RefsCountUsers, TexturesRetained
  <2>4. TypeOK' /\ FreshInv' /\ DrawnAsMeasured' /\ ListedCastersLive'
    BY <2>1 DEF Inv, TypeOK, FreshInv, DrawnAsMeasured, ListedCastersLive
  <2> QED  BY <2>3, <2>4 DEF Inv
<1> QED  BY <1>1, <1>2, <1>3, <1>4, <1>5 DEF Next, Step

-----------------------------------------------------------------------------
(* Every reachable state satisfies the inductive invariant.                *)
THEOREM Invariance == Spec => []Inv
BY InvInit, InvStep, PTL DEF Spec

(* The lists hold sources and casters, whatever was erased from them, and  *)
(* no reference count is ever released below zero.                         *)
THEOREM Typing == Spec => []TypeOK
<1>1. Inv => TypeOK
  BY DEF Inv
<1> QED  BY <1>1, Invariance, PTL

(* LightTexture::_refs counts the users of the shared texture, for any     *)
(* number of sources and whatever they have gone through.                  *)
THEOREM SharedTextureCounted == Spec => []RefsCountUsers
<1>1. Inv => RefsCountUsers
  BY DEF Inv
<1> QED  BY <1>1, Invariance, PTL

(* No live source shows a custom texture that nobody retains any more.     *)
THEOREM CustomTexturesRetained == Spec => []TexturesRetained
<1>1. Inv => TexturesRetained
  BY DEF Inv
<1> QED  BY <1>1, Invariance, PTL

(* A live source draws with the texture its radius was taken from.         *)
THEOREM RadiusMatchesTexture == Spec => []DrawnAsMeasured
<1>1. Inv => DrawnAsMeasured
  BY DEF Inv
<1> QED  BY <1>1, Invariance, PTL

(* No entry of _shadowCasters outlives its caster.                         *)
THEOREM NoDanglingCaster == Spec => []ListedCastersLive
<1>1. Inv => ListedCastersLive
  BY DEF Inv
<1> QED  BY <1>1, Invariance, PTL
=============================================================================
