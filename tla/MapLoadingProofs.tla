-------------------------- MODULE MapLoadingProofs --------------------------
(***************************************************************************)
(* Proofs about MapLoading, for maps of any width and height, with any     *)
(* layers and objects: the obstacles, the drawn tiles and the lights of a  *)
(* level are those of the file.  First the arithmetic of the coordinates   *)
(* and what the loop over the tiles visits; then what one drawable layer   *)
(* becomes; then one invariant for each of the three.                      *)
(***************************************************************************)
EXTENDS MapLoading, FiniteSetTheorems, SequenceTheorems, WellFoundedInduction, TLAPS

-----------------------------------------------------------------------------
(* Arithmetic.                                                             *)

(* A set of numbers has a smallest: intervals from 0 are ordered by        *)
(* inclusion, and finite sets are well-founded under that.                 *)
LEMMA NatMin ==
  ASSUME NEW T \in SUBSET Nat, T # {}
  PROVE  \E m \in T : \A k \in T : m <= k
<1> DEFINE R == StrictSubsetOrdering(Nat)
           U == {0 .. k : k \in T}
<1>1. IsWellFoundedOn(R, FiniteSubsetsOf(Nat))
  BY FS_StrictSubsetOrderingWellFounded
<1>2. U \subseteq FiniteSubsetsOf(Nat) /\ U # {}
  <2>1. ASSUME NEW k \in T PROVE 0 .. k \in FiniteSubsetsOf(Nat)
    <3>1. IsFiniteSet(0 .. k)
      BY FS_Interval
    <3> QED  BY <3>1 DEF FiniteSubsetsOf
  <2> QED  BY <2>1
<1>3. \A x, y \in SUBSET Nat : x \subseteq y /\ x # y => <<x, y>> \in R
  BY DEF StrictSubsetOrdering
<1>4. \E x \in U : \A y \in U : ~ (<<y, x>> \in R)
  <2> HIDE DEF R, U
  <2> QED  BY <1>1, <1>2, WFMin
<1>5. PICK m \in T : \A k \in T : ~ (<<0 .. k, 0 .. m>> \in R)
  BY <1>4
<1>6. ASSUME NEW k \in T, k < m PROVE FALSE
  <2>1. /\ 0 .. k \in SUBSET Nat /\ 0 .. m \in SUBSET Nat
        /\ 0 .. k \subseteq 0 .. m /\ m \in 0 .. m /\ m \notin 0 .. k
    BY <1>6
  <2> HIDE DEF R
  <2>2. <<0 .. k, 0 .. m>> \in R
    BY <1>3, <2>1
  <2> QED  BY <1>5, <2>2
<1> QED  BY <1>5, <1>6

LEMMA DivMod ==
  ASSUME NEW a \in Nat, NEW b \in Nat \ {0}
  PROVE  a \div b \in Nat /\ a % b \in 0 .. b - 1 /\ a = b * (a \div b) + (a % b)
<1>1. a \div b \in Int /\ a \div b >= 0
  OBVIOUS
<1>2. a % b \in 0 .. b - 1
  OBVIOUS
<1>3. a = b * (a \div b) + (a % b)
  OBVIOUS
<1> QED  BY <1>1, <1>2, <1>3

LEMMA DivModOf ==
  ASSUME NEW q \in Nat, NEW b \in Nat \ {0}, NEW r \in 0 .. b - 1
  PROVE  (b * q + r) \div b = q /\ (b * q + r) % b = r
OBVIOUS

LEMMA DivLess ==
  ASSUME NEW a \in Nat, NEW b \in Nat \ {0}, NEW c \in Nat, a < c * b
  PROVE  a \div b < c
OBVIOUS

LEMMA Fits ==
  ASSUME NEW q \in Nat, NEW b \in Nat \ {0}, NEW r \in 0 .. b - 1, NEW w \in Nat, q < w
  PROVE  b * q + r \in Nat /\ b * q + r < w * b
OBVIOUS

LEMMA Digits ==
  ASSUME NEW b \in Nat \ {0}, NEW q \in Nat, NEW r \in 0 .. b - 1, NEW p \in Nat,
         NEW s \in 0 .. b - 1, b * q + r = b * p + s
  PROVE  q = p /\ r = s
OBVIOUS

LEMMA Product ==
  ASSUME NEW a \in Nat, NEW b \in Nat
  PROVE  a * b \in Nat /\ a * b = b * a
OBVIOUS

-----------------------------------------------------------------------------
(* Coordinates.  N tiles are visited, each of them once.                   *)
N == Width * Height

LEMMA NIsNat == N \in Nat
BY MapAssumption, Product DEF N

LEMMA VisitedCell ==
  ASSUME NEW k \in 0 .. N - 1
  PROVE  /\ Visited(k) \in Cells /\ k = Height * Visited(k)[1] + Visited(k)[2]
         /\ Visited(k)[1] \in 0 .. Width - 1 /\ Visited(k)[2] \in 0 .. Height - 1
         /\ Visited(k) = <<Visited(k)[1], Visited(k)[2]>>
<1> DEFINE q == k \div Height
           r == k % Height
<1>1. k \in Nat /\ Height \in Nat \ {0} /\ Width \in Nat
  BY MapAssumption, NIsNat
<1>2. q \in Nat /\ r \in 0 .. Height - 1 /\ k = Height * q + r
  BY <1>1, DivMod
<1>3. q < Width
  <2>1. k < Width * Height
    BY <1>1, NIsNat DEF N
  <2> QED  BY <1>1, <2>1, DivLess
<1>4. Visited(k) = <<q, r>>
  BY DEF Visited
<1> HIDE DEF q, r
<1> QED  BY <1>1, <1>2, <1>3, <1>4 DEF Cells

LEMMA EveryCellVisited ==
  ASSUME NEW c \in Cells
  PROVE  \E k \in 0 .. N - 1 : Visited(k) = c
<1>1. /\ c = <<c[1], c[2]>> /\ c[1] \in Nat /\ c[1] < Width /\ c[2] \in 0 .. Height - 1
      /\ Height \in Nat \ {0} /\ Width \in Nat
  BY MapAssumption DEF Cells
<1> DEFINE k == Height * c[1] + c[2]
<1>2. k \in 0 .. N - 1
  BY <1>1, Fits, NIsNat DEF N
<1>3. k \div Height = c[1] /\ k % Height = c[2]
  BY <1>1, DivModOf
<1> QED  BY <1>1, <1>2, <1>3 DEF Visited

LEMMA VisitedOnce ==
  ASSUME NEW j \in 0 .. N - 1, NEW k \in 0 .. N - 1, Visited(j) = Visited(k)
  PROVE  j = k
BY VisitedCell

(* A cell of the file in the game's coordinates, and back.                 *)
Flip(c) == <<c[1], FlipY(c[2])>>

LEMMA FlipCell ==
  ASSUME NEW c \in Cells
  PROVE  /\ c = <<c[1], c[2]>> /\ c[1] \in Int /\ c[2] \in Int
         /\ Flip(c) \in Cells /\ Flip(c)[1] = c[1] /\ Flip(c)[2] = FlipY(c[2])
         /\ Flip(Flip(c)) = c
<1>1. /\ c = <<c[1], c[2]>> /\ c[1] \in 0 .. Width - 1 /\ c[2] \in 0 .. Height - 1
      /\ Height \in Nat /\ Width \in Nat
  BY MapAssumption DEF Cells
<1>2. FlipY(c[2]) \in 0 .. Height - 1 /\ FlipY(FlipY(c[2])) = c[2]
  BY <1>1 DEF FlipY
<1> QED  BY <1>1, <1>2 DEF Flip, Cells

LEMMA IndexOfCell ==
  ASSUME NEW c \in Cells
  PROVE  Index(c[1], c[2]) \in 0 .. N - 1
<1>1. /\ c[1] \in 0 .. Width - 1 /\ c[2] \in Nat /\ c[2] < Height
      /\ Height \in Nat /\ Width \in Nat \ {0}
  BY MapAssumption DEF Cells
<1>2. Width * c[2] + c[1] \in Nat /\ Width * c[2] + c[1] < Height * Width
  BY <1>1, Fits
<1>3. Width * c[2] = c[2] * Width /\ Height * Width = Width * Height
  BY <1>1, Product
<1> QED  BY <1>2, <1>3, NIsNat DEF Index, N

LEMMA IndexIsUnique ==
  ASSUME NEW c \in Cells, NEW d \in Cells, Index(c[1], c[2]) = Index(d[1], d[2])
  PROVE  c = d
<1>1. /\ c = <<c[1], c[2]>> /\ c[1] \in 0 .. Width - 1 /\ c[2] \in Nat
      /\ d = <<d[1], d[2]>> /\ d[1] \in 0 .. Width - 1 /\ d[2] \in Nat
      /\ Width \in Nat \ {0}
  BY MapAssumption DEF Cells
<1>2. Width * c[2] = c[2] * Width /\ Width * d[2] = d[2] * Width
  BY <1>1, Product
<1>3. Width * c[2] + c[1] = Width * d[2] + d[1]
  BY <1>2 DEF Index
<1>4. c[2] = d[2] /\ c[1] = d[1]
  BY <1>1, <1>3, Digits
<1> QED  BY <1>1, <1>4

LEMMA PlaceOfCell ==
  ASSUME NEW c \in Cells
  PROVE  /\ Place(c) \in Int \X Int
         /\ Place(c) = GetWorldClip(c[1], c[2])
         /\ Place(c) = <<c[1] * TileSize, FlipY(c[2]) * TileSize>>
<1>1. c[1] \in Int /\ c[2] \in Int /\ Height \in Int
  BY MapAssumption DEF Cells
<1> QED  BY <1>1 DEF Place, GetWorldClip, FlipY, TileSize

LEMMA PlaceIsUnique ==
  ASSUME NEW c \in Cells, NEW d \in Cells, Place(c) = Place(d)
  PROVE  c = d
<1>1. /\ c = <<c[1], c[2]>> /\ c[1] \in Int /\ c[2] \in Int
      /\ d = <<d[1], d[2]>> /\ d[1] \in Int /\ d[2] \in Int
      /\ Height \in Int
  BY MapAssumption DEF Cells
<1>2. /\ Place(c)[1] = c[1] * 64 /\ Place(c)[2] = Height * 64 - (c[2] * 64 + 64)
      /\ Place(d)[1] = d[1] * 64 /\ Place(d)[2] = Height * 64 - (d[2] * 64 + 64)
  BY DEF Place, TileSize
<1>3. \A h, x, y \in Int : /\ x * 64 = y * 64 => x = y
                          /\ h * 64 - (x * 64 + 64) = h * 64 - (y * 64 + 64) => x = y
  OBVIOUS
<1>4. c[1] = d[1] /\ c[2] = d[2]
  BY <1>1, <1>2, <1>3
<1> QED  BY <1>1, <1>4

-----------------------------------------------------------------------------
(* Lists of corners.                                                       *)

(* The corners in seq are the places of the cells in S, each once.         *)
Covers(seq, S) ==
  /\ seq \in Seq(Int \X Int)
  /\ IsFiniteSet(S) /\ Len(seq) = Cardinality(S)
  /\ \A c \in S : \E k \in 1 .. Len(seq) : seq[k] = Place(c)
  /\ \A k \in 1 .. Len(seq) : \E c \in S : seq[k] = Place(c)
  /\ \A j, k \in 1 .. Len(seq) : seq[j] = seq[k] => j = k

LEMMA CoversNone == Covers(<<>>, {})
BY FS_EmptySet DEF Covers

LEMMA CoversMore ==
  ASSUME NEW seq, NEW S \in SUBSET Cells, NEW c \in Cells \ S, Covers(seq, S)
  PROVE  Covers(Append(seq, Place(c)), S \cup {c})
<1> DEFINE new == Append(seq, Place(c))
           T   == S \cup {c}
<1>1. /\ seq \in Seq(Int \X Int) /\ Len(seq) \in Nat /\ Place(c) \in Int \X Int
  BY PlaceOfCell DEF Covers
<1>2. /\ new \in Seq(Int \X Int) /\ Len(new) = Len(seq) + 1
      /\ \A k \in 1 .. Len(seq) : new[k] = seq[k]
      /\ new[Len(seq) + 1] = Place(c)
  BY <1>1
<1>3. IsFiniteSet(T) /\ Cardinality(T) = Cardinality(S) + 1
  BY FS_AddElement DEF Covers
<1>4. \A k \in 1 .. Len(seq) : seq[k] # Place(c)
  BY PlaceIsUnique DEF Covers
<1> HIDE DEF new
<1>5. 1 .. Len(new) = (1 .. Len(seq)) \cup {Len(seq) + 1}
  <2>1. \A m \in Nat : 1 .. m + 1 = (1 .. m) \cup {m + 1}
    OBVIOUS
  <2> QED  BY <1>1, <1>2, <2>1
<1>6. \A d \in T : \E k \in 1 .. Len(new) : new[k] = Place(d)
  <2>1. ASSUME NEW d \in S PROVE \E k \in 1 .. Len(new) : new[k] = Place(d)
    <3>1. PICK k \in 1 .. Len(seq) : seq[k] = Place(d)
      BY DEF Covers
    <3> QED  BY <1>2, <1>5, <3>1, Zenon
  <2>2. \E k \in 1 .. Len(new) : new[k] = Place(c)
    BY <1>2, <1>5, Zenon
  <2> QED  BY <2>1, <2>2
<1>7. ASSUME NEW k \in 1 .. Len(new) PROVE \E d \in T : new[k] = Place(d)
  <2>1. CASE k \in 1 .. Len(seq)
    <3>1. PICK d \in S : seq[k] = Place(d)
      BY <2>1 DEF Covers
    <3> QED  BY <1>2, <2>1, <3>1
  <2>2. CASE k = Len(seq) + 1
    BY <1>2, <2>2
  <2> QED  BY <1>5, <2>1, <2>2
<1>8. \A j, k \in 1 .. Len(new) : new[j] = new[k] => j = k
  <2> SUFFICES ASSUME NEW j \in 1 .. Len(new), NEW k \in 1 .. Len(new), new[j] = new[k]
               PROVE  j = k
    OBVIOUS
  <2>1. CASE j \in 1 .. Len(seq) /\ k \in 1 .. Len(seq)
    BY <1>2, <2>1 DEF Covers
  <2>2. j = Len(seq) + 1 => k \notin 1 .. Len(seq)
    BY <1>2, <1>4
  <2>3. k = Len(seq) + 1 => j \notin 1 .. Len(seq)
    BY <1>2, <1>4
  <2> QED  BY <1>5, <2>1, <2>2, <2>3, Zenon
<1>9. Len(new) = Cardinality(T)
  BY <1>2, <1>3 DEF Covers
<1> QED  BY <1>2, <1>3, <1>6, <1>7, <1>8, <1>9 DEF Covers, new

LEMMA CoversHits ==
  ASSUME NEW seq, NEW S, Covers(seq, S), NEW c \in S
  PROVE  Hits(seq, Place(c)) = 1
<1>1. PICK k \in 1 .. Len(seq) : seq[k] = Place(c)
  BY DEF Covers
<1>2. {j \in DOMAIN seq : seq[j] = Place(c)} = {k}
  BY <1>1 DEF Covers
<1> QED  BY <1>2, FS_Singleton DEF Hits

(* The bodies LoadWall makes, and their corners.                           *)
Bodies ==
  [centre : Int \X Int, halfWidth : {B2METER_PER_TILE}, category : {"WALL", "VENTILATION"}]

Corners(bodies) == [k \in DOMAIN bodies |-> Corner(bodies[k])]

LEMMA CornersAppend ==
  ASSUME NEW bodies \in Seq(Bodies), NEW body \in Bodies
  PROVE  Corners(Append(bodies, body)) = Append(Corners(bodies), Corner(body))
<1>1. Append(bodies, body) \in Seq(Bodies) /\ Len(bodies) \in Nat
  OBVIOUS
<1>2. /\ Corners(bodies) = [k \in 1 .. Len(bodies) |-> Corner(bodies[k])]
      /\ Corners(Append(bodies, body))
           = [k \in 1 .. Len(bodies) + 1 |-> Corner(Append(bodies, body)[k])]
  BY <1>1 DEF Corners
<1>3. /\ \A k \in 1 .. Len(bodies) : Append(bodies, body)[k] = bodies[k]
      /\ Append(bodies, body)[Len(bodies) + 1] = body
  OBVIOUS
<1>4. Append(Corners(bodies), Corner(body))
        = [k \in 1 .. Len(bodies) + 1 |-> IF k = Len(bodies) + 1 THEN Corner(body)
                                                                 ELSE Corner(bodies[k])]
  <2>1. Len(Corners(bodies)) = Len(bodies)
    BY <1>1, <1>2
  <2> QED  BY <1>1, <1>2, <2>1
<1> QED  BY <1>1, <1>2, <1>3, <1>4

(* In half metres a tile is four wide and its centre two from its corner.  *)
LEMMA CornerOfWall ==
  ASSUME NEW c \in Cells, NEW vent \in BOOLEAN
  PROVE  /\ LoadWall(c[1], FlipY(c[2]), vent) \in Bodies
         /\ Corner(LoadWall(c[1], FlipY(c[2]), vent)) = Place(c)
         /\ LoadShadowCaster(c[1], FlipY(c[2])) = Place(c)
<1>1. PICK x \in Int, y \in Int : x = c[1] /\ y = FlipY(c[2])
  BY FlipCell
<1>2. \A u \in Int : /\ (64 * (2 * u + 1)) \div 32 = 4 * u + 2
                    /\ ((4 * u + 2 - 2) * 32) \div 2 = u * 64
  OBVIOUS
<1>3. B2_PTM = 32
  BY DEF B2_PTM, MAP_TILE_SIZE, B2METER_PER_TILE
<1>4. LoadWall(x, y, vent) = [centre |-> <<4 * x + 2, 4 * y + 2>>, halfWidth |-> 2,
                              category |-> IF vent THEN "WALL" ELSE "VENTILATION"]
  BY <1>2, <1>3 DEF LoadWall, MAP_TILE_SIZE, B2METER_PER_TILE
<1>5. Place(c) = <<x * 64, y * 64>>
  BY <1>1, PlaceOfCell DEF TileSize
<1>6. Corner(LoadWall(x, y, vent)) = [d \in {1, 2} |-> IF d = 1 THEN x * 64 ELSE y * 64]
  BY <1>2, <1>3, <1>4 DEF Corner
<1>7. [d \in {1, 2} |-> IF d = 1 THEN x * 64 ELSE y * 64] = <<x * 64, y * 64>>
  OBVIOUS
<1>8. LoadWall(x, y, vent) \in Bodies
  BY <1>4 DEF Bodies, B2METER_PER_TILE
<1> QED  BY <1>1, <1>5, <1>6, <1>7, <1>8 DEF LoadShadowCaster, MAP_TILE_SIZE

-----------------------------------------------------------------------------
(* One drawable layer.                                                     *)

(* What the loop of ParseDrawableLayer has after k tiles, from the tile    *)
(* before.                                                                 *)
QuadsAfter(layer, f, k) ==
  IF k = 0 THEN <<>>
  ELSE IF layer.tiles[Visited(k - 1)] = 0 THEN f[k - 1]
  ELSE Append(f[k - 1], AddTile(Visited(k - 1), layer.tiles[Visited(k - 1)]))

LEMMA QuadsExist ==
  ASSUME NEW layer
  PROVE  \E f : f = [k \in 0 .. N |-> QuadsAfter(layer, f, k)]
<1> DEFINE Upto(m) == \E f : f = [k \in 0 .. m |-> QuadsAfter(layer, f, k)]
           T       == {m \in 0 .. N : ~ Upto(m)}
<1>1. Upto(0)
  <2>1. [k \in 0 .. 0 |-> <<>>] = [k \in 0 .. 0 |-> QuadsAfter(layer, [j \in 0 .. 0 |-> <<>>], k)]
    BY DEF QuadsAfter
  <2> QED  BY <2>1
<1>2. ASSUME NEW m \in 1 .. N, Upto(m - 1)
      PROVE  Upto(m)
  <2>1. PICK g : g = [k \in 0 .. m - 1 |-> QuadsAfter(layer, g, k)]
    BY <1>2
  <2> DEFINE f == [k \in 0 .. m |-> IF k = m THEN QuadsAfter(layer, g, m) ELSE g[k]]
  <2>2. \A k \in 0 .. m - 1 : f[k] = g[k]
    BY NIsNat
  <2>3. ASSUME NEW k \in 0 .. m
        PROVE  QuadsAfter(layer, f, k) = QuadsAfter(layer, g, k)
    <3>1. k = 0 \/ k - 1 \in 0 .. m - 1
      BY NIsNat
    <3> HIDE DEF f
    <3> QED  BY <2>2, <3>1 DEF QuadsAfter
  <2>4. \A k \in 0 .. m - 1 : f[k] = QuadsAfter(layer, g, k)
    BY <2>1, <2>2
  <2>5. f[m] = QuadsAfter(layer, g, m)
    BY NIsNat
  <2>6. f = [k \in 0 .. m |-> f[k]]
    OBVIOUS
  <2> HIDE DEF f
  <2>7. \A k \in 0 .. m : f[k] = QuadsAfter(layer, f, k)
    BY <2>3, <2>4, <2>5
  <2>8. f = [k \in 0 .. m |-> QuadsAfter(layer, f, k)]
    BY <2>6, <2>7
  <2> QED  BY <2>8
<1>3. T = {}
  <2> SUFFICES ASSUME T # {} PROVE FALSE
    OBVIOUS
  <2>1. PICK m \in T : \A k \in T : m <= k
    <3>1. T \in SUBSET Nat
      BY NIsNat
    <3> HIDE DEF T
    <3> QED  BY <3>1, NatMin
  <2>2. m \in 1 .. N /\ m - 1 \in 0 .. N /\ ~ Upto(m)
    <3> HIDE DEF Upto
    <3> QED  BY <1>1, NIsNat
  <2>3. Upto(m - 1)
    <3> HIDE DEF Upto
    <3> QED  BY <2>1, <2>2
  <2> QED  BY <1>2, <2>2, <2>3
<1>4. Upto(N)
  <2> HIDE DEF Upto
  <2> QED  BY <1>3, NIsNat
<1> QED  BY <1>4

(* ParseDrawableLayer is the function that satisfies the recursion.        *)
LEMMA ParsedLayer ==
  ASSUME NEW layer
  PROVE  \E f : /\ \A k \in 0 .. N : f[k] = QuadsAfter(layer, f, k)
               /\ ParseDrawableLayer(layer) = f[N]
<1> DEFINE f == CHOOSE g : g = [k \in 0 .. N |-> QuadsAfter(layer, g, k)]
<1>1. f = [k \in 0 .. N |-> QuadsAfter(layer, f, k)]
  BY QuadsExist, Zenon
<1>2. ParseDrawableLayer(layer) = f[N]
  BY Zenon DEF ParseDrawableLayer, QuadsAfter, N
<1> HIDE DEF f
<1>3. \A k \in 0 .. N : f[k] = QuadsAfter(layer, f, k)
  BY <1>1
<1> QED  BY <1>2, <1>3

SetCells(layer) == {c \in Cells : layer.tiles[c] # 0}

(* The cells that are set among the first k the loop visits.               *)
SetBefore(layer, k) == {c \in SetCells(layer) : \E j \in 0 .. k - 1 : Visited(j) = c}

QuadsOf(layer) == {AddTile(c, layer.tiles[c]) : c \in Cells}

(* The quads in seq are those of the cells in S, as many as there are.     *)
Draws(seq, layer, S) ==
  /\ seq \in Seq(QuadsOf(layer))
  /\ IsFiniteSet(S) /\ Len(seq) = Cardinality(S)
  /\ \A c \in S : \E k \in 1 .. Len(seq) : seq[k].world = Place(c)

LEMMA DrawsMore ==
  ASSUME NEW layer, NEW seq, NEW S, NEW c \in Cells \ S, Draws(seq, layer, S)
  PROVE  Draws(Append(seq, AddTile(c, layer.tiles[c])), layer, S \cup {c})
<1> DEFINE quad == AddTile(c, layer.tiles[c])
           new  == Append(seq, quad)
           T    == S \cup {c}
<1>1. quad \in QuadsOf(layer) /\ quad.world = Place(c)
  BY PlaceOfCell DEF QuadsOf, AddTile
<1> HIDE DEF quad
<1>2. /\ seq \in Seq(QuadsOf(layer)) /\ Len(seq) \in Nat
      /\ new \in Seq(QuadsOf(layer)) /\ Len(new) = Len(seq) + 1
      /\ \A k \in 1 .. Len(seq) : new[k] = seq[k]
      /\ new[Len(seq) + 1] = quad
  BY <1>1 DEF Draws
<1>3. IsFiniteSet(T) /\ Cardinality(T) = Cardinality(S) + 1
  BY FS_AddElement DEF Draws
<1> HIDE DEF new
<1>4. 1 .. Len(new) = (1 .. Len(seq)) \cup {Len(seq) + 1}
  <2>1. \A m \in Nat : 1 .. m + 1 = (1 .. m) \cup {m + 1}
    OBVIOUS
  <2> QED  BY <1>2, <2>1
<1>5. \A d \in T : \E k \in 1 .. Len(new) : new[k].world = Place(d)
  <2>1. ASSUME NEW d \in S PROVE \E k \in 1 .. Len(new) : new[k].world = Place(d)
    <3>1. PICK k \in 1 .. Len(seq) : seq[k].world = Place(d)
      BY DEF Draws
    <3> QED  BY <1>2, <1>4, <3>1, Zenon
  <2>2. \E k \in 1 .. Len(new) : new[k].world = Place(c)
    BY <1>1, <1>2, <1>4, Zenon
  <2> QED  BY <2>1, <2>2
<1>6. Len(new) = Cardinality(T)
  BY <1>2, <1>3 DEF Draws
<1> QED  BY <1>2, <1>3, <1>5, <1>6 DEF Draws, new, quad

(* By induction over the tiles visited: every tile that is set is drawn,   *)
(* once and in its place.                                                  *)
LEMMA LayerDrawn ==
  ASSUME NEW layer
  PROVE  Draws(ParseDrawableLayer(layer), layer, SetCells(layer))
<1>1. PICK f : /\ \A k \in 0 .. N : f[k] = QuadsAfter(layer, f, k)
               /\ ParseDrawableLayer(layer) = f[N]
  BY ParsedLayer
<1> DEFINE Good(k) == Draws(f[k], layer, SetBefore(layer, k))
           T       == {k \in 0 .. N : ~ Good(k)}
<1>2. Good(0)
  <2>1. f[0] = <<>>
    BY <1>1, NIsNat DEF QuadsAfter
  <2>2. SetBefore(layer, 0) = {}
    BY DEF SetBefore
  <2> QED  BY <2>1, <2>2, FS_EmptySet DEF Draws
<1>3. ASSUME NEW k \in 1 .. N, Good(k - 1)
      PROVE  Good(k)
  <2> DEFINE c == Visited(k - 1)
  <2>1. k - 1 \in 0 .. N - 1 /\ k \in 0 .. N /\ k # 0
    BY NIsNat
  <2>2. c \in Cells
    BY <2>1, VisitedCell
  <2>3. \A j \in 0 .. (k - 1) - 1 : Visited(j) # c
    BY <2>1, VisitedOnce, NIsNat
  <2>4. \A j : j \in 0 .. k - 1 <=> j \in 0 .. (k - 1) - 1 \/ j = k - 1
    BY <2>1, NIsNat
  <2>5. c \notin SetBefore(layer, k - 1)
    BY <2>3 DEF SetBefore
  <2>6. f[k] = QuadsAfter(layer, f, k)
    BY <1>1, <2>1
  <2> HIDE DEF c
  <2>7. CASE layer.tiles[c] = 0
    <3>1. SetBefore(layer, k) = SetBefore(layer, k - 1)
      BY <2>4, <2>7, Zenon DEF SetBefore, SetCells, c
    <3>2. f[k] = f[k - 1]
      BY <2>1, <2>6, <2>7 DEF QuadsAfter, c
    <3> QED  BY <1>3, <3>1, <3>2
  <2>8. CASE layer.tiles[c] # 0
    <3>1. SetBefore(layer, k) = SetBefore(layer, k - 1) \cup {c}
      <4>1. SetBefore(layer, k) \subseteq SetBefore(layer, k - 1) \cup {c}
        BY <2>4, Zenon DEF SetBefore, c
      <4>2. SetBefore(layer, k - 1) \subseteq SetBefore(layer, k)
        BY <2>4, Zenon DEF SetBefore
      <4>3. c \in SetBefore(layer, k)
        BY <2>2, <2>4, <2>8, Zenon DEF SetBefore, SetCells, c
      <4> QED  BY <4>1, <4>2, <4>3
    <3>2. f[k] = Append(f[k - 1], AddTile(c, layer.tiles[c]))
      BY <2>1, <2>6, <2>8 DEF QuadsAfter, c
    <3>3. Draws(f[k - 1], layer, SetBefore(layer, k - 1))
      BY <1>3
    <3>4. c \in Cells \ SetBefore(layer, k - 1)
      BY <2>2, <2>5
    <3>5. Draws(Append(f[k - 1], AddTile(c, layer.tiles[c])), layer, SetBefore(layer, k - 1) \cup {c})
      BY <3>3, <3>4, DrawsMore
    <3> QED  BY <3>1, <3>2, <3>5
  <2> QED  BY <2>7, <2>8
<1>4. T = {}
  <2> SUFFICES ASSUME T # {} PROVE FALSE
    OBVIOUS
  <2> HIDE DEF Good
  <2>1. PICK m \in T : \A k \in T : m <= k
    <3>1. T \in SUBSET Nat
      BY NIsNat
    <3> HIDE DEF T
    <3> QED  BY <3>1, NatMin
  <2>2. m \in 1 .. N /\ m - 1 \in 0 .. N /\ ~ Good(m)
    BY <1>2, NIsNat
  <2>3. Good(m - 1)
    BY <2>1, <2>2
  <2> QED  BY <1>3, <2>2, <2>3
<1>5. Good(N)
  <2> HIDE DEF Good
  <2> QED  BY <1>4, NIsNat
<1>6. SetBefore(layer, N) = SetCells(layer)
  BY EveryCellVisited DEF SetBefore, SetCells
<1> QED  BY <1>1, <1>5, <1>6

-----------------------------------------------------------------------------
(* The template.                                                           *)

WallsOf(layer) == {c \in Cells : TileId(layer.tiles[c]) = ID_WALL}

(* Both obstacle flags are set at exactly the cells in S.                  *)
Marked(tt, S) ==
  /\ DOMAIN tt = 0 .. N - 1
  /\ \A c \in Cells :
       /\ "TILE_SHADOW" \in tt[Index(c[1], FlipY(c[2]))] <=> c \in S
       /\ "TILE_WALL" \in tt[Index(c[1], FlipY(c[2]))] <=> c \in S

LEMMA EmptyTileIsNoWall == TileId(0) # ID_WALL
<1>1. XCount * YCount \in Nat /\ MapsetGid \in Nat /\ ObjectsetGid = MapsetGid + XCount * YCount
  BY MapAssumption, Product
<1> DEFINE m == MapsetGid
           p == XCount * YCount
<1>2. m \in Nat /\ p \in Nat /\ ObjectsetGid = m + p /\ m > 0
  BY <1>1, MapAssumption
<1> HIDE DEF p
<1> QED  BY <1>2 DEF TileId, ID_WALL

LEMMA WallLayerMarks ==
  ASSUME NEW layer, NEW tt, NEW S, Marked(tt, S)
  PROVE  Marked(ParseWallLayer(layer, tt), S \cup WallsOf(layer))
<1> DEFINE new == ParseWallLayer(layer, tt)
<1>1. DOMAIN new = 0 .. N - 1
  BY DEF ParseWallLayer, Marked
<1>2. ASSUME NEW c \in Cells
      PROVE  new[Index(c[1], FlipY(c[2]))]
               = tt[Index(c[1], FlipY(c[2]))] \cup WallFlags(layer.tiles[c])
  <2> DEFINE k == Index(c[1], FlipY(c[2]))
  <2>1. k \in 0 .. N - 1
    BY FlipCell, IndexOfCell
  <2>2. \A d \in Cells : Index(d[1], FlipY(d[2])) = k => d = c
    <3> SUFFICES ASSUME NEW d \in Cells, Index(d[1], FlipY(d[2])) = k PROVE d = c
      OBVIOUS
    <3>1. /\ Flip(c) \in Cells /\ Flip(c)[1] = c[1] /\ Flip(c)[2] = FlipY(c[2])
          /\ Flip(d) \in Cells /\ Flip(d)[1] = d[1] /\ Flip(d)[2] = FlipY(d[2])
          /\ Flip(Flip(c)) = c /\ Flip(Flip(d)) = d
      BY FlipCell
    <3>2. Flip(c) = Flip(d)
      BY <3>1, IndexIsUnique
    <3> QED  BY <3>1, <3>2
  <2>3. {d \in Cells : Index(d[1], FlipY(d[2])) = k} = {c}
    BY <2>2
  <2>4. new[k] = tt[k] \cup UNION {WallFlags(layer.tiles[cell]) :
                                     cell \in {d \in Cells : Index(d[1], FlipY(d[2])) = k}}
    BY <2>1, Zenon DEF ParseWallLayer, Marked
  <2>5. UNION {WallFlags(layer.tiles[cell]) : cell \in {c}} = WallFlags(layer.tiles[c])
    OBVIOUS
  <2> HIDE DEF new, k
  <2>6. new[k] = tt[k] \cup WallFlags(layer.tiles[c])
    BY <2>3, <2>4, <2>5
  <2> QED  BY <2>6 DEF k
<1>3. ASSUME NEW c \in Cells
      PROVE  /\ "TILE_SHADOW" \in WallFlags(layer.tiles[c]) <=> c \in WallsOf(layer)
             /\ "TILE_WALL" \in WallFlags(layer.tiles[c]) <=> c \in WallsOf(layer)
  <2>1. CASE layer.tiles[c] = 0
    BY <2>1, EmptyTileIsNoWall DEF WallFlags, WallsOf
  <2>2. CASE layer.tiles[c] # 0 /\ TileId(layer.tiles[c]) = ID_WALL
    BY <2>2 DEF WallFlags, WallsOf, ID_WALL, ID_VENT
  <2>3. CASE layer.tiles[c] # 0 /\ TileId(layer.tiles[c]) # ID_WALL
    BY <2>3 DEF WallFlags, WallsOf
  <2> QED  BY <2>1, <2>2, <2>3
<1> HIDE DEF new
<1>4. ASSUME NEW c \in Cells
      PROVE  /\ "TILE_SHADOW" \in new[Index(c[1], FlipY(c[2]))] <=> c \in S \cup WallsOf(layer)
             /\ "TILE_WALL" \in new[Index(c[1], FlipY(c[2]))] <=> c \in S \cup WallsOf(layer)
  <2>1. /\ "TILE_SHADOW" \in tt[Index(c[1], FlipY(c[2]))] <=> c \in S
        /\ "TILE_WALL" \in tt[Index(c[1], FlipY(c[2]))] <=> c \in S
    BY DEF Marked
  <2> QED  BY <1>2, <1>3, <2>1
<1> QED  BY <1>1, <1>4 DEF Marked, new

-----------------------------------------------------------------------------
(* The invariants.                                                         *)

Parts ==
  map = [bgLayer |-> map.bgLayer, fgLayer |-> map.fgLayer, tileTemplate |-> map.tileTemplate]

(* Where parsing and loading are.                                          *)
PlaceInv ==
  /\ layers \in Seq(TmxLayers) /\ objects \in Seq(TmxObjects)
  /\ pc \in {"tilesets", "layers", "objects", "load", "done", "thrown"}
  /\ pc = "tilesets" => n = 1
  /\ pc = "layers" => n \in 1 .. Len(layers) + 1
  /\ pc = "objects" => n \in 1 .. Len(objects) + 1
  /\ pc = "load" => n \in 0 .. N
  /\ pc = "done" => n = N
  /\ Parts

(* The number of layers that have been read.                               *)
Read == IF pc \in {"tilesets", "layers"} THEN n - 1 ELSE Len(layers)

NamedUpto(name, m) == {k \in 1 .. m : layers[k].name = name}

(* The template marks the walls of the walls layers read so far, and so    *)
(* does the map's once it has been set.                                    *)
WallsUpto(m) == {c \in Cells : \E k \in NamedUpto("walls", m) : c \in WallsOf(layers[k])}

TemplateInv ==
  /\ pc # "thrown" => Marked(tileTemplate, WallsUpto(Read))
  /\ pc \in {"load", "done"} => Marked(map.tileTemplate, WallsUpto(Len(layers)))

(* What stands in the level are the walls on the tiles loaded so far.      *)
WallsLoaded(m) ==
  {c \in WallsUpto(Len(layers)) : \E k \in 0 .. m - 1 : Flip(Visited(k)) = c}

ObstacleInv ==
  /\ globalBodies \in Seq(Bodies)
  /\ pc \in {"load", "done"} =>
       Covers(shadowCasters, WallsLoaded(n)) /\ Covers(Corners(globalBodies), WallsLoaded(n))
  /\ pc \notin {"load", "done"} => shadowCasters = <<>> /\ globalBodies = <<>>

(* Each drawable layer is the last of its name among those read so far.    *)
LastOf(mapLayer, name, m) ==
  /\ NamedUpto(name, m) = {} => mapLayer = NULL
  /\ NamedUpto(name, m) # {} =>
       \E last \in NamedUpto(name, m) :
         /\ \A j \in NamedUpto(name, m) : j <= last
         /\ mapLayer = ParseDrawableLayer(layers[last])

DrawnInv ==
  pc # "thrown" => LastOf(map.bgLayer, "background", Read) /\ LastOf(map.fgLayer, "foreground", Read)

(* The lights are those of the objects read so far, in their order.        *)
Circles(m) == {k \in 1 .. m : IsLight(objects[k])}

LightOf(object) ==
  [pos    |-> <<object.x, FlipPixelY(object.y)>>,
   radius |-> object.rx,
   color  |-> LightColor(object)]

LitBy(m) ==
  /\ lightSources \in Seq({LightOf(object) : object \in TmxObjects})
  /\ Len(lightSources) = Cardinality(Circles(m))
  /\ \A k \in Circles(m) :
       lightSources[Cardinality({j \in Circles(m) : j <= k})] = LightOf(objects[k])

LightInv ==
  /\ pc \in {"tilesets", "layers"} => lightSources = <<>>
  /\ pc = "objects" => LitBy(n - 1)
  /\ pc \in {"load", "done"} => LitBy(Len(objects))

-----------------------------------------------------------------------------
LEMMA PlaceInit == Init => PlaceInv
<1> SUFFICES ASSUME Init PROVE PlaceInv
  OBVIOUS
<1>1. layers \in Seq(TmxLayers)
  BY DEF Init
<1>2. objects \in Seq(TmxObjects)
  BY DEF Init
<1>3. pc = "tilesets" /\ n = 1 /\ Parts
  BY DEF Init, Parts
<1> QED  BY <1>1, <1>2, <1>3 DEF PlaceInv

LEMMA PlaceStep == PlaceInv /\ [Next]_vars => PlaceInv'
<1> SUFFICES ASSUME PlaceInv, [Next]_vars PROVE PlaceInv'
  OBVIOUS
<1>0. /\ Len(layers) \in Nat /\ Len(objects) \in Nat /\ N \in Nat
      /\ layers \in Seq(TmxLayers) /\ objects \in Seq(TmxObjects)
  BY NIsNat DEF PlaceInv
<1>1. CASE FindTilesets
  BY <1>0, <1>1 DEF FindTilesets, PlaceInv, Parts
<1>2. CASE ParseBackground \/ ParseForeground
  <2>1. /\ UNCHANGED <<layers, objects, pc>> /\ pc = "layers" /\ n <= Len(layers) /\ n' = n + 1
    BY <1>2 DEF ParseBackground, ParseForeground, IsNext
  <2>2. Parts'
    <3>1. CASE ParseBackground
      BY <3>1 DEF ParseBackground, PlaceInv, Parts
    <3>2. CASE ParseForeground
      BY <3>2 DEF ParseForeground, PlaceInv, Parts
    <3> QED  BY <1>2, <3>1, <3>2
  <2> QED  BY <1>0, <2>1, <2>2 DEF PlaceInv
<1>3. CASE ParseWalls \/ SkipLayer \/ EndLayers
  BY <1>0, <1>3 DEF ParseWalls, SkipLayer, EndLayers, IsNext, PlaceInv, Parts
<1>4. CASE ParseObject
  BY <1>0, <1>4 DEF ParseObject, PlaceInv, Parts
<1>5. CASE SetTileTemplate
  <2>1. Parts'
    BY <1>5 DEF SetTileTemplate, PlaceInv, Parts
  <2> QED  BY <1>0, <1>5, <2>1 DEF SetTileTemplate, PlaceInv
<1>6. CASE LoadTile
  <2>1. /\ UNCHANGED <<layers, objects, pc, map>> /\ pc = "load" /\ n < N /\ n' = n + 1
    BY <1>6 DEF LoadTile, N
  <2> QED  BY <1>0, <2>1 DEF PlaceInv, Parts
<1>7. CASE EndLoad
  BY <1>0, <1>7 DEF EndLoad, PlaceInv, Parts, N
<1>8. CASE UNCHANGED vars
  BY <1>8 DEF vars, PlaceInv, Parts
<1> QED
  BY <1>1, <1>2, <1>3, <1>4, <1>5, <1>6, <1>7, <1>8 DEF Next, ParseMap, LoadMap

(* What a step reads of the layers and what it leaves alone: one more      *)
(* layer, or no more than were read before.                                *)
LEMMA ReadStep ==
  ASSUME PlaceInv, [Next]_vars, pc' # "thrown"
  PROVE  /\ Read \in 0 .. Len(layers) /\ UNCHANGED <<layers, objects>> /\ pc # "thrown"
         /\ ~ (ParseBackground \/ ParseForeground \/ ParseWalls \/ SkipLayer) => Read' = Read
         /\ ParseBackground \/ ParseForeground \/ ParseWalls \/ SkipLayer =>
              n = Read + 1 /\ n \in 1 .. Len(layers) /\ Read' = n
<1>0. Len(layers) \in Nat
  BY DEF PlaceInv
<1>1. Read \in 0 .. Len(layers)
  BY <1>0 DEF PlaceInv, Read
<1> DEFINE Parses  == ParseBackground \/ ParseForeground \/ ParseWalls \/ SkipLayer
           Keeps   == UNCHANGED <<layers, objects>> /\ pc # "thrown"
<1>2. ASSUME Parses
      PROVE  Keeps /\ n = Read + 1 /\ n \in 1 .. Len(layers) /\ Read' = n
  <2>1. /\ UNCHANGED <<layers, objects, pc>> /\ pc = "layers" /\ n <= Len(layers) /\ n' = n + 1
    BY <1>2 DEF ParseBackground, ParseForeground, ParseWalls, SkipLayer, IsNext
  <2> QED  BY <1>0, <2>1 DEF PlaceInv, Read
<1>3. ASSUME FindTilesets PROVE Keeps /\ Read' = Read
  BY <1>0, <1>3 DEF FindTilesets, PlaceInv, Read
<1>4. ASSUME EndLayers PROVE Keeps /\ Read' = Read
  BY <1>0, <1>4 DEF EndLayers, PlaceInv, Read
<1>5. ASSUME ParseObject \/ SetTileTemplate PROVE Keeps /\ Read' = Read
  BY <1>0, <1>5 DEF ParseObject, SetTileTemplate, PlaceInv, Read
<1>6. ASSUME LoadTile \/ EndLoad PROVE Keeps /\ Read' = Read
  <2>1. pc = "load" /\ pc' \in {"load", "done"} /\ UNCHANGED <<layers, objects>>
    BY <1>6 DEF LoadTile, EndLoad
  <2> QED  BY <1>0, <2>1 DEF Read
<1>7. ASSUME UNCHANGED vars PROVE Keeps /\ Read' = Read
  BY <1>0, <1>7 DEF vars, PlaceInv, Read
<1> QED
  BY <1>1, <1>2, <1>3, <1>4, <1>5, <1>6, <1>7 DEF Next, ParseMap, LoadMap

LEMMA NamedMore ==
  ASSUME NEW name, NEW m \in Nat \ {0}
  PROVE  /\ layers[m].name = name => NamedUpto(name, m) = NamedUpto(name, m - 1) \cup {m}
         /\ layers[m].name # name => NamedUpto(name, m) = NamedUpto(name, m - 1)
<1>1. \A k : k \in 1 .. m <=> k \in 1 .. m - 1 \/ k = m
  OBVIOUS
<1> QED  BY <1>1 DEF NamedUpto

LEMMA TemplateInit == Init => TemplateInv
<1> SUFFICES ASSUME Init PROVE TemplateInv
  OBVIOUS
<1>1. pc = "tilesets" /\ n = 1 /\ tileTemplate = [k \in 0 .. N - 1 |-> {}]
  BY DEF Init, N
<1>2. NamedUpto("walls", 0) = {}
  BY DEF NamedUpto
<1>3. Read = 0 /\ WallsUpto(0) = {}
  BY <1>1, <1>2 DEF Read, WallsUpto
<1>4. \A c \in Cells : Index(c[1], FlipY(c[2])) \in 0 .. N - 1
  BY FlipCell, IndexOfCell
<1>5. Marked(tileTemplate, {})
  BY <1>1, <1>4 DEF Marked
<1> QED  BY <1>1, <1>3, <1>5 DEF TemplateInv

LEMMA TemplateStep == PlaceInv /\ TemplateInv /\ [Next]_vars => TemplateInv'
<1> SUFFICES ASSUME PlaceInv, TemplateInv, [Next]_vars PROVE TemplateInv'
  OBVIOUS
<1>1. ASSUME pc' # "thrown"
      PROVE  Marked(tileTemplate, WallsUpto(Read))' /\ UNCHANGED layers
  <2>0. /\ Marked(tileTemplate, WallsUpto(Read)) /\ UNCHANGED layers
        /\ Len(layers) \in Nat /\ Read \in 0 .. Len(layers)
        /\ ~ (ParseBackground \/ ParseForeground \/ ParseWalls \/ SkipLayer) => Read' = Read
        /\ ParseBackground \/ ParseForeground \/ ParseWalls \/ SkipLayer =>
             n = Read + 1 /\ n \in 1 .. Len(layers) /\ Read' = n
    BY <1>1, ReadStep DEF TemplateInv, PlaceInv
  <2>1. \A m : WallsUpto(m)' = WallsUpto(m)
    BY <2>0 DEF WallsUpto, NamedUpto
  <2>2. CASE ParseWalls
    <3>1. /\ tileTemplate' = ParseWallLayer(layers[n], tileTemplate) /\ layers[n].name = "walls"
          /\ n = Read + 1 /\ n \in Nat \ {0} /\ Read = n - 1 /\ Read' = n
      BY <2>0, <2>2 DEF ParseWalls, IsNext
    <3>2. NamedUpto("walls", n) = NamedUpto("walls", Read) \cup {n}
      BY <3>1, NamedMore
    <3>3. WallsUpto(n) = WallsUpto(Read) \cup WallsOf(layers[n])
      BY <3>2, Zenon DEF WallsUpto, WallsOf
    <3>4. Marked(tileTemplate', WallsUpto(n))
      BY <2>0, <3>1, <3>3, WallLayerMarks
    <3>5. WallsUpto(Read)' = WallsUpto(n)
      BY <2>0, <3>1 DEF WallsUpto, NamedUpto
    <3> QED  BY <2>0, <3>4, <3>5 DEF Marked
  <2>3. CASE ParseBackground \/ ParseForeground \/ SkipLayer
    <3>1. /\ UNCHANGED tileTemplate /\ layers[n].name # "walls"
          /\ n = Read + 1 /\ n \in Nat \ {0} /\ Read = n - 1 /\ Read' = n
      BY <2>0, <2>3 DEF ParseBackground, ParseForeground, SkipLayer, IsNext
    <3>2. NamedUpto("walls", n) = NamedUpto("walls", Read)
      BY <3>1, NamedMore
    <3>3. WallsUpto(n) = WallsUpto(Read)
      BY <3>2 DEF WallsUpto
    <3>4. Marked(tileTemplate', WallsUpto(n))
      BY <2>0, <3>1, <3>3
    <3>5. WallsUpto(Read)' = WallsUpto(n)
      BY <2>0, <3>1 DEF WallsUpto, NamedUpto
    <3> QED  BY <2>0, <3>4, <3>5 DEF Marked
  <2>4. CASE ~ (ParseBackground \/ ParseForeground \/ ParseWalls \/ SkipLayer)
    <3>1. UNCHANGED tileTemplate
      BY <2>4 DEF Next, ParseMap, LoadMap, FindTilesets, EndLayers, ParseObject, SetTileTemplate,
                  LoadTile, EndLoad, vars
    <3> QED  BY <2>0, <2>1, <2>4, <3>1
  <2> QED  BY <2>2, <2>3, <2>4
<1>2. ASSUME pc' \in {"load", "done"}
      PROVE  Marked(map.tileTemplate, WallsUpto(Len(layers)))'
  <2>0. UNCHANGED layers
    BY <1>1, <1>2
  <2>1. \A m : WallsUpto(m)' = WallsUpto(m)
    BY <2>0 DEF WallsUpto, NamedUpto
  <2>2. CASE SetTileTemplate
    <3>1. map'.tileTemplate = tileTemplate /\ pc = "objects"
      BY <2>2 DEF SetTileTemplate, PlaceInv, Parts
    <3>2. Read = Len(layers)
      BY <3>1 DEF Read
    <3>3. Marked(tileTemplate, WallsUpto(Len(layers)))
      BY <3>1, <3>2 DEF TemplateInv
    <3> QED  BY <2>0, <2>1, <3>1, <3>3
  <2>3. CASE ~ SetTileTemplate
    <3>1. pc \in {"load", "done"} /\ UNCHANGED map
      BY <1>2, <2>3 DEF Next, ParseMap, LoadMap, FindTilesets, ParseBackground, ParseForeground,
                  ParseWalls, SkipLayer, IsNext, EndLayers, ParseObject, LoadTile, EndLoad, vars
    <3> QED  BY <2>0, <2>1, <3>1 DEF TemplateInv
  <2> QED  BY <2>2, <2>3
<1> QED  BY <1>1, <1>2 DEF TemplateInv

-----------------------------------------------------------------------------
(* The obstacles.                                                          *)

LEMMA LoadedMore ==
  ASSUME NEW m \in 0 .. N - 1
  PROVE  /\ Flip(Visited(m)) \in Cells \ WallsLoaded(m)
         /\ Flip(Visited(m)) \in WallsUpto(Len(layers)) =>
              WallsLoaded(m + 1) = WallsLoaded(m) \cup {Flip(Visited(m))}
         /\ Flip(Visited(m)) \notin WallsUpto(Len(layers)) => WallsLoaded(m + 1) = WallsLoaded(m)
<1>1. \A k : k \in 0 .. (m + 1) - 1 <=> k \in 0 .. m - 1 \/ k = m
  BY NIsNat
<1>2. Flip(Visited(m)) \in Cells /\ Flip(Flip(Visited(m))) = Visited(m)
  BY VisitedCell, FlipCell
<1>3. \A k \in 0 .. m - 1 : Flip(Visited(k)) # Flip(Visited(m))
  <2> SUFFICES ASSUME NEW k \in 0 .. m - 1, Flip(Visited(k)) = Flip(Visited(m)) PROVE FALSE
    OBVIOUS
  <2>1. k \in 0 .. N - 1 /\ k # m
    BY NIsNat
  <2>2. Flip(Flip(Visited(k))) = Visited(k)
    BY <2>1, VisitedCell, FlipCell
  <2>3. Visited(k) = Visited(m)
    BY <1>2, <2>2
  <2> QED  BY <2>1, <2>3, VisitedOnce
<1>4. Flip(Visited(m)) \notin WallsLoaded(m)
  BY <1>3 DEF WallsLoaded
<1>5. CASE Flip(Visited(m)) \in WallsUpto(Len(layers))
  <2>1. WallsLoaded(m + 1) \subseteq WallsLoaded(m) \cup {Flip(Visited(m))}
    BY <1>1, Zenon DEF WallsLoaded
  <2>2. WallsLoaded(m) \cup {Flip(Visited(m))} \subseteq WallsLoaded(m + 1)
    BY <1>1, <1>5, Zenon DEF WallsLoaded
  <2> QED  BY <1>2, <1>4, <1>5, <2>1, <2>2
<1>6. CASE Flip(Visited(m)) \notin WallsUpto(Len(layers))
  <2>1. WallsLoaded(m + 1) \subseteq WallsLoaded(m)
    BY <1>1, <1>6, Zenon DEF WallsLoaded
  <2>2. WallsLoaded(m) \subseteq WallsLoaded(m + 1)
    BY <1>1, Zenon DEF WallsLoaded
  <2> QED  BY <1>2, <1>4, <1>6, <2>1, <2>2
<1> QED  BY <1>5, <1>6

LEMMA AllLoaded == PlaceInv => WallsLoaded(N) = WallCells
<1> SUFFICES ASSUME PlaceInv PROVE WallsLoaded(N) = WallCells
  OBVIOUS
<1>1. ASSUME NEW c \in Cells PROVE \E k \in 0 .. N - 1 : Flip(Visited(k)) = c
  <2>1. Flip(c) \in Cells /\ Flip(Flip(c)) = c
    BY FlipCell
  <2>2. PICK k \in 0 .. N - 1 : Visited(k) = Flip(c)
    BY <2>1, EveryCellVisited
  <2> QED  BY <2>1, <2>2
<1>2. Named("walls") = NamedUpto("walls", Len(layers))
  BY DEF Named, NamedUpto, PlaceInv
<1>3. WallsUpto(Len(layers)) = WallCells
  BY <1>2 DEF WallsUpto, WallCells, WallsOf
<1> QED  BY <1>1, <1>3 DEF WallsLoaded, WallCells

LEMMA ObstacleInit == Init => ObstacleInv
BY DEF Init, ObstacleInv

LEMMA ObstacleStep == PlaceInv /\ TemplateInv /\ ObstacleInv /\ [Next]_vars => ObstacleInv'
<1> SUFFICES ASSUME PlaceInv, TemplateInv, ObstacleInv, [Next]_vars PROVE ObstacleInv'
  OBVIOUS
<1>1. CASE LoadTile
  <2> DEFINE c     == Flip(Visited(n))
             flags == map.tileTemplate[Index(Visited(n)[1], Visited(n)[2])]
             vent  == "TILE_VENT" \in flags
             W     == WallsUpto(Len(layers))
  <2>0. /\ pc = "load" /\ pc' = "load" /\ n \in 0 .. N - 1 /\ n' = n + 1 /\ UNCHANGED layers
        /\ shadowCasters' = IF "TILE_SHADOW" \in flags
                            THEN Append(shadowCasters, LoadShadowCaster(Visited(n)[1], Visited(n)[2]))
                            ELSE shadowCasters
        /\ globalBodies' = IF "TILE_WALL" \in flags
                           THEN Append(globalBodies, LoadWall(Visited(n)[1], Visited(n)[2], vent))
                           ELSE globalBodies
    BY <1>1, NIsNat DEF LoadTile, N, PlaceInv
  <2>1. c \in Cells /\ c[1] = Visited(n)[1] /\ FlipY(c[2]) = Visited(n)[2]
    <3>1. /\ Visited(n) \in Cells /\ Visited(n)[2] \in 0 .. Height - 1 /\ Height \in Int
      BY <2>0, VisitedCell, MapAssumption
    <3>2. c \in Cells /\ c[1] = Visited(n)[1] /\ c[2] = FlipY(Visited(n)[2])
      BY <3>1, FlipCell
    <3>3. FlipY(FlipY(Visited(n)[2])) = Visited(n)[2]
      BY <3>1 DEF FlipY
    <3> QED  BY <3>2, <3>3
  <2>2. /\ "TILE_SHADOW" \in flags <=> c \in W
        /\ "TILE_WALL" \in flags <=> c \in W
    <3>1. Marked(map.tileTemplate, W)
      BY <2>0 DEF TemplateInv
    <3> HIDE DEF c, W
    <3> QED  BY <2>1, <3>1 DEF Marked
  <2>3. /\ globalBodies \in Seq(Bodies)
        /\ Covers(shadowCasters, WallsLoaded(n)) /\ Covers(Corners(globalBodies), WallsLoaded(n))
    BY <2>0 DEF ObstacleInv
  <2>4. WallsLoaded(n)' = WallsLoaded(n + 1)
    BY <2>0 DEF WallsLoaded, WallsUpto, NamedUpto
  <2>5. /\ c \in Cells \ WallsLoaded(n)
        /\ c \in W => WallsLoaded(n + 1) = WallsLoaded(n) \cup {c}
        /\ c \notin W => WallsLoaded(n + 1) = WallsLoaded(n)
    BY <2>0, LoadedMore
  <2> HIDE DEF c, flags, vent, W
  <2>6. CASE c \notin W
    <3>1. UNCHANGED <<shadowCasters, globalBodies>> /\ WallsLoaded(n)' = WallsLoaded(n)
      BY <2>0, <2>2, <2>4, <2>5, <2>6
    <3>2. Covers(shadowCasters', WallsLoaded(n)) /\ Covers(Corners(globalBodies'), WallsLoaded(n))
      BY <2>3, <3>1
    <3>3. Covers(shadowCasters, WallsLoaded(n))' /\ Covers(Corners(globalBodies), WallsLoaded(n))'
      <4>1. Covers(shadowCasters', WallsLoaded(n)') /\ Covers(Corners(globalBodies'), WallsLoaded(n)')
        BY <3>1, <3>2
      <4> QED  BY <4>1, Zenon DEF Covers, Corners
    <3> QED  BY <2>0, <2>3, <3>1, <3>3 DEF ObstacleInv
  <2>7. CASE c \in W
    <3> DEFINE body == LoadWall(c[1], FlipY(c[2]), vent)
    <3>1. /\ shadowCasters' = Append(shadowCasters, LoadShadowCaster(c[1], FlipY(c[2])))
          /\ globalBodies' = Append(globalBodies, body)
      BY <2>0, <2>1, <2>2, <2>7
    <3>2. /\ body \in Bodies /\ Corner(body) = Place(c)
          /\ LoadShadowCaster(c[1], FlipY(c[2])) = Place(c)
      <4>1. vent \in BOOLEAN
        BY DEF vent
      <4> QED  BY <2>1, <4>1, CornerOfWall
    <3> HIDE DEF body
    <3>3. Corners(globalBodies') = Append(Corners(globalBodies), Place(c))
      BY <2>3, <3>1, <3>2, CornersAppend
    <3>4. WallsLoaded(n) \in SUBSET Cells
      BY DEF WallsLoaded, WallsUpto
    <3>5. /\ Covers(Append(shadowCasters, Place(c)), WallsLoaded(n) \cup {c})
          /\ Covers(Append(Corners(globalBodies), Place(c)), WallsLoaded(n) \cup {c})
      BY <2>3, <2>5, <3>4, CoversMore
    <3>6. WallsLoaded(n)' = WallsLoaded(n) \cup {c}
      BY <2>4, <2>5, <2>7
    <3>7. Covers(shadowCasters, WallsLoaded(n))' /\ Covers(Corners(globalBodies), WallsLoaded(n))'
      <4>1. Covers(shadowCasters', WallsLoaded(n)') /\ Covers(Corners(globalBodies'), WallsLoaded(n)')
        BY <3>1, <3>2, <3>3, <3>5, <3>6
      <4> QED  BY <4>1, Zenon DEF Covers, Corners
    <3>8. globalBodies' \in Seq(Bodies)
      BY <2>3, <3>1, <3>2
    <3> QED  BY <2>0, <3>7, <3>8 DEF ObstacleInv
  <2> QED  BY <2>6, <2>7
<1>2. CASE SetTileTemplate
  <2>1. /\ pc' = "load" /\ n' = 0 /\ shadowCasters' = <<>> /\ globalBodies' = <<>>
        /\ globalBodies \in Seq(Bodies) /\ UNCHANGED globalBodies
    BY <1>2 DEF SetTileTemplate, ObstacleInv
  <2>2. WallsLoaded(n)' = {}
    BY <2>1 DEF WallsLoaded
  <2>3. Corners(globalBodies)' = <<>>
    BY <2>1 DEF Corners
  <2>4. Covers(shadowCasters, WallsLoaded(n))' /\ Covers(Corners(globalBodies), WallsLoaded(n))'
    BY <2>1, <2>2, <2>3, CoversNone DEF Covers
  <2> QED  BY <2>1, <2>4 DEF ObstacleInv
<1>3. CASE EndLoad \/ UNCHANGED vars
  <2>1. /\ UNCHANGED <<layers, n, shadowCasters, globalBodies>>
        /\ pc \in {"load", "done"} <=> pc' \in {"load", "done"}
    BY <1>3 DEF EndLoad, vars
  <2>2. WallsLoaded(n)' = WallsLoaded(n)
    BY <2>1 DEF WallsLoaded, WallsUpto, NamedUpto
  <2>3. /\ Covers(shadowCasters, WallsLoaded(n)) => Covers(shadowCasters, WallsLoaded(n))'
        /\ Covers(Corners(globalBodies), WallsLoaded(n)) => Covers(Corners(globalBodies), WallsLoaded(n))'
    <3>1. /\ Covers(shadowCasters, WallsLoaded(n)) => Covers(shadowCasters', WallsLoaded(n)')
          /\ Covers(Corners(globalBodies), WallsLoaded(n)) => Covers(Corners(globalBodies'), WallsLoaded(n)')
      BY <2>1, <2>2
    <3> QED  BY <3>1, Zenon DEF Covers, Corners
  <2> QED  BY <2>1, <2>3 DEF ObstacleInv
<1>4. CASE FindTilesets \/ ParseBackground \/ ParseForeground \/ ParseWalls
  <2>1. /\ UNCHANGED <<shadowCasters, globalBodies>>
        /\ pc \notin {"load", "done"} /\ pc' \notin {"load", "done"}
    BY <1>4 DEF FindTilesets, ParseBackground, ParseForeground, ParseWalls, IsNext
  <2> QED  BY <2>1 DEF ObstacleInv
<1>5. CASE SkipLayer \/ EndLayers \/ ParseObject
  <2>1. /\ UNCHANGED <<shadowCasters, globalBodies>>
        /\ pc \notin {"load", "done"} /\ pc' \notin {"load", "done"}
    BY <1>5 DEF SkipLayer, EndLayers, ParseObject
  <2> QED  BY <2>1 DEF ObstacleInv
<1> QED  BY <1>1, <1>2, <1>3, <1>4, <1>5 DEF Next, ParseMap, LoadMap

(* Every wall of any walls layer of the file is one shadow caster and one  *)
(* body, both on its square of the level, and there are no others: for     *)
(* maps of any size and layers in any order.                               *)
THEOREM ObstaclesAreWalls == Spec => []ObstaclesMatchMap
<1>1. PlaceInv /\ ObstacleInv => ObstaclesMatchMap
  <2> SUFFICES ASSUME PlaceInv, ObstacleInv, pc = "done"
               PROVE  /\ Len(Corners(globalBodies)) = Cardinality(WallCells)
                      /\ Len(shadowCasters) = Cardinality(WallCells)
                      /\ \A c \in WallCells : /\ Hits(Corners(globalBodies), Place(c)) = 1
                                             /\ Hits(shadowCasters, Place(c)) = 1
    BY DEF ObstaclesMatchMap, Corners
  <2>1. Covers(shadowCasters, WallCells) /\ Covers(Corners(globalBodies), WallCells)
    BY AllLoaded DEF ObstacleInv, PlaceInv
  <2>2. /\ Len(Corners(globalBodies)) = Cardinality(WallCells)
        /\ Len(shadowCasters) = Cardinality(WallCells)
    BY <2>1 DEF Covers
  <2> QED  BY <2>1, <2>2, CoversHits
<1> QED
  BY <1>1, PlaceInit, PlaceStep, TemplateInit, TemplateStep, ObstacleInit, ObstacleStep, PTL
  DEF Spec

-----------------------------------------------------------------------------
(* The drawn layers.                                                       *)

LEMMA DrawnInit == Init => DrawnInv
<1> SUFFICES ASSUME Init PROVE DrawnInv
  OBVIOUS
<1>1. Read = 0 /\ map.bgLayer = NULL /\ map.fgLayer = NULL
  BY DEF Init, Read
<1>2. \A name : NamedUpto(name, 0) = {}
  BY DEF NamedUpto
<1> QED  BY <1>1, <1>2 DEF DrawnInv, LastOf

(* Reading one more layer.                                                 *)
LEMMA LastMore ==
  ASSUME NEW name, NEW old, NEW new, NEW m \in Nat \ {0}, LastOf(old, name, m - 1),
         new = IF layers[m].name = name THEN ParseDrawableLayer(layers[m]) ELSE old
  PROVE  LastOf(new, name, m)
<1>1. CASE layers[m].name = name
  <2>1. NamedUpto(name, m) = NamedUpto(name, m - 1) \cup {m}
    BY <1>1, NamedMore
  <2>2. \A j \in NamedUpto(name, m) : j <= m
    BY DEF NamedUpto
  <2>3. m \in NamedUpto(name, m) /\ new = ParseDrawableLayer(layers[m])
    BY <1>1, <2>1
  <2> QED  BY <2>2, <2>3, Zenon DEF LastOf
<1>2. CASE layers[m].name # name
  <2>1. NamedUpto(name, m) = NamedUpto(name, m - 1)
    BY <1>2, NamedMore
  <2> QED  BY <1>2, <2>1 DEF LastOf
<1> QED  BY <1>1, <1>2

LEMMA DrawnStep == PlaceInv /\ DrawnInv /\ [Next]_vars => DrawnInv'
<1> SUFFICES ASSUME PlaceInv, DrawnInv, [Next]_vars, pc' # "thrown"
             PROVE  LastOf(map.bgLayer, "background", Read)' /\ LastOf(map.fgLayer, "foreground", Read)'
  BY DEF DrawnInv
<1>0. /\ UNCHANGED layers /\ Len(layers) \in Nat /\ Read \in 0 .. Len(layers)
      /\ ~ (ParseBackground \/ ParseForeground \/ ParseWalls \/ SkipLayer) => Read' = Read
      /\ ParseBackground \/ ParseForeground \/ ParseWalls \/ SkipLayer =>
           n = Read + 1 /\ n \in 1 .. Len(layers) /\ Read' = n
      /\ LastOf(map.bgLayer, "background", Read) /\ LastOf(map.fgLayer, "foreground", Read)
  BY ReadStep DEF DrawnInv, PlaceInv
<1>1. ASSUME LastOf(map'.bgLayer, "background", Read'), LastOf(map'.fgLayer, "foreground", Read')
      PROVE  LastOf(map.bgLayer, "background", Read)' /\ LastOf(map.fgLayer, "foreground", Read)'
  BY <1>0, <1>1 DEF LastOf, NamedUpto
<1>2. CASE ParseBackground \/ ParseForeground \/ ParseWalls \/ SkipLayer
  <2>1. Read' = n /\ n \in Nat \ {0} /\ Read = n - 1
    BY <1>0, <1>2
  <2>2. /\ map'.bgLayer = IF layers[n].name = "background" THEN ParseDrawableLayer(layers[n])
                                                            ELSE map.bgLayer
        /\ map'.fgLayer = IF layers[n].name = "foreground" THEN ParseDrawableLayer(layers[n])
                                                            ELSE map.fgLayer
    <3>1. CASE ParseBackground
      BY <3>1 DEF ParseBackground, IsNext, PlaceInv, Parts
    <3>2. CASE ParseForeground
      BY <3>2 DEF ParseForeground, IsNext, PlaceInv, Parts
    <3>3. CASE ParseWalls \/ SkipLayer
      BY <3>3 DEF ParseWalls, SkipLayer, IsNext
    <3> QED  BY <1>2, <3>1, <3>2, <3>3
  <2>3. LastOf(map.bgLayer, "background", n - 1) /\ LastOf(map.fgLayer, "foreground", n - 1)
    BY <1>0, <2>1
  <2>4. LastOf(map'.bgLayer, "background", n) /\ LastOf(map'.fgLayer, "foreground", n)
    BY <2>1, <2>2, <2>3, LastMore
  <2> QED  BY <1>1, <2>1, <2>4
<1>3. CASE ~ (ParseBackground \/ ParseForeground \/ ParseWalls \/ SkipLayer)
  <2>1. map'.bgLayer = map.bgLayer /\ map'.fgLayer = map.fgLayer
    <3>1. CASE SetTileTemplate
      BY <3>1 DEF SetTileTemplate, PlaceInv, Parts
    <3>2. CASE ~ SetTileTemplate
      BY <1>3, <3>2 DEF Next, ParseMap, LoadMap, FindTilesets, EndLayers, ParseObject, LoadTile,
                        EndLoad, vars
    <3> QED  BY <3>1, <3>2
  <2> QED  BY <1>0, <1>1, <1>3, <2>1
<1> QED  BY <1>2, <1>3

(* Of several layers of one name the last is drawn, with every tile of it  *)
(* that is set once, where a wall on that tile would stand.                *)
THEOREM DrawnInPlace == Spec => []TilesDrawnInPlace
<1>1. ASSUME PlaceInv, NEW mapLayer, NEW name, LastOf(mapLayer, name, Len(layers))
      PROVE  DrawnLike(mapLayer, name)
  <2>1. Named(name) = NamedUpto(name, Len(layers))
    BY <1>1 DEF Named, NamedUpto, PlaceInv
  <2>2. CASE Named(name) = {}
    BY <1>1, <2>1, <2>2 DEF LastOf, DrawnLike
  <2>3. CASE Named(name) # {}
    <3>1. PICK k \in Named(name) : /\ \A j \in Named(name) : j <= k
                                  /\ mapLayer = ParseDrawableLayer(layers[k])
      BY <1>1, <2>1, <2>3 DEF LastOf
    <3> DEFINE last == CHOOSE i \in Named(name) : \A j \in Named(name) : j <= i
    <3>2. last \in Named(name) /\ \A j \in Named(name) : j <= last
      BY <3>1, Zenon
    <3> HIDE DEF last
    <3>3. \A i, j \in Nat : i <= j /\ j <= i => i = j
      OBVIOUS
    <3>4. Named(name) \subseteq Nat
      BY <2>1 DEF NamedUpto
    <3>5. last = k
      BY <3>1, <3>2, <3>3, <3>4
    <3>6. Draws(mapLayer, layers[k], SetCells(layers[k]))
      BY <3>1, LayerDrawn
    <3>7. /\ Len(mapLayer) = Cardinality(SetCells(layers[k]))
          /\ \A c \in SetCells(layers[k]) : \E i \in DOMAIN mapLayer : mapLayer[i].world = Place(c)
      BY <3>6 DEF Draws
    <3>8. SetCells(layers[k]) = {c \in Cells : layers[k].tiles[c] # 0}
      BY DEF SetCells
    <3> QED  BY <2>3, <3>5, <3>7, <3>8, Zenon DEF DrawnLike, last
  <2> QED  BY <2>2, <2>3
<1>2. PlaceInv /\ DrawnInv => TilesDrawnInPlace
  BY <1>1 DEF DrawnInv, Read, TilesDrawnInPlace
<1> QED
  BY <1>2, PlaceInit, PlaceStep, DrawnInit, DrawnStep, PTL DEF Spec

-----------------------------------------------------------------------------
(* The lights.                                                             *)

LEMMA CirclesFinite ==
  ASSUME NEW m \in Nat
  PROVE  /\ IsFiniteSet(Circles(m)) /\ Cardinality(Circles(m)) \in Nat
         /\ \A k \in Circles(m) :
              Cardinality({j \in Circles(m) : j <= k}) \in 1 .. Cardinality(Circles(m))
<1>1. IsFiniteSet(1 .. m) /\ Circles(m) \in SUBSET (1 .. m)
  BY FS_Interval DEF Circles
<1>2. IsFiniteSet(Circles(m)) /\ Cardinality(Circles(m)) \in Nat
  BY <1>1, FS_Subset, FS_CardinalityType
<1>3. ASSUME NEW k \in Circles(m)
      PROVE  Cardinality({j \in Circles(m) : j <= k}) \in 1 .. Cardinality(Circles(m))
  <2> DEFINE S == {j \in Circles(m) : j <= k}
  <2>1. S \in SUBSET Circles(m) /\ k \in S
    BY <1>1
  <2> HIDE DEF S
  <2>2. IsFiniteSet(S) /\ Cardinality(S) <= Cardinality(Circles(m)) /\ Cardinality(S) \in Nat
    BY <1>2, <2>1, FS_Subset, FS_CardinalityType
  <2>3. Cardinality(S) # 0
    BY <2>1, <2>2, FS_EmptySet
  <2>4. Cardinality(S) \in 1 .. Cardinality(Circles(m))
    BY <1>2, <2>2, <2>3
  <2> QED  BY <2>4 DEF S
<1> QED  BY <1>2, <1>3

LEMMA LightInit == Init => LightInv
BY DEF Init, LightInv

LEMMA LightStep == PlaceInv /\ LightInv /\ [Next]_vars => LightInv'
<1> SUFFICES ASSUME PlaceInv, LightInv, [Next]_vars PROVE LightInv'
  OBVIOUS
<1>1. CASE ParseObject
  <2>0. /\ pc = "objects" /\ pc' = "objects" /\ n' = n + 1 /\ UNCHANGED objects
        /\ n \in Nat \ {0} /\ n <= Len(objects) /\ objects[n] \in TmxObjects /\ LitBy(n - 1)
        /\ lightSources' = IF IsLight(objects[n]) THEN Append(lightSources, LightOf(objects[n]))
                                                  ELSE lightSources
    BY <1>1 DEF ParseObject, PlaceInv, LightInv, AddLight, LightOf
  <2>1. \A k : k \in 1 .. n <=> k \in 1 .. n - 1 \/ k = n
    BY <2>0
  <2>2. n - 1 \in Nat /\ n' - 1 = n
    BY <2>0
  <2> DEFINE old == Circles(n - 1)
             len == Cardinality(old)
  <2>3. /\ IsFiniteSet(old) /\ len \in Nat
        /\ \A k \in old : Cardinality({j \in old : j <= k}) \in 1 .. len
    BY <2>2, CirclesFinite
  <2>4. Circles(n - 1)' = Circles(n)
    BY <2>0, <2>2 DEF Circles
  <2>5. \A k \in old : k < n /\ k \in Nat
    BY <2>0 DEF Circles
  <2>6. CASE ~ IsLight(objects[n])
    <3>1. Circles(n) = old
      BY <2>1, <2>6, Zenon DEF Circles
    <3>2. LitBy(n)
      BY <2>0, <3>1 DEF LitBy
    <3>3. lightSources' = lightSources
      BY <2>0, <2>6
    <3>4. LitBy(n - 1)'
      BY <2>0, <2>4, <3>2, <3>3, Zenon DEF LitBy
    <3> QED  BY <2>0, <3>4 DEF LightInv
  <2>7. CASE IsLight(objects[n])
    <3>1. Circles(n) = old \cup {n} /\ n \notin old
      <4>1. Circles(n) \subseteq old \cup {n}
        BY <2>1, Zenon DEF Circles
      <4>2. old \cup {n} \subseteq Circles(n)
        BY <2>1, <2>7, Zenon DEF Circles
      <4>3. n \notin old
        BY <2>0, <2>5
      <4> QED  BY <4>1, <4>2, <4>3
    <3> DEFINE new == lightSources'
    <3>2. /\ lightSources \in Seq({LightOf(object) : object \in TmxObjects})
          /\ Len(lightSources) = len
      BY <2>0 DEF LitBy
    <3>3. new = Append(lightSources, LightOf(objects[n]))
      BY <2>0, <2>7
    <3>4. LightOf(objects[n]) \in {LightOf(object) : object \in TmxObjects}
      BY <2>0
    <3> HIDE DEF len, old
    <3>5. /\ new \in Seq({LightOf(object) : object \in TmxObjects}) /\ Len(new) = len + 1
          /\ \A k \in 1 .. len : new[k] = lightSources[k]
          /\ new[len + 1] = LightOf(objects[n])
      <4> HIDE DEF new
      <4> QED  BY <3>2, <3>3, <3>4
    <3>6. Cardinality(Circles(n)) = len + 1
      BY <2>3, <3>1, FS_AddElement DEF len
    <3>7. ASSUME NEW k \in Circles(n)
          PROVE  new[Cardinality({j \in Circles(n) : j <= k})] = LightOf(objects[k])
      <4>1. CASE k = n
        <5>1. \A j \in Circles(n) : j <= k
          BY <2>0, <2>5, <3>1, <4>1
        <5>2. {j \in Circles(n) : j <= k} = Circles(n)
          BY <5>1
        <5> QED  BY <3>5, <3>6, <4>1, <5>2
      <4>2. CASE k \in old
        <5>1. ~ (n <= k)
          BY <2>0, <2>5, <4>2
        <5>2. {j \in Circles(n) : j <= k} = {j \in old : j <= k}
          BY <3>1, <5>1
        <5>3. Cardinality({j \in old : j <= k}) \in 1 .. len
          BY <2>3, <4>2
        <5>4. lightSources[Cardinality({j \in old : j <= k})] = LightOf(objects[k])
          BY <2>0, <4>2 DEF LitBy, old
        <5> QED  BY <3>5, <5>2, <5>3, <5>4
      <4> QED  BY <3>1, <4>1, <4>2
    <3>8. Len(new) = Cardinality(Circles(n))
      BY <3>5, <3>6
    <3>9. LitBy(n - 1)'
      BY <2>0, <2>4, <3>5, <3>7, <3>8, Zenon DEF LitBy, new
    <3> QED  BY <2>0, <3>9 DEF LightInv
  <2> QED  BY <2>6, <2>7
<1>2. CASE EndLayers
  <2>1. pc' = "objects" /\ n' = 1 /\ lightSources' = <<>> /\ UNCHANGED objects
    BY <1>2 DEF EndLayers, LightInv
  <2>2. Circles(n - 1)' = {}
    BY <2>1 DEF Circles
  <2>3. LitBy(n - 1)'
    BY <2>1, <2>2, FS_EmptySet DEF LitBy
  <2> QED  BY <2>1, <2>3 DEF LightInv
<1>3. CASE SetTileTemplate
  <2>1. /\ pc = "objects" /\ pc' = "load" /\ UNCHANGED <<lightSources, objects>>
        /\ n - 1 = Len(objects)
    BY <1>3 DEF SetTileTemplate, PlaceInv
  <2>2. LitBy(Len(objects))
    BY <2>1 DEF LightInv
  <2>3. LitBy(Len(objects))'
    BY <2>1, <2>2 DEF LitBy, Circles
  <2> QED  BY <2>1, <2>3 DEF LightInv
<1>4. CASE LoadTile \/ EndLoad
  <2>1. pc = "load" /\ pc' \in {"load", "done"} /\ UNCHANGED <<lightSources, objects>>
    BY <1>4 DEF LoadTile, EndLoad
  <2>2. LitBy(Len(objects))
    BY <2>1 DEF LightInv
  <2>3. LitBy(Len(objects))'
    BY <2>1, <2>2 DEF LitBy, Circles
  <2> QED  BY <2>1, <2>3 DEF LightInv
<1>5. CASE FindTilesets \/ ParseBackground \/ ParseForeground \/ ParseWalls \/ SkipLayer
  <2>1. /\ UNCHANGED lightSources /\ pc \in {"tilesets", "layers"}
        /\ pc' \in {"tilesets", "layers", "thrown"}
    BY <1>5 DEF FindTilesets, ParseBackground, ParseForeground, ParseWalls, SkipLayer, IsNext
  <2> QED  BY <2>1 DEF LightInv
<1>6. CASE UNCHANGED vars
  BY <1>6 DEF vars, LightInv, LitBy, Circles
<1> QED  BY <1>1, <1>2, <1>3, <1>4, <1>5, <1>6 DEF Next, ParseMap, LoadMap

(* The lights of the level are the circles of the lights groups of the     *)
(* file, in their order, as far below the top edge of the level.           *)
THEOREM LightsAreCircles == Spec => []LightsMatchMap
<1>1. ASSUME PlaceInv, LightInv, pc = "done"
      PROVE  LightsMatchMap
  <2> DEFINE circles == Circles(Len(objects))
             rank(k) == Cardinality({j \in circles : j <= k})
  <2>1. /\ Len(lightSources) = Cardinality(circles)
        /\ \A k \in circles : lightSources[rank(k)] = LightOf(objects[k])
    BY <1>1 DEF LightInv, LitBy
  <2>2. circles = {k \in DOMAIN objects : /\ objects[k].group = "lights" /\ objects[k].ellipse
                                          /\ objects[k].rx = objects[k].ry}
    BY <1>1 DEF Circles, IsLight, PlaceInv
  <2>3. ASSUME NEW k \in circles
        PROVE  /\ lightSources[rank(k)].pos[1] = objects[k].x
               /\ lightSources[rank(k)].pos[2] + objects[k].y = Height * TileSize
               /\ lightSources[rank(k)].radius = objects[k].rx
               /\ objects[k].rgba # NULL => lightSources[rank(k)].color = objects[k].rgba
    <3>1. objects[k] \in TmxObjects
      BY <1>1 DEF PlaceInv, Circles
    <3>2. PICK y \in Int : y = objects[k].y
      BY <3>1, MapAssumption
    <3>3. lightSources[rank(k)] = LightOf(objects[k])
      BY <2>1
    <3> HIDE DEF rank, circles
    <3>4. /\ lightSources[rank(k)].pos[1] = objects[k].x
          /\ lightSources[rank(k)].pos[2] = FlipPixelY(y)
          /\ lightSources[rank(k)].radius = objects[k].rx
          /\ lightSources[rank(k)].color = LightColor(objects[k])
      BY <3>2, <3>3 DEF LightOf
    <3>5. FlipPixelY(y) + y = Height * TileSize
      BY MapAssumption DEF FlipPixelY, TileSize
    <3> QED  BY <3>2, <3>4, <3>5 DEF LightColor
  <2> QED  BY <2>1, <2>2, <2>3, Zenon DEF LightsMatchMap
<1>2. PlaceInv /\ LightInv => LightsMatchMap
  BY <1>1 DEF LightsMatchMap
<1> QED
  BY <1>2, PlaceInit, PlaceStep, LightInit, LightStep, PTL DEF Spec
=============================================================================
