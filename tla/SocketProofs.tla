---------------------------- MODULE SocketProofs ----------------------------
(***************************************************************************)
(* Proofs about PacketFactory and Socket, for bytes of any size, packets   *)
(* of any members and any number of them.                                  *)
(***************************************************************************)
EXTENDS Socket, SequenceTheorems, FiniteSetTheorems, WellFoundedInduction, TLAPS

-----------------------------------------------------------------------------
(* Sequences.                                                              *)

LEMMA IsSeq ==
  ASSUME NEW S, NEW n \in Nat, NEW f \in [1 .. n -> S]
  PROVE  f \in Seq(S) /\ Len(f) = n
OBVIOUS

LEMMA Associative ==
  ASSUME NEW S, NEW r \in Seq(S), NEW s \in Seq(S), NEW t \in Seq(S)
  PROVE  (r \o s) \o t = r \o (s \o t)
BY ConcatAssociative

LEMMA ConcatAppend ==
  ASSUME NEW S, NEW s \in Seq(S), NEW t \in Seq(S), NEW e \in S
  PROVE  s \o t \in Seq(S) /\ s \o Append(t, e) = Append(s \o t, e)
<1>1. s \o t \in Seq(S) /\ <<e>> \in Seq(S)
  BY ConcatProperties
<1>2. Append(t, e) = t \o <<e>> /\ Append(s \o t, e) = (s \o t) \o <<e>>
  BY <1>1, AppendIsConcat
<1> QED  BY <1>1, <1>2, Associative

-----------------------------------------------------------------------------
(* Numbers.                                                                *)

(* A set of numbers has a smallest: intervals from 0 are ordered by        *)
(* inclusion, and finite sets are well-founded under that.                 *)
LEMMA NatMin ==
  ASSUME NEW T \in SUBSET Nat, T # {}
  PROVE  \E m \in T : \A k \in T : m <= k
<1> DEFINE R == StrictSubsetOrdering(Nat)
           U == {0 .. k : k \in T}
<1>1. IsWellFoundedOn(R, FiniteSubsetsOf(Nat))
  BY FS_StrictSubsetOrderingWellFounded
<1>2. U \subseteq FiniteSubsetsOf(Nat) /\ U # {}
  <2>1. ASSUME NEW k \in T PROVE 0 .. k \in FiniteSubsetsOf(Nat)
    <3>1. IsFiniteSet(0 .. k)
      BY FS_Interval
    <3> QED  BY <3>1 DEF FiniteSubsetsOf
  <2> QED  BY <2>1
<1>3. \A x, y \in SUBSET Nat : x \subseteq y /\ x # y => <<x, y>> \in R
  BY DEF StrictSubsetOrdering
<1>4. \E x \in U : \A y \in U : ~ (<<y, x>> \in R)
  <2> HIDE DEF R, U
  <2> QED  BY <1>1, <1>2, WFMin
<1>5. PICK m \in T : \A k \in T : ~ (<<0 .. k, 0 .. m>> \in R)
  BY <1>4
<1>6. ASSUME NEW k \in T, k < m PROVE FALSE
  <2>1. /\ 0 .. k \in SUBSET Nat /\ 0 .. m \in SUBSET Nat
        /\ 0 .. k \subseteq 0 .. m /\ m \in 0 .. m /\ m \notin 0 .. k
    BY <1>6
  <2> HIDE DEF R
  <2>2. <<0 .. k, 0 .. m>> \in R
    BY <1>3, <2>1
  <2> QED  BY <1>5, <2>2
<1> QED  BY <1>5, <1>6

(* Induction up to n, over the set of the numbers for which it holds.      *)
LEMMA Induction ==
  ASSUME NEW n \in Nat, NEW T, 0 \in T, \A k \in 0 .. n - 1 : k \in T => k + 1 \in T
  PROVE  n \in T
<1> SUFFICES ASSUME n \notin T PROVE FALSE
  OBVIOUS
<1> DEFINE U == {k \in 0 .. n : k \notin T}
<1>1. U \in SUBSET Nat /\ U # {}
  OBVIOUS
<1>2. PICK m \in U : \A k \in U : m <= k
  <2> HIDE DEF U
  <2> QED  BY <1>1, NatMin
<1>3. m - 1 \in 0 .. n - 1 /\ m - 1 \notin U
  <2>1. m \in 0 .. n /\ m # 0
    OBVIOUS
  <2>2. \A k \in U : m <= k
    BY <1>2
  <2> HIDE DEF U
  <2> QED  BY <2>1, <2>2
<1>4. m - 1 \in T
  BY <1>3
<1>5. (m - 1) + 1 \in T /\ (m - 1) + 1 = m
  BY <1>3, <1>4
<1> QED  BY <1>5

(* Positions in base B, by repeated division.                              *)
LEMMA DivMod ==
  ASSUME NEW a \in Nat, NEW b \in Nat \ {0}
  PROVE  a \div b \in Nat /\ a % b \in 0 .. b - 1 /\ a = b * (a \div b) + (a % b)
<1>1. a \div b \in Int /\ a \div b >= 0
  OBVIOUS
<1>2. a % b \in 0 .. b - 1
  OBVIOUS
<1>3. a = b * (a \div b) + (a % b)
  OBVIOUS
<1> QED  BY <1>1, <1>2, <1>3

LEMMA DivLess ==
  ASSUME NEW a \in Nat, NEW b \in Nat \ {0}, NEW c \in Nat, a < b * c
  PROVE  a \div b < c
OBVIOUS

LEMMA DivOf ==
  ASSUME NEW q \in Nat, NEW b \in Nat \ {0}, NEW r \in 0 .. b - 1
  PROVE  (b * q + r) \div b = q
OBVIOUS

LEMMA Product ==
  ASSUME NEW a \in Nat \ {0}, NEW b \in Nat \ {0}
  PROVE  a * b \in Nat \ {0}
OBVIOUS

(* Dividing by b and then by c is dividing by b * c.                       *)
LEMMA DivTwice ==
  ASSUME NEW a \in Nat, NEW b \in Nat \ {0}, NEW c \in Nat \ {0}
  PROVE  a \div (b * c) = (a \div b) \div c
<1> DEFINE p == a \div b
           q == p \div c
           r == a % b
           s == p % c
<1>1. p \in Nat /\ r \in 0 .. b - 1 /\ a = b * p + r
  BY DivMod
<1>2. q \in Nat /\ s \in 0 .. c - 1 /\ p = c * q + s
  BY <1>1, DivMod
<1> HIDE DEF p, q, r, s
<1>3. b * c \in Nat \ {0}
  BY Product
<1>4. b * s + r \in 0 .. (b * c) - 1
  <2>1. b * s \in Nat /\ b * s <= b * (c - 1)
    BY <1>2
  <2>2. b * (c - 1) = (b * c) - b
    OBVIOUS
  <2> QED  BY <1>1, <1>3, <2>1, <2>2
<1>5. a = ((b * c) * q) + (b * s + r)
  <2>1. b * (c * q + s) = ((b * c) * q) + b * s
    BY <1>2
  <2> QED  BY <1>1, <1>2, <1>3, <2>1
<1>6. a \div (b * c) = q
  <2> DEFINE d == b * c
             e == b * s + r
  <2>1. d \in Nat \ {0} /\ e \in 0 .. d - 1 /\ q \in Nat /\ a = d * q + e
    BY <1>2, <1>3, <1>4, <1>5
  <2> HIDE DEF d, e
  <2>2. a \div d = q
    BY <2>1, DivOf
  <2> QED  BY <2>2 DEF d
<1> QED  BY <1>6 DEF q, p

-----------------------------------------------------------------------------
(* FlattenSeq: what it computes, one sequence after another.               *)

(* The recursion in FlattenSeq: the first k of them, from the first k - 1. *)
Flattened(seqs, f, k) == IF k = 1 THEN seqs[k] ELSE f[k - 1] \o seqs[k]

LEMMA FlattenedExists ==
  ASSUME NEW S, NEW seqs \in Seq(S), seqs # <<>>
  PROVE  \E f : f = [k \in 1 .. Len(seqs) |-> Flattened(seqs, f, k)]
<1> DEFINE n       == Len(seqs)
           Upto(m) == \E f : f = [k \in 1 .. m |-> Flattened(seqs, f, k)]
           T       == {m \in 0 .. n - 1 : Upto(m + 1)}
<1>0. n \in Nat /\ n >= 1
  BY EmptySeq
<1> HIDE DEF n
<1>1. Upto(1)
  <2> DEFINE g == [k \in 1 .. 1 |-> seqs[k]]
  <2>1. g = [k \in 1 .. 1 |-> Flattened(seqs, g, k)]
    BY DEF Flattened
  <2> QED  BY <2>1
<1>2. ASSUME NEW m \in 2 .. n, Upto(m - 1)
      PROVE  Upto(m)
  <2>1. PICK g : g = [k \in 1 .. m - 1 |-> Flattened(seqs, g, k)]
    BY <1>2
  <2> DEFINE f == [k \in 1 .. m |-> IF k = m THEN Flattened(seqs, g, m) ELSE g[k]]
  <2>2. \A k \in 1 .. m - 1 : f[k] = g[k]
    BY <1>0
  <2>3. ASSUME NEW k \in 1 .. m
        PROVE  Flattened(seqs, f, k) = Flattened(seqs, g, k)
    <3>1. k = 1 \/ k - 1 \in 1 .. m - 1
      BY <1>0
    <3> HIDE DEF f
    <3> QED  BY <2>2, <3>1 DEF Flattened
  <2>4. \A k \in 1 .. m - 1 : f[k] = Flattened(seqs, g, k)
    BY <2>1, <2>2
  <2>5. f[m] = Flattened(seqs, g, m)
    BY <1>0
  <2>6. f = [k \in 1 .. m |-> f[k]]
    OBVIOUS
  <2> HIDE DEF f
  <2>7. \A k \in 1 .. m : f[k] = Flattened(seqs, f, k)
    BY <2>3, <2>4, <2>5
  <2>8. f = [k \in 1 .. m |-> Flattened(seqs, f, k)]
    BY <2>6, <2>7
  <2> QED  BY <2>8
<1>3. n - 1 \in T
  <2>1. 0 \in T
    BY <1>0, <1>1
  <2>2. \A m \in 0 .. (n - 1) - 1 : m \in T => m + 1 \in T
    <3> SUFFICES ASSUME NEW m \in 0 .. (n - 1) - 1, m \in T PROVE m + 1 \in T
      OBVIOUS
    <3>1. m + 2 \in 2 .. n /\ (m + 2) - 1 = m + 1 /\ (m + 1) + 1 = m + 2
      BY <1>0
    <3> HIDE DEF Upto
    <3>2. Upto((m + 2) - 1)
      BY <3>1
    <3>3. Upto(m + 2)
      BY <1>2, <3>1, <3>2
    <3> QED  BY <1>0, <3>1, <3>3
  <2> HIDE DEF T
  <2> QED  BY <1>0, <2>1, <2>2, Induction
<1>4. Upto(n)
  <2>1. (n - 1) + 1 = n
    BY <1>0
  <2> HIDE DEF Upto
  <2> QED  BY <1>3, <2>1
<1> QED  BY <1>4 DEF n

LEMMA FlattenedIs ==
  ASSUME NEW S, NEW seqs \in Seq(S), seqs # <<>>
  PROVE  \E f : /\ \A k \in 1 .. Len(seqs) : f[k] = Flattened(seqs, f, k)
               /\ FlattenSeq(seqs) = f[Len(seqs)]
<1> DEFINE f == CHOOSE g : g = [k \in 1 .. Len(seqs) |-> Flattened(seqs, g, k)]
<1>1. f = [k \in 1 .. Len(seqs) |-> Flattened(seqs, f, k)]
  BY FlattenedExists, Zenon
<1>2. Len(seqs) # 0
  BY EmptySeq
<1>3. FlattenSeq(seqs) = f[Len(seqs)]
  BY <1>2, Zenon DEF FlattenSeq, Flattened
<1> HIDE DEF f
<1>4. \A k \in 1 .. Len(seqs) : f[k] = Flattened(seqs, f, k)
  BY <1>1
<1> QED  BY <1>3, <1>4

LEMMA FlattenEmpty == FlattenSeq(<<>>) = <<>>
BY DEF FlattenSeq

(* The function on a prefix is the one on the whole.                       *)
LEMMA FlattenAppend ==
  ASSUME NEW S, NEW seqs \in Seq(Seq(S)), NEW last \in Seq(S)
  PROVE  FlattenSeq(Append(seqs, last)) = FlattenSeq(seqs) \o last
<1> DEFINE all == Append(seqs, last)
           n   == Len(seqs)
<1>1. /\ all \in Seq(Seq(S)) /\ all # <<>> /\ Len(all) = n + 1 /\ n \in Nat
      /\ all[n + 1] = last /\ \A k \in 1 .. n : all[k] = seqs[k]
  BY AppendProperties
<1> HIDE DEF all
<1>2. PICK f : /\ \A k \in 1 .. n + 1 : f[k] = Flattened(all, f, k)
               /\ FlattenSeq(all) = f[n + 1]
  BY <1>1, FlattenedIs
<1>3. CASE seqs = <<>>
  <2>1. FlattenSeq(all) = last
    BY <1>1, <1>2, <1>3 DEF Flattened
  <2> QED  BY <1>3, <2>1, FlattenEmpty DEF all
<1>4. CASE seqs # <<>>
  <2>1. PICK g : /\ \A k \in 1 .. n : g[k] = Flattened(seqs, g, k)
                 /\ FlattenSeq(seqs) = g[n]
    BY <1>4, FlattenedIs
  <2>2. n >= 1
    BY <1>4, EmptySeq
  <2> DEFINE T == {k \in 0 .. n - 1 : f[k + 1] = g[k + 1]}
  <2>3. n - 1 \in T
    <3>1. 0 \in T
      BY <1>1, <1>2, <2>1, <2>2 DEF Flattened
    <3>2. ASSUME NEW k \in 0 .. (n - 1) - 1, k \in T
          PROVE  k + 1 \in T
      <4>1. k + 2 \in 1 .. n /\ k + 2 \in 1 .. n + 1 /\ k + 2 # 1 /\ (k + 2) - 1 = k + 1
        BY <1>1, <2>2
      <4>2. f[k + 2] = f[k + 1] \o seqs[k + 2]
        BY <1>1, <1>2, <4>1 DEF Flattened
      <4>3. g[k + 2] = g[k + 1] \o seqs[k + 2]
        BY <2>1, <4>1 DEF Flattened
      <4>4. (k + 1) + 1 = k + 2 /\ k + 1 \in 0 .. n - 1
        BY <1>1
      <4> QED  BY <3>2, <4>2, <4>3, <4>4
    <3> HIDE DEF T
    <3> QED  BY <1>1, <2>2, <3>1, <3>2, Induction
  <2>4. f[n] = g[n]
    <3>1. (n - 1) + 1 = n
      BY <1>1
    <3> QED  BY <2>3, <3>1
  <2>5. f[n + 1] = f[n] \o last
    <3>1. n + 1 \in 1 .. n + 1 /\ n + 1 # 1 /\ (n + 1) - 1 = n
      BY <1>1, <2>2
    <3> QED  BY <1>1, <1>2, <3>1 DEF Flattened
  <2> QED  BY <1>2, <2>1, <2>4, <2>5 DEF all
<1> QED  BY <1>3, <1>4

(* Every prefix is the one before with one more.                           *)
LEMMA PrefixGrows ==
  ASSUME NEW S, NEW s \in Seq(S)
  PROVE  /\ Len(s) \in Nat
         /\ SubSeq(s, 1, 0) = <<>> /\ SubSeq(s, 1, Len(s)) = s
         /\ \A k \in 0 .. Len(s) - 1 :
              /\ SubSeq(s, 1, k) \in Seq(S) /\ s[k + 1] \in S
              /\ SubSeq(s, 1, k + 1) = Append(SubSeq(s, 1, k), s[k + 1])
<1>1. Len(s) \in Nat /\ SubSeq(s, 1, 0) = <<>> /\ SubSeq(s, 1, Len(s)) = s
  BY SubSeqEmpty, SubSeqFull
<1>2. ASSUME NEW k \in 0 .. Len(s) - 1
      PROVE  /\ SubSeq(s, 1, k) \in Seq(S) /\ s[k + 1] \in S
             /\ SubSeq(s, 1, k + 1) = Append(SubSeq(s, 1, k), s[k + 1])
  <2>1. SubSeq(s, 1, k) \in Seq(S) /\ s[k + 1] \in S
    BY <1>1
  <2>2. SubSeq(s, 1, k + 1) \in Seq(S)
    BY <1>1
  <2>3. SubSeq(s, 1, k + 1) = Append(SubSeq(s, 1, k), s[k + 1])
    BY <1>1, <2>1, <2>2
  <2> QED  BY <2>1, <2>3
<1> QED  BY <1>1, <1>2

LEMMA FlattenType ==
  ASSUME NEW S, NEW seqs \in Seq(Seq(S))
  PROVE  FlattenSeq(seqs) \in Seq(S)
<1> DEFINE T == {k \in 0 .. Len(seqs) : FlattenSeq(SubSeq(seqs, 1, k)) \in Seq(S)}
<1>1. 0 \in T
  <2>1. SubSeq(seqs, 1, 0) = <<>> /\ 0 \in 0 .. Len(seqs)
    BY PrefixGrows
  <2>2. <<>> \in Seq(S)
    OBVIOUS
  <2> QED  BY <2>1, <2>2, FlattenEmpty
<1>2. ASSUME NEW k \in 0 .. Len(seqs) - 1, k \in T
      PROVE  k + 1 \in T
  <2>1. /\ SubSeq(seqs, 1, k) \in Seq(Seq(S)) /\ seqs[k + 1] \in Seq(S)
        /\ SubSeq(seqs, 1, k + 1) = Append(SubSeq(seqs, 1, k), seqs[k + 1])
    BY PrefixGrows
  <2>2. FlattenSeq(SubSeq(seqs, 1, k + 1)) = FlattenSeq(SubSeq(seqs, 1, k)) \o seqs[k + 1]
    BY <2>1, FlattenAppend
  <2>3. FlattenSeq(SubSeq(seqs, 1, k)) \in Seq(S)
    BY <1>2
  <2>4. FlattenSeq(SubSeq(seqs, 1, k + 1)) \in Seq(S)
    BY <2>1, <2>2, <2>3, ConcatProperties
  <2> QED  BY <2>4, PrefixGrows
<1>3. Len(seqs) \in T
  <2> HIDE DEF T
  <2> QED  BY <1>1, <1>2, PrefixGrows, Induction
<1> QED  BY <1>3, PrefixGrows

LEMMA FlattenOneMore ==
  ASSUME NEW S, NEW s \in Seq(Seq(S)), NEW u \in Seq(Seq(S)), NEW e \in Seq(S),
         FlattenSeq(s \o u) = FlattenSeq(s) \o FlattenSeq(u)
  PROVE  FlattenSeq(s \o Append(u, e)) = FlattenSeq(s) \o FlattenSeq(Append(u, e))
<1>1. s \o Append(u, e) = Append(s \o u, e) /\ s \o u \in Seq(Seq(S))
  BY ConcatAppend, SMTT(30)
<1>2. FlattenSeq(Append(s \o u, e)) = FlattenSeq(s \o u) \o e
  BY <1>1, FlattenAppend
<1>3. FlattenSeq(Append(u, e)) = FlattenSeq(u) \o e
  BY FlattenAppend
<1>4. (FlattenSeq(s) \o FlattenSeq(u)) \o e = FlattenSeq(s) \o (FlattenSeq(u) \o e)
  <2>1. FlattenSeq(s) \in Seq(S) /\ FlattenSeq(u) \in Seq(S)
    BY FlattenType
  <2> QED  BY <2>1, Associative, SMTT(30)
<1> QED  BY <1>1, <1>2, <1>3, <1>4

LEMMA FlattenConcat ==
  ASSUME NEW S, NEW s \in Seq(Seq(S)), NEW t \in Seq(Seq(S))
  PROVE  FlattenSeq(s \o t) = FlattenSeq(s) \o FlattenSeq(t)
<1> DEFINE Begin(k) == SubSeq(t, 1, k)
           T == {k \in 0 .. Len(t) :
                   FlattenSeq(s \o Begin(k)) = FlattenSeq(s) \o FlattenSeq(Begin(k))}
<1>1. 0 \in T
  <2>1. Begin(0) = <<>> /\ s \o <<>> = s
    BY PrefixGrows, ConcatEmptySeq
  <2>2. FlattenSeq(s) \o <<>> = FlattenSeq(s)
    BY FlattenType, ConcatEmptySeq
  <2>3. 0 \in 0 .. Len(t)
    BY PrefixGrows
  <2> HIDE DEF Begin
  <2> QED  BY <2>1, <2>2, <2>3, FlattenEmpty
<1>2. ASSUME NEW k \in 0 .. Len(t) - 1, k \in T
      PROVE  k + 1 \in T
  <2>1. /\ Begin(k) \in Seq(Seq(S)) /\ t[k + 1] \in Seq(S)
        /\ Begin(k + 1) = Append(Begin(k), t[k + 1]) /\ k + 1 \in 0 .. Len(t)
    BY PrefixGrows
  <2> HIDE DEF Begin
  <2>2. FlattenSeq(s \o Append(Begin(k), t[k + 1]))
          = FlattenSeq(s) \o FlattenSeq(Append(Begin(k), t[k + 1]))
    BY <1>2, <2>1, FlattenOneMore
  <2> QED  BY <2>1, <2>2
<1>3. Len(t) \in T
  <2> HIDE DEF T
  <2> QED  BY <1>1, <1>2, PrefixGrows, Induction
<1>4. Begin(Len(t)) = t
  BY PrefixGrows
<1> QED  BY <1>3, <1>4

(* One, two and three of them.                                             *)
LEMMA FlattenOne ==
  ASSUME NEW S, NEW a \in Seq(S)
  PROVE  FlattenSeq(<<a>>) = a
<1>1. <<>> \in Seq(Seq(S)) /\ <<a>> = Append(<<>>, a)
  OBVIOUS
<1>2. FlattenSeq(<<a>>) = <<>> \o a
  BY <1>1, FlattenAppend, FlattenEmpty
<1> QED  BY <1>2

LEMMA FlattenTwo ==
  ASSUME NEW S, NEW a \in Seq(S), NEW b \in Seq(S)
  PROVE  FlattenSeq(<<a, b>>) = a \o b
<1>1. <<a>> \in Seq(Seq(S)) /\ <<a, b>> = Append(<<a>>, b)
  OBVIOUS
<1>2. FlattenSeq(<<a, b>>) = FlattenSeq(<<a>>) \o b
  BY <1>1, FlattenAppend
<1> QED  BY <1>2, FlattenOne

LEMMA FlattenThree ==
  ASSUME NEW S, NEW a \in Seq(S), NEW b \in Seq(S), NEW c \in Seq(S)
  PROVE  FlattenSeq(<<a, b, c>>) = FlattenSeq(<<a, b>>) \o c
<1>1. <<a, b>> \in Seq(Seq(S)) /\ <<a, b, c>> = Append(<<a, b>>, c)
  OBVIOUS
<1> QED  BY <1>1, FlattenAppend

-----------------------------------------------------------------------------
(* The codec.                                                              *)

LEMMA BaseFacts ==
  /\ ByteBase \in Nat /\ ByteBase > 5
  /\ ByteBase * ByteBase \in Nat \ {0}
  /\ ByteBase * ByteBase * ByteBase \in Nat \ {0}
  /\ DwordBase \in Nat \ {0}
  /\ DwordBase = (ByteBase * ByteBase * ByteBase) * ByteBase
  /\ Weight[1] = ByteBase * ByteBase * ByteBase
  /\ Weight[2] = ByteBase * ByteBase
  /\ Weight[3] = ByteBase
  /\ Weight[4] = 1
<1>1. ByteBase \in Nat /\ ByteBase > 5
  BY PacketFactoryAssumption DEF PacketEnum
<1>2. ByteBase * ByteBase \in Nat \ {0}
  BY <1>1, Product
<1>3. ByteBase * ByteBase * ByteBase \in Nat \ {0}
  BY <1>1, <1>2, Product
<1>4. /\ Weight[1] = ByteBase * ByteBase * ByteBase
      /\ Weight[2] = ByteBase * ByteBase
      /\ Weight[3] = ByteBase
      /\ Weight[4] = 1
  BY DEF Weight
<1>5. DwordBase = (ByteBase * ByteBase * ByteBase) * ByteBase
  <2>1. \A x \in Nat : ByteBase * x = x * ByteBase
    BY <1>1
  <2> QED  BY <1>3, <1>4, <2>1 DEF DwordBase
<1>6. DwordBase \in Nat \ {0}
  BY <1>1, <1>3, <1>5, Product
<1> QED  BY <1>1, <1>2, <1>3, <1>4, <1>5, <1>6

(* The four bytes of an unsigned, and the unsigned of four bytes.          *)
LEMMA DwordBytes ==
  ASSUME NEW u \in Dword
  PROVE  LET d == NetworkDword(u)
         IN  /\ d \in Seq(Byte) /\ Len(d) = 4
             /\ u = d[4] + ByteBase * (d[3] + ByteBase * (d[2] + ByteBase * d[1]))
<1> DEFINE d == NetworkDword(u)
           q1 == u \div ByteBase
           q2 == q1 \div ByteBase
           q3 == q2 \div ByteBase
<1>1. /\ u \in Nat /\ ByteBase \in Nat \ {0}
      /\ u < (ByteBase * ByteBase * ByteBase) * ByteBase
  BY BaseFacts DEF Dword
<1>2. q1 \in Nat /\ u % ByteBase \in 0 .. ByteBase - 1 /\ u = ByteBase * q1 + (u % ByteBase)
  BY <1>1, DivMod
<1>3. q2 \in Nat /\ q1 % ByteBase \in 0 .. ByteBase - 1 /\ q1 = ByteBase * q2 + (q1 % ByteBase)
  BY <1>1, <1>2, DivMod
<1>4. q3 \in Nat /\ q2 % ByteBase \in 0 .. ByteBase - 1 /\ q2 = ByteBase * q3 + (q2 % ByteBase)
  BY <1>1, <1>3, DivMod
<1>5. q2 = u \div (ByteBase * ByteBase)
  BY <1>1, DivTwice
<1>6. q3 = u \div (ByteBase * ByteBase * ByteBase)
  BY <1>1, <1>5, BaseFacts, DivTwice
<1>7. q3 < ByteBase /\ q3 % ByteBase = q3
  <2>1. q3 < ByteBase
    BY <1>1, <1>6, BaseFacts, DivLess
  <2> HIDE DEF q3
  <2> QED  BY <1>1, <1>4, <2>1
<1>8. u \div 1 = u
  BY <1>1
<1>9. d = [k \in 1 .. 4 |-> (u \div Weight[k]) % ByteBase]
  BY DEF NetworkDword
<1>10. d[1] = q3 /\ d[2] = q2 % ByteBase /\ d[3] = q1 % ByteBase /\ d[4] = u % ByteBase
  BY <1>5, <1>6, <1>7, <1>8, <1>9, BaseFacts
<1>11. \A k \in 1 .. 4 : d[k] \in Byte
  <2>1. \A k \in 1 .. 4 : k = 1 \/ k = 2 \/ k = 3 \/ k = 4
    OBVIOUS
  <2> HIDE DEF d, q1, q2, q3
  <2> QED  BY <1>1, <1>2, <1>3, <1>4, <1>7, <1>10, <2>1 DEF Byte
<1>12. d \in Seq(Byte) /\ Len(d) = 4
  <2>1. d \in [1 .. 4 -> Byte]
    <3>1. d = [k \in 1 .. 4 |-> d[k]]
      BY <1>9
    <3> HIDE DEF d
    <3> QED  BY <1>11, <3>1
  <2> HIDE DEF d
  <2> QED  BY <2>1, IsSeq
<1> HIDE DEF d, q1, q2, q3
<1>13. q2 = d[2] + ByteBase * d[1]
  BY <1>1, <1>4, <1>10
<1>14. q1 = d[3] + ByteBase * q2
  BY <1>1, <1>3, <1>10
<1>15. u = d[4] + ByteBase * q1
  BY <1>1, <1>2, <1>10
<1> QED  BY <1>12, <1>13, <1>14, <1>15 DEF d

LEMMA ReadsDword ==
  ASSUME NEW u \in Dword, NEW b, NEW at \in Nat, NEW garbage,
         \A k \in 1 .. 4 : at + k \in DOMAIN b /\ b[at + k] = NetworkDword(u)[k]
  PROVE  ReadUInt(b, at, garbage) = u
<1>1. \A k \in 1 .. 4 : ByteAt(b, at + k, garbage) = NetworkDword(u)[k]
  BY DEF ByteAt
<1> QED  BY <1>1, DwordBytes DEF ReadUInt

(* Offset is the sum of the sizes before.                                  *)
Size(type, k) == FieldSize(Members(type)[k])

LEMMA Offsets ==
  ASSUME NEW type, NEW k \in 1 .. 4
  PROVE  /\ k = 1 => Offset(type, k) = 1
         /\ k = 2 => Offset(type, k) = 1 + Size(type, 1)
         /\ k = 3 => Offset(type, k) = 1 + Size(type, 1) + Size(type, 2)
         /\ k = 4 => Offset(type, k) = 1 + Size(type, 1) + Size(type, 2) + Size(type, 3)
<1> DEFINE Sum(f, n) == IF n = 1 THEN 1 ELSE f[n - 1] + Size(type, n - 1)
           f == CHOOSE g : g = [n \in 1 .. k |-> Sum(g, n)]
           two == 1 + Size(type, 1)
           three == two + Size(type, 2)
           four == three + Size(type, 3)
           h == [n \in 1 .. k |-> IF n = 1 THEN 1 ELSE IF n = 2 THEN two
                                  ELSE IF n = 3 THEN three ELSE four]
<1>1. \A n \in 1 .. k : h[n] = Sum(h, n)
  <2> SUFFICES ASSUME NEW n \in 1 .. k PROVE h[n] = Sum(h, n)
    OBVIOUS
  <2>1. CASE n = 1
    BY <2>1
  <2>2. CASE n = 2
    <3>1. 1 \in 1 .. k /\ 2 \in 1 .. k
      BY <2>2
    <3> QED  BY <2>2, <3>1
  <2>3. CASE n = 3
    <3>1. 2 \in 1 .. k /\ 3 \in 1 .. k
      BY <2>3
    <3> QED  BY <2>3, <3>1
  <2>4. CASE n = 4
    <3>1. 3 \in 1 .. k /\ 4 \in 1 .. k
      BY <2>4
    <3> QED  BY <2>4, <3>1
  <2> QED  BY <2>1, <2>2, <2>3, <2>4
<1>2. h = [n \in 1 .. k |-> h[n]]
  OBVIOUS
<1>3. h = [n \in 1 .. k |-> Sum(h, n)]
  <2> HIDE DEF h
  <2> QED  BY <1>1, <1>2
<1>4. f = [n \in 1 .. k |-> Sum(f, n)]
  <2> HIDE DEF h, Sum
  <2> QED  BY <1>3
<1>5. Offset(type, k) = f[k]
  BY Zenon DEF Offset, Size
<1> HIDE DEF f, h, two, three, four
<1>6. \A n \in 1 .. k : f[n] = IF n = 1 THEN 1 ELSE f[n - 1] + Size(type, n - 1)
  BY <1>4
<1>7. f[1] = 1
  BY <1>6
<1>8. k >= 2 => f[2] = 1 + Size(type, 1)
  BY <1>6, <1>7
<1>9. k >= 3 => f[3] = 1 + Size(type, 1) + Size(type, 2)
  BY <1>6, <1>8
<1>10. k >= 4 => f[4] = 1 + Size(type, 1) + Size(type, 2) + Size(type, 3)
  BY <1>6, <1>9
<1> QED  BY <1>5, <1>7, <1>8, <1>9, <1>10

LEMMA Layout ==
  /\ Offset("PACKET_JOIN_REQUEST", 1) = 1
  /\ Offset("PACKET_JOIN_REQUEST", 2) = 5
  /\ Offset("PACKET_JOIN_RESPONSE", 1) = 1
  /\ Offset("PACKET_JOIN_RESPONSE", 2) = 2
  /\ Offset("PACKET_JOIN_RESPONSE", 3) = 6
  /\ Offset("PACKET_JOIN_RESPONSE", 4) = 10
  /\ Offset("PACKET_PLAYER_DID_JOIN", 1) = 1
  /\ Offset("PACKET_PLAYER_DID_JOIN", 2) = 5
  /\ Offset("PACKET_PLAYER_DID_JOIN", 3) = 9
  /\ PacketLength("PACKET_JOIN_REQUEST") = 5
  /\ PacketLength("PACKET_JOIN_RESPONSE") = 10
  /\ PacketLength("PACKET_PLAYER_DID_JOIN") = 9
  /\ MaxPacketLength = 10
<1>1. /\ Members("PACKET_JOIN_REQUEST") = <<"port">>
      /\ Members("PACKET_JOIN_RESPONSE") = <<"response", "playerID", "team">>
      /\ Members("PACKET_PLAYER_DID_JOIN") = <<"playerID", "team">>
  BY DEF Members
<1>2. /\ Size("PACKET_JOIN_REQUEST", 1) = 4
      /\ Size("PACKET_JOIN_RESPONSE", 1) = 1
      /\ Size("PACKET_JOIN_RESPONSE", 2) = 4
      /\ Size("PACKET_JOIN_RESPONSE", 3) = 4
      /\ Size("PACKET_PLAYER_DID_JOIN", 1) = 4
      /\ Size("PACKET_PLAYER_DID_JOIN", 2) = 4
  BY <1>1 DEF Size, FieldSize, FieldType
<1>3. /\ Offset("PACKET_JOIN_REQUEST", 1) = 1
      /\ Offset("PACKET_JOIN_REQUEST", 2) = 5
  BY <1>2, Offsets
<1>4. /\ Offset("PACKET_JOIN_RESPONSE", 1) = 1
      /\ Offset("PACKET_JOIN_RESPONSE", 2) = 2
      /\ Offset("PACKET_JOIN_RESPONSE", 3) = 6
      /\ Offset("PACKET_JOIN_RESPONSE", 4) = 10
  BY <1>2, Offsets
<1>5. /\ Offset("PACKET_PLAYER_DID_JOIN", 1) = 1
      /\ Offset("PACKET_PLAYER_DID_JOIN", 2) = 5
      /\ Offset("PACKET_PLAYER_DID_JOIN", 3) = 9
  BY <1>2, Offsets
<1>6. /\ Len(<<"port">>) + 1 = 2
      /\ Len(<<"response", "playerID", "team">>) + 1 = 4
      /\ Len(<<"playerID", "team">>) + 1 = 3
  OBVIOUS
<1>7. /\ PacketLength("PACKET_JOIN_REQUEST") = 5
      /\ PacketLength("PACKET_JOIN_RESPONSE") = 10
      /\ PacketLength("PACKET_PLAYER_DID_JOIN") = 9
  BY <1>1, <1>3, <1>4, <1>5, <1>6 DEF PacketLength
<1> QED  BY <1>3, <1>4, <1>5, <1>7 DEF MaxPacketLength

(* What the packets look like on the wire.                                 *)
LEMMA TeamsAreDwords == Team \subseteq Dword /\ {0, 1, 2, 3, 4, 5} \subseteq Byte
<1>1. DwordBase > 5
  <2>1. ByteBase * ByteBase * ByteBase >= 1 /\ ByteBase > 5 /\ ByteBase \in Nat
    BY BaseFacts
  <2>2. \A x \in Nat \ {0} : x * ByteBase >= ByteBase
    BY <2>1
  <2> QED  BY <2>1, <2>2, BaseFacts
<1>2. Team \subseteq Dword
  BY <1>1, BaseFacts DEF Team, TEAM_SPY, TEAM_MERC, Dword
<1> QED  BY <1>2, BaseFacts DEF Byte

LEMMA WrittenRequest ==
  ASSUME NEW port \in Dword
  PROVE  Serialize(JoinRequest(port)) = <<1>> \o NetworkDword(port)
<1> DEFINE p == JoinRequest(port)
           fields == [k \in DOMAIN Members(p.type) |-> SerializeField(p, Members(p.type)[k])]
<1>1. /\ p.type = "PACKET_JOIN_REQUEST" /\ p["port"] = port /\ PacketEnum[p.type] = 1
      /\ Members(p.type) = <<"port">>
  BY DEF JoinRequest, PacketEnum, Members
<1>2. fields = <<NetworkDword(port)>>
  <2> HIDE DEF p
  <2>1. SerializeField(p, "port") = NetworkDword(port)
    BY <1>1 DEF SerializeField, FieldType
  <2> QED  BY <1>1, <2>1
<1>3. Serialize(p) = <<1>> \o FlattenSeq(fields)
  <2> HIDE DEF p
  <2> QED  BY <1>1 DEF Serialize
<1> HIDE DEF fields
<1>4. FlattenSeq(fields) = NetworkDword(port)
  BY <1>2, DwordBytes, FlattenOne
<1> QED  BY <1>3, <1>4

LEMMA WrittenResponse ==
  ASSUME NEW r \in {0, 1}, NEW id \in Dword, NEW team \in Team
  PROVE  Serialize(JoinResponse(r, id, team))
           = <<2>> \o ((<<r>> \o NetworkDword(id)) \o NetworkDword(team))
<1> DEFINE p == JoinResponse(r, id, team)
           fields == [k \in DOMAIN Members(p.type) |-> SerializeField(p, Members(p.type)[k])]
<1>1. /\ p.type = "PACKET_JOIN_RESPONSE" /\ PacketEnum[p.type] = 2
      /\ p["response"] = r /\ p["playerID"] = id /\ p["team"] = team
      /\ Members(p.type) = <<"response", "playerID", "team">>
  BY DEF JoinResponse, PacketEnum, Members
<1>2. fields = <<<<r>>, NetworkDword(id), NetworkDword(team)>>
  <2> HIDE DEF p
  <2>1. /\ SerializeField(p, "response") = <<r>>
        /\ SerializeField(p, "playerID") = NetworkDword(id)
        /\ SerializeField(p, "team") = NetworkDword(team)
    BY <1>1 DEF SerializeField, FieldType
  <2> QED  BY <1>1, <2>1
<1>3. Serialize(p) = <<2>> \o FlattenSeq(fields)
  <2> HIDE DEF p
  <2> QED  BY <1>1 DEF Serialize
<1> HIDE DEF fields
<1>4. NetworkDword(id) \in Seq(Byte) /\ NetworkDword(team) \in Seq(Byte)
  BY DwordBytes, TeamsAreDwords
<1> DEFINE first == <<r>>
<1>5. first \in Seq(Byte)
  BY TeamsAreDwords
<1> HIDE DEF first
<1>6. FlattenSeq(<<first, NetworkDword(id)>>) = first \o NetworkDword(id)
  BY <1>4, <1>5, FlattenTwo
<1>7. FlattenSeq(<<first, NetworkDword(id), NetworkDword(team)>>)
        = FlattenSeq(<<first, NetworkDword(id)>>) \o NetworkDword(team)
  BY <1>4, <1>5, FlattenThree
<1> QED  BY <1>2, <1>3, <1>6, <1>7 DEF first

LEMMA WrittenDidJoin ==
  ASSUME NEW id \in Dword, NEW team \in Team
  PROVE  Serialize(PlayerDidJoin(id, team))
           = <<3>> \o (NetworkDword(id) \o NetworkDword(team))
<1> DEFINE p == PlayerDidJoin(id, team)
           fields == [k \in DOMAIN Members(p.type) |-> SerializeField(p, Members(p.type)[k])]
<1>1. /\ p.type = "PACKET_PLAYER_DID_JOIN" /\ PacketEnum[p.type] = 3
      /\ p["playerID"] = id /\ p["team"] = team
      /\ Members(p.type) = <<"playerID", "team">>
  BY DEF PlayerDidJoin, PacketEnum, Members
<1>2. fields = <<NetworkDword(id), NetworkDword(team)>>
  <2> HIDE DEF p
  <2>1. /\ SerializeField(p, "playerID") = NetworkDword(id)
        /\ SerializeField(p, "team") = NetworkDword(team)
    BY <1>1 DEF SerializeField, FieldType
  <2> QED  BY <1>1, <2>1
<1>3. Serialize(p) = <<3>> \o FlattenSeq(fields)
  <2> HIDE DEF p
  <2> QED  BY <1>1 DEF Serialize
<1> HIDE DEF fields
<1>4. NetworkDword(id) \in Seq(Byte) /\ NetworkDword(team) \in Seq(Byte)
  BY DwordBytes, TeamsAreDwords
<1>5. FlattenSeq(fields) = NetworkDword(id) \o NetworkDword(team)
  BY <1>2, <1>4, FlattenTwo
<1> QED  BY <1>3, <1>5

(* The two without a creator.                                              *)
LEMMA WrittenOthers ==
  /\ \A id \in Dword : Serialize(PlayerDidLeave(id)) = <<4>> \o NetworkDword(id)
  /\ Serialize(ServerShutdown) = <<5>>
<1>1. ASSUME NEW id \in Dword
      PROVE  Serialize(PlayerDidLeave(id)) = <<4>> \o NetworkDword(id)
  <2> DEFINE p == PlayerDidLeave(id)
             fields == [k \in DOMAIN Members(p.type) |-> SerializeField(p, Members(p.type)[k])]
  <2>1. /\ p.type = "PACKET_PLAYER_DID_LEAVE" /\ PacketEnum[p.type] = 4
        /\ p["playerID"] = id /\ Members(p.type) = <<"playerID">>
    BY DEF PlayerDidLeave, PacketEnum, Members
  <2>2. fields = <<NetworkDword(id)>>
    <3> HIDE DEF p
    <3>1. SerializeField(p, "playerID") = NetworkDword(id)
      BY <2>1 DEF SerializeField, FieldType
    <3> QED  BY <2>1, <3>1
  <2>3. Serialize(p) = <<4>> \o FlattenSeq(fields)
    <3> HIDE DEF p
    <3> QED  BY <2>1 DEF Serialize
  <2> HIDE DEF fields
  <2> QED  BY <2>2, <2>3, DwordBytes, FlattenOne
<1>2. Serialize(ServerShutdown) = <<5>>
  <2> DEFINE p == ServerShutdown
             fields == [k \in DOMAIN Members(p.type) |-> SerializeField(p, Members(p.type)[k])]
  <2>1. PacketEnum[p.type] = 5 /\ Members(p.type) = <<>>
    BY DEF ServerShutdown, PacketEnum, Members
  <2>2. fields = <<>>
    <3> HIDE DEF p
    <3> QED  BY <2>1
  <2>3. Serialize(p) = <<5>> \o FlattenSeq(fields)
    <3> HIDE DEF p
    <3> QED  BY <2>1 DEF Serialize
  <2> HIDE DEF fields
  <2>4. <<5>> \o <<>> = <<5>>
    OBVIOUS
  <2>5. FlattenSeq(fields) = <<>>
    BY <2>2, FlattenEmpty
  <2>6. Serialize(p) = <<5>>
    BY <2>3, <2>4, <2>5
  <2> QED  BY <2>6
<1> QED  BY <1>1, <1>2

(* Where the bytes of a concatenation are.                                 *)
IsConcat(u, s, t) ==
  /\ u \in Seq(Byte) /\ u = s \o t
  /\ Len(s) \in Nat /\ Len(t) \in Nat /\ Len(u) = Len(s) + Len(t)
  /\ \A k \in 1 .. Len(s) : u[k] = s[k]
  /\ \A k \in 1 .. Len(t) : u[Len(s) + k] = t[k]

LEMMA Concat ==
  ASSUME NEW s \in Seq(Byte), NEW t \in Seq(Byte)
  PROVE  \E u \in Seq(Byte) : IsConcat(u, s, t)
<1>1. IsConcat(s \o t, s, t)
  BY DEF IsConcat
<1>2. s \o t \in Seq(Byte)
  BY ConcatProperties
<1> QED  BY <1>1, <1>2

LEMMA ConcatNothing ==
  ASSUME NEW s \in Seq(Byte)
  PROVE  \E none \in Seq(Byte) : IsConcat(s, s, none)
<1>0. <<>> \in Seq(Byte)
  OBVIOUS
<1>1. PICK none \in Seq(Byte) : none = <<>>
  BY <1>0, Zenon
<1>2. PICK u \in Seq(Byte) : IsConcat(u, s, none)
  BY Concat
<1>3. s \o <<>> = s
  BY ConcatEmptySeq
<1>4. u = s
  BY <1>1, <1>2, <1>3 DEF IsConcat
<1> QED  BY <1>2, <1>4

LEMMA OneByte ==
  ASSUME NEW b \in Byte
  PROVE  \E s \in Seq(Byte) : s = <<b>> /\ Len(s) = 1 /\ s[1] = b
<1>1. <<b>> \in Seq(Byte) /\ Len(<<b>>) = 1 /\ <<b>>[1] = b
  OBVIOUS
<1> QED  BY <1>1

LEMMA RequestBytes ==
  ASSUME NEW port \in Dword
  PROVE  LET bytes == Serialize(JoinRequest(port))
         IN  /\ bytes \in Seq(Byte) /\ Len(bytes) = 5 /\ bytes[1] = 1
             /\ \A k \in 1 .. 4 : bytes[1 + k] = NetworkDword(port)[k]
<1>1. PICK type \in Seq(Byte) : type = <<1>> /\ Len(type) = 1 /\ type[1] = 1
  BY OneByte, TeamsAreDwords
<1>2. NetworkDword(port) \in Seq(Byte) /\ Len(NetworkDword(port)) = 4
  BY DwordBytes
<1>3. PICK c \in Seq(Byte) : IsConcat(c, type, NetworkDword(port))
  BY <1>2, Concat
<1>4. Serialize(JoinRequest(port)) = c
  BY <1>1, <1>3, WrittenRequest DEF IsConcat
<1>5. Len(c) = 5 /\ c[1] = 1 /\ \A k \in 1 .. 4 : c[1 + k] = NetworkDword(port)[k]
  BY <1>1, <1>2, <1>3 DEF IsConcat
<1> QED  BY <1>4, <1>5

LEMMA ResponseBytes ==
  ASSUME NEW r \in {0, 1}, NEW id \in Dword, NEW team \in Team
  PROVE  LET bytes == Serialize(JoinResponse(r, id, team))
         IN  /\ bytes \in Seq(Byte) /\ Len(bytes) = 10 /\ bytes[1] = 2 /\ bytes[2] = r
             /\ \A k \in 1 .. 4 : /\ bytes[2 + k] = NetworkDword(id)[k]
                                  /\ bytes[6 + k] = NetworkDword(team)[k]
<1>1. PICK type \in Seq(Byte) : type = <<2>> /\ Len(type) = 1 /\ type[1] = 2
  BY OneByte, TeamsAreDwords
<1>2. PICK resp \in Seq(Byte) : resp = <<r>> /\ Len(resp) = 1 /\ resp[1] = r
  BY OneByte, TeamsAreDwords
<1>3. PICK d \in Seq(Byte) : d = NetworkDword(id) /\ Len(d) = 4
  BY DwordBytes
<1>4. PICK e \in Seq(Byte) : e = NetworkDword(team) /\ Len(e) = 4
  BY DwordBytes, TeamsAreDwords
<1>5. PICK a \in Seq(Byte) : IsConcat(a, resp, d)
  BY Concat
<1>6. PICK b \in Seq(Byte) : IsConcat(b, a, e)
  BY Concat
<1>7. PICK c \in Seq(Byte) : IsConcat(c, type, b)
  BY Concat
<1>11. /\ Len(a) = 5 /\ a[1] = r /\ \A k \in 1 .. 4 : a[1 + k] = d[k]
       /\ Len(b) = 9 /\ Len(c) = 10 /\ c[1] = 2
       /\ \A k \in 1 .. 5 : b[k] = a[k]
       /\ \A k \in 1 .. 4 : b[5 + k] = e[k]
       /\ \A k \in 1 .. 9 : c[1 + k] = b[k]
  <2>1. Len(a) = 5 /\ a[1] = r /\ \A k \in 1 .. 4 : a[1 + k] = d[k]
    BY <1>2, <1>3, <1>5 DEF IsConcat
  <2>2. /\ Len(b) = 9 /\ \A k \in 1 .. 5 : b[k] = a[k]
        /\ \A k \in 1 .. 4 : b[5 + k] = e[k]
    <3>1. Len(e) = 4 /\ Len(a) = 5
      BY <1>4, <2>1
    <3>2. /\ Len(b) = Len(a) + Len(e)
          /\ \A k \in 1 .. Len(a) : b[k] = a[k]
          /\ \A k \in 1 .. Len(e) : b[Len(a) + k] = e[k]
      BY <1>6 DEF IsConcat
    <3> QED  BY <3>1, <3>2
  <2>3. Len(c) = 10 /\ c[1] = 2 /\ \A k \in 1 .. 9 : c[1 + k] = b[k]
    BY <1>1, <1>7, <2>2, SMTT(30) DEF IsConcat
  <2> QED  BY <2>1, <2>2, <2>3
<1>8. Serialize(JoinResponse(r, id, team)) = c
  BY <1>1, <1>2, <1>3, <1>4, <1>5, <1>6, <1>7, WrittenResponse DEF IsConcat
<1>9. c[2] = r
  <2>1. c[1 + 1] = b[1] /\ b[1] = a[1]
    BY <1>11
  <2> QED  BY <1>11, <2>1
<1>10. ASSUME NEW k \in 1 .. 4
       PROVE  c[2 + k] = d[k] /\ c[6 + k] = e[k]
  <2>1. /\ 1 + k \in 1 .. 5 /\ 1 + k \in 1 .. 9 /\ 1 + (1 + k) = 2 + k
        /\ 5 + k \in 1 .. 9 /\ 1 + (5 + k) = 6 + k
    OBVIOUS
  <2>2. c[1 + (1 + k)] = b[1 + k] /\ c[1 + (5 + k)] = b[5 + k]
    BY <1>11, <2>1
  <2>3. b[1 + k] = a[1 + k] /\ a[1 + k] = d[k] /\ b[5 + k] = e[k]
    BY <1>11, <2>1
  <2> QED  BY <2>1, <2>2, <2>3
<1> QED  BY <1>3, <1>4, <1>8, <1>9, <1>10, <1>11

LEMMA DidJoinBytes ==
  ASSUME NEW id \in Dword, NEW team \in Team
  PROVE  LET bytes == Serialize(PlayerDidJoin(id, team))
         IN  /\ bytes \in Seq(Byte) /\ Len(bytes) = 9 /\ bytes[1] = 3
             /\ \A k \in 1 .. 4 : /\ bytes[1 + k] = NetworkDword(id)[k]
                                  /\ bytes[5 + k] = NetworkDword(team)[k]
<1>1. PICK type \in Seq(Byte) : type = <<3>> /\ Len(type) = 1 /\ type[1] = 3
  BY OneByte, TeamsAreDwords
<1>2. PICK d \in Seq(Byte) : d = NetworkDword(id) /\ Len(d) = 4
  BY DwordBytes
<1>3. PICK e \in Seq(Byte) : e = NetworkDword(team) /\ Len(e) = 4
  BY DwordBytes, TeamsAreDwords
<1>4. PICK b \in Seq(Byte) : IsConcat(b, d, e)
  BY Concat
<1>5. PICK c \in Seq(Byte) : IsConcat(c, type, b)
  BY Concat
<1>8. /\ Len(b) = 8 /\ \A k \in 1 .. 4 : b[k] = d[k]
      /\ \A k \in 1 .. 4 : b[4 + k] = e[k]
  BY <1>2, <1>3, <1>4 DEF IsConcat
<1>9. Len(c) = 9 /\ c[1] = 3 /\ \A k \in 1 .. 8 : c[1 + k] = b[k]
  BY <1>1, <1>5, <1>8 DEF IsConcat
<1>6. Serialize(PlayerDidJoin(id, team)) = c
  BY <1>1, <1>2, <1>3, <1>4, <1>5, WrittenDidJoin DEF IsConcat
<1>7. ASSUME NEW k \in 1 .. 4
      PROVE  c[1 + k] = d[k] /\ c[5 + k] = e[k]
  <2>1. k \in 1 .. 8 /\ 4 + k \in 1 .. 8 /\ 1 + (4 + k) = 5 + k
    OBVIOUS
  <2>2. c[1 + k] = b[k] /\ c[1 + (4 + k)] = b[4 + k]
    BY <1>9, <2>1
  <2> QED  BY <1>8, <2>1, <2>2
<1> QED  BY <1>2, <1>3, <1>6, <1>7, <1>9

LEMMA OtherBytes ==
  ASSUME NEW p \in Packets, p.type \notin Registered
  PROVE  /\ Serialize(p) \in Seq(Byte) /\ Serialize(p)[1] \in {4, 5}
         /\ Len(Serialize(p)) \in {1, 5}
<1>1. CASE \E id \in Dword : p = PlayerDidLeave(id)
  <2>1. PICK id \in Dword : p = PlayerDidLeave(id)
    BY <1>1
  <2>2. PICK type \in Seq(Byte) : type = <<4>> /\ Len(type) = 1 /\ type[1] = 4
    BY OneByte, TeamsAreDwords
  <2>3. Serialize(p) = type \o NetworkDword(id)
    BY <2>1, <2>2, WrittenOthers
  <2>4. NetworkDword(id) \in Seq(Byte) /\ Len(NetworkDword(id)) = 4
    BY DwordBytes
  <2>5. PICK c \in Seq(Byte) : IsConcat(c, type, NetworkDword(id))
    BY <2>4, Concat
  <2> QED  BY <2>2, <2>3, <2>4, <2>5 DEF IsConcat
<1>2. CASE p = ServerShutdown
  <2>1. Serialize(p) = <<5>>
    BY <1>2, WrittenOthers
  <2> QED  BY <2>1, OneByte, TeamsAreDwords
<1>3. \/ \E id \in Dword : p = PlayerDidLeave(id)
      \/ p = ServerShutdown
  BY DEF Packets, Registered, JoinRequest, JoinResponse, PlayerDidJoin
<1> QED  BY <1>1, <1>2, <1>3

(* Reading them.                                                           *)
LEMMA TypeRead ==
  ASSUME NEW b
  PROVE  /\ b[1] = 1 => Readable(b) /\ TypeOf(b) = "PACKET_JOIN_REQUEST"
         /\ b[1] = 2 => Readable(b) /\ TypeOf(b) = "PACKET_JOIN_RESPONSE"
         /\ b[1] = 3 => Readable(b) /\ TypeOf(b) = "PACKET_PLAYER_DID_JOIN"
         /\ Readable(b) => b[1] \in {1, 2, 3}
<1>1. /\ PacketEnum["PACKET_JOIN_REQUEST"] = 1
      /\ PacketEnum["PACKET_JOIN_RESPONSE"] = 2
      /\ PacketEnum["PACKET_PLAYER_DID_JOIN"] = 3
  BY DEF PacketEnum
<1>2. b[1] = 1 => Readable(b) /\ TypeOf(b) = "PACKET_JOIN_REQUEST"
  BY <1>1 DEF Readable, TypeOf, Registered
<1>3. b[1] = 2 => Readable(b) /\ TypeOf(b) = "PACKET_JOIN_RESPONSE"
  BY <1>1 DEF Readable, TypeOf, Registered
<1>4. b[1] = 3 => Readable(b) /\ TypeOf(b) = "PACKET_PLAYER_DID_JOIN"
  BY <1>1 DEF Readable, TypeOf, Registered
<1>5. Readable(b) => b[1] \in {1, 2, 3}
  BY <1>1 DEF Readable, Registered
<1> QED  BY <1>2, <1>3, <1>4, <1>5

(* The bytes of u are in b behind the first n.                             *)
HoldsDword(b, n, u) ==
  \A k \in 1 .. 4 : n + k \in DOMAIN b /\ b[n + k] = NetworkDword(u)[k]

LEMMA RequestRead ==
  ASSUME NEW port \in Dword, NEW b, NEW garbage, HoldsDword(b, 1, port)
  PROVE  Deserialize("PACKET_JOIN_REQUEST", b, garbage) = JoinRequest(port)
<1> DEFINE members == <<"port">>
           Index(m) == CHOOSE k \in DOMAIN members : members[k] = m
<1>1. Members("PACKET_JOIN_REQUEST") = members
  BY DEF Members
<1>2. Index("port") = 1 /\ {members[k] : k \in DOMAIN members} = {"port"}
  OBVIOUS
<1>3. ReadMember("PACKET_JOIN_REQUEST", 1, b, garbage) = port
  <2>1. ReadUInt(b, 1, garbage) = port
    BY ReadsDword DEF HoldsDword
  <2> QED  BY <1>1, <2>1, Layout DEF ReadMember, FieldType
<1>4. Deserialize("PACKET_JOIN_REQUEST", b, garbage) =
        [m \in {"type"} \cup {members[k] : k \in DOMAIN members} |->
           IF m = "type" THEN "PACKET_JOIN_REQUEST"
           ELSE ReadMember("PACKET_JOIN_REQUEST", Index(m), b, garbage)]
  BY <1>1 DEF Deserialize
<1>5. Deserialize("PACKET_JOIN_REQUEST", b, garbage) =
        [m \in {"type", "port"} |-> IF m = "type" THEN "PACKET_JOIN_REQUEST" ELSE port]
  <2> HIDE DEF members, Index
  <2> QED  BY <1>2, <1>3, <1>4
<1> QED  BY <1>5 DEF JoinRequest

LEMMA ResponseRead ==
  ASSUME NEW r \in {0, 1}, NEW id \in Dword, NEW team \in Team, NEW b, NEW garbage,
         2 \in DOMAIN b, b[2] = r, HoldsDword(b, 2, id), HoldsDword(b, 6, team)
  PROVE  Deserialize("PACKET_JOIN_RESPONSE", b, garbage) = JoinResponse(r, id, team)
<1> DEFINE members == <<"response", "playerID", "team">>
           Index(m) == CHOOSE k \in DOMAIN members : members[k] = m
           read(k)  == ReadMember("PACKET_JOIN_RESPONSE", k, b, garbage)
<1>1. Members("PACKET_JOIN_RESPONSE") = members
  BY DEF Members
<1>2. /\ Index("response") = 1 /\ Index("playerID") = 2 /\ Index("team") = 3
      /\ {members[k] : k \in DOMAIN members} = {"response", "playerID", "team"}
  OBVIOUS
<1>3. read(1) = r /\ read(2) = id /\ read(3) = team
  <2>1. ReadUInt(b, 2, garbage) = id /\ ReadUInt(b, 6, garbage) = team
    BY ReadsDword, TeamsAreDwords DEF HoldsDword
  <2>2. ByteAt(b, 1 + 1, garbage) = r
    BY DEF ByteAt
  <2> QED  BY <1>1, <2>1, <2>2, Layout DEF ReadMember, FieldType
<1>4. Deserialize("PACKET_JOIN_RESPONSE", b, garbage) =
        [m \in {"type"} \cup {members[k] : k \in DOMAIN members} |->
           IF m = "type" THEN "PACKET_JOIN_RESPONSE" ELSE read(Index(m))]
  BY <1>1 DEF Deserialize
<1>5. Deserialize("PACKET_JOIN_RESPONSE", b, garbage) =
        [m \in {"type", "response", "playerID", "team"} |->
           IF m = "type" THEN "PACKET_JOIN_RESPONSE"
           ELSE IF m = "response" THEN r ELSE IF m = "playerID" THEN id ELSE team]
  <2> HIDE DEF members, Index, read
  <2> QED  BY <1>2, <1>3, <1>4
<1> QED  BY <1>5 DEF JoinResponse

LEMMA DidJoinRead ==
  ASSUME NEW id \in Dword, NEW team \in Team, NEW b, NEW garbage,
         HoldsDword(b, 1, id), HoldsDword(b, 5, team)
  PROVE  Deserialize("PACKET_PLAYER_DID_JOIN", b, garbage) = PlayerDidJoin(id, team)
<1> DEFINE members == <<"playerID", "team">>
           Index(m) == CHOOSE k \in DOMAIN members : members[k] = m
           read(k)  == ReadMember("PACKET_PLAYER_DID_JOIN", k, b, garbage)
<1>1. Members("PACKET_PLAYER_DID_JOIN") = members
  BY DEF Members
<1>2. /\ Index("playerID") = 1 /\ Index("team") = 2
      /\ {members[k] : k \in DOMAIN members} = {"playerID", "team"}
  OBVIOUS
<1>3. read(1) = id /\ read(2) = team
  <2>1. ReadUInt(b, 1, garbage) = id /\ ReadUInt(b, 5, garbage) = team
    BY ReadsDword, TeamsAreDwords DEF HoldsDword
  <2> QED  BY <1>1, <2>1, Layout DEF ReadMember, FieldType
<1>4. Deserialize("PACKET_PLAYER_DID_JOIN", b, garbage) =
        [m \in {"type"} \cup {members[k] : k \in DOMAIN members} |->
           IF m = "type" THEN "PACKET_PLAYER_DID_JOIN" ELSE read(Index(m))]
  BY <1>1 DEF Deserialize
<1>5. Deserialize("PACKET_PLAYER_DID_JOIN", b, garbage) =
        [m \in {"type", "playerID", "team"} |->
           IF m = "type" THEN "PACKET_PLAYER_DID_JOIN"
           ELSE IF m = "playerID" THEN id ELSE team]
  <2> HIDE DEF members, Index, read
  <2> QED  BY <1>2, <1>3, <1>4
<1> QED  BY <1>5 DEF PlayerDidJoin

(* A packet whose bytes are at the front of a buffer is what is read.      *)
LEMMA FrontRead ==
  ASSUME NEW p \in Packets, p.type \in Registered, NEW behind \in Seq(Byte),
         NEW b, IsConcat(b, Serialize(p), behind), NEW garbage
  PROVE  /\ Readable(Serialize(p)) /\ Readable(b)
         /\ Deserialize(TypeOf(b), b, garbage) = p
<1>0. DOMAIN b = 1 .. Len(b)
  BY DEF IsConcat
<1>1. ASSUME NEW port \in Dword, p = JoinRequest(port)
      PROVE  /\ Len(Serialize(p)) = 5 /\ Serialize(p)[1] = 1 /\ b[1] = 1
             /\ Deserialize("PACKET_JOIN_REQUEST", b, garbage) = p
  <2>1. /\ Len(Serialize(p)) = 5 /\ Serialize(p)[1] = 1
        /\ \A k \in 1 .. 4 : Serialize(p)[1 + k] = NetworkDword(port)[k]
    BY <1>1, RequestBytes
  <2>2. Len(b) >= 5 /\ Len(b) \in Nat /\ \A k \in 1 .. 5 : b[k] = Serialize(p)[k]
    BY <2>1 DEF IsConcat
  <2>3. HoldsDword(b, 1, port)
    <3>1. \A k \in 1 .. 4 : 1 + k \in 1 .. 5 /\ 1 + k \in 1 .. Len(b)
      BY <2>2
    <3> QED  BY <1>0, <2>1, <2>2, <3>1 DEF HoldsDword
  <2> QED  BY <1>1, <2>1, <2>2, <2>3, RequestRead
<1>2. ASSUME NEW r \in {0, 1}, NEW id \in Dword, NEW team \in Team,
             p = JoinResponse(r, id, team)
      PROVE  /\ Len(Serialize(p)) = 10 /\ Serialize(p)[1] = 2 /\ b[1] = 2
             /\ Deserialize("PACKET_JOIN_RESPONSE", b, garbage) = p
  <2>1. /\ Len(Serialize(p)) = 10 /\ Serialize(p)[1] = 2 /\ Serialize(p)[2] = r
        /\ \A k \in 1 .. 4 : /\ Serialize(p)[2 + k] = NetworkDword(id)[k]
                             /\ Serialize(p)[6 + k] = NetworkDword(team)[k]
    BY <1>2, ResponseBytes
  <2>2. Len(b) >= 10 /\ Len(b) \in Nat /\ \A k \in 1 .. 10 : b[k] = Serialize(p)[k]
    BY <2>1 DEF IsConcat
  <2>3. HoldsDword(b, 2, id) /\ HoldsDword(b, 6, team)
    <3>1. \A k \in 1 .. 4 : /\ 2 + k \in 1 .. 10 /\ 2 + k \in 1 .. Len(b)
                            /\ 6 + k \in 1 .. 10 /\ 6 + k \in 1 .. Len(b)
      BY <2>2
    <3> QED  BY <1>0, <2>1, <2>2, <3>1 DEF HoldsDword
  <2>4. 2 \in DOMAIN b /\ b[2] = r
    BY <1>0, <2>1, <2>2
  <2>5. Deserialize("PACKET_JOIN_RESPONSE", b, garbage) = p
    BY <1>2, <2>3, <2>4, ResponseRead
  <2> QED  BY <2>1, <2>2, <2>5
<1>3. ASSUME NEW id \in Dword, NEW team \in Team, p = PlayerDidJoin(id, team)
      PROVE  /\ Len(Serialize(p)) = 9 /\ Serialize(p)[1] = 3 /\ b[1] = 3
             /\ Deserialize("PACKET_PLAYER_DID_JOIN", b, garbage) = p
  <2>1. /\ Len(Serialize(p)) = 9 /\ Serialize(p)[1] = 3
        /\ \A k \in 1 .. 4 : /\ Serialize(p)[1 + k] = NetworkDword(id)[k]
                             /\ Serialize(p)[5 + k] = NetworkDword(team)[k]
    BY <1>3, DidJoinBytes
  <2>2. Len(b) >= 9 /\ Len(b) \in Nat /\ \A k \in 1 .. 9 : b[k] = Serialize(p)[k]
    BY <2>1 DEF IsConcat
  <2>3. HoldsDword(b, 1, id) /\ HoldsDword(b, 5, team)
    <3>1. \A k \in 1 .. 4 : /\ 1 + k \in 1 .. 9 /\ 1 + k \in 1 .. Len(b)
                            /\ 5 + k \in 1 .. 9 /\ 5 + k \in 1 .. Len(b)
      BY <2>2
    <3> QED  BY <1>0, <2>1, <2>2, <3>1 DEF HoldsDword
  <2>4. Deserialize("PACKET_PLAYER_DID_JOIN", b, garbage) = p
    BY <1>3, <2>3, DidJoinRead
  <2> QED  BY <2>1, <2>2, <2>4
<1>4. \/ \E port \in Dword : p = JoinRequest(port)
      \/ \E r \in {0, 1}, id \in Dword, team \in Team : p = JoinResponse(r, id, team)
      \/ \E id \in Dword, team \in Team : p = PlayerDidJoin(id, team)
  BY DEF Packets, Registered, PlayerDidLeave, ServerShutdown
<1>5. \/ /\ Len(Serialize(p)) = 5 /\ Serialize(p)[1] = 1 /\ b[1] = 1
         /\ Deserialize("PACKET_JOIN_REQUEST", b, garbage) = p
      \/ /\ Len(Serialize(p)) = 10 /\ Serialize(p)[1] = 2 /\ b[1] = 2
         /\ Deserialize("PACKET_JOIN_RESPONSE", b, garbage) = p
      \/ /\ Len(Serialize(p)) = 9 /\ Serialize(p)[1] = 3 /\ b[1] = 3
         /\ Deserialize("PACKET_PLAYER_DID_JOIN", b, garbage) = p
  BY <1>1, <1>2, <1>3, <1>4
<1>6. CASE /\ Len(Serialize(p)) = 5 /\ Serialize(p)[1] = 1 /\ b[1] = 1
           /\ Deserialize("PACKET_JOIN_REQUEST", b, garbage) = p
  BY <1>6, TypeRead
<1>7. CASE /\ Len(Serialize(p)) = 10 /\ Serialize(p)[1] = 2 /\ b[1] = 2
           /\ Deserialize("PACKET_JOIN_RESPONSE", b, garbage) = p
  BY <1>7, TypeRead
<1>8. CASE /\ Len(Serialize(p)) = 9 /\ Serialize(p)[1] = 3 /\ b[1] = 3
           /\ Deserialize("PACKET_PLAYER_DID_JOIN", b, garbage) = p
  BY <1>8, TypeRead
<1> QED  BY <1>5, <1>6, <1>7, <1>8

LEMMA BytesType ==
  ASSUME NEW p \in Packets
  PROVE  Serialize(p) \in Seq(Byte) /\ Len(Serialize(p)) \in 1 .. MaxPacketLength
<1>0. \A n \in {1, 5, 9, 10} : n \in 1 .. MaxPacketLength
  BY Layout
<1>1. CASE p.type \notin Registered
  <2>1. Serialize(p) \in Seq(Byte) /\ Len(Serialize(p)) \in {1, 5}
    BY <1>1, OtherBytes
  <2> QED  BY <1>0, <2>1
<1>2. CASE p.type \in Registered
  <2>1. \/ \E port \in Dword : p = JoinRequest(port)
        \/ \E r \in {0, 1}, id \in Dword, team \in Team : p = JoinResponse(r, id, team)
        \/ \E id \in Dword, team \in Team : p = PlayerDidJoin(id, team)
    BY <1>2 DEF Packets, Registered, PlayerDidLeave, ServerShutdown
  <2>2. ASSUME NEW port \in Dword, p = JoinRequest(port)
        PROVE  Serialize(p) \in Seq(Byte) /\ Len(Serialize(p)) = 5
    BY <2>2, RequestBytes
  <2>3. ASSUME NEW r \in {0, 1}, NEW id \in Dword, NEW team \in Team,
               p = JoinResponse(r, id, team)
        PROVE  Serialize(p) \in Seq(Byte) /\ Len(Serialize(p)) = 10
    BY <2>3, ResponseBytes
  <2>4. ASSUME NEW id \in Dword, NEW team \in Team, p = PlayerDidJoin(id, team)
        PROVE  Serialize(p) \in Seq(Byte) /\ Len(Serialize(p)) = 9
    BY <2>4, DidJoinBytes
  <2>5. Serialize(p) \in Seq(Byte) /\ Len(Serialize(p)) \in {5, 9, 10}
    BY <2>1, <2>2, <2>3, <2>4
  <2> QED  BY <1>0, <2>5
<1> QED  BY <1>1, <1>2

(* The codec: what was written is read back, whatever lies behind it.      *)
THEOREM Codec ==
  ASSUME NEW p \in Packets, p.type \in Registered, NEW behind \in Seq(Byte),
         NEW packetlen, NEW garbage
  PROVE  LET b == Serialize(p) \o behind
         IN  /\ Readable(Serialize(p)) /\ Readable(b)
             /\ ReadPacket(b, packetlen, garbage).packet = p
<1>1. PICK b \in Seq(Byte) : IsConcat(b, Serialize(p), behind)
  BY BytesType, Concat
<1>2. b = Serialize(p) \o behind
  BY <1>1 DEF IsConcat
<1>3. /\ Readable(Serialize(p)) /\ Readable(b)
      /\ ReadPacket(b, packetlen, garbage).packet = p
  BY <1>1, FrontRead DEF ReadPacket
<1> QED  BY <1>2, <1>3

LEMMA CodecInt ==
  ASSUME NEW i \in Int, -DwordBase <= 2 * i, 2 * i < DwordBase,
         NEW behind \in Seq(Byte), NEW garbage
  PROVE  ReadInt(NetworkDword(Bits(i)) \o behind, 0, garbage) = i
<1>1. PICK u \in Dword : /\ u = Bits(i)
                         /\ i = IF 2 * u < DwordBase THEN u ELSE u - DwordBase
  <2>0. DwordBase \in Nat \ {0}
    BY BaseFacts
  <2>1. CASE i >= 0
    <3>1. i % DwordBase = i /\ i \in 0 .. DwordBase - 1
      BY <2>0, <2>1
    <3> QED  BY <2>0, <3>1 DEF Bits, Dword
  <2>2. CASE i < 0
    <3>1. i + DwordBase \in 0 .. DwordBase - 1 /\ 2 * (i + DwordBase) >= DwordBase
      BY <2>0, <2>2
    <3>2. i % DwordBase = i + DwordBase
      BY <2>0, <2>2, <3>1
    <3> QED  BY <2>0, <3>1, <3>2 DEF Bits, Dword
  <2> QED  BY <2>1, <2>2
<1>2. NetworkDword(u) \in Seq(Byte) /\ Len(NetworkDword(u)) = 4
  BY DwordBytes
<1>3. PICK b \in Seq(Byte) : IsConcat(b, NetworkDword(u), behind)
  BY <1>2, Concat
<1>4. \A k \in 1 .. 4 : 0 + k \in DOMAIN b /\ b[0 + k] = NetworkDword(u)[k]
  BY <1>2, <1>3 DEF IsConcat
<1>5. ReadUInt(b, 0, garbage) = u
  BY <1>4, ReadsDword
<1>6. ReadInt(b, 0, garbage) = i
  BY <1>1, <1>5 DEF ReadInt
<1> QED  BY <1>1, <1>3, <1>6 DEF IsConcat

(* RoundTrip: whatever packets, numbers and bytes behind them the codec is *)
(* tried on, what Serialize wrote ReadPacket reads back, and ReadInt an    *)
(* int with its sign.                                                      *)
THEOREM WrittenIsReadBack == Spec => []RoundTrip
<1>1. ASSUME NEW behind \in Trials.behinds, NEW garbage \in Byte, NEW p \in Trials.packets
      PROVE  ReadBack(p, behind, garbage)
  <2>1. p \in Packets /\ p.type \in Registered /\ behind \in Seq(Byte)
    BY <1>1, TrialsAssumption
  <2> QED  BY <2>1, Codec DEF ReadBack
<1>2. ASSUME NEW behind \in Trials.behinds, NEW garbage \in Byte, NEW i \in Trials.ints
      PROVE  ReadInt(NetworkDword(Bits(i)) \o behind, 0, garbage) = i
  <2>1. behind \in Seq(Byte) /\ i \in Int /\ -DwordBase <= 2 * i /\ 2 * i < DwordBase
    BY <1>2, TrialsAssumption
  <2> QED  BY <2>1, CodecInt
<1>3. RoundTrip
  BY <1>1, <1>2 DEF RoundTrip
<1> QED  BY <1>3, PTL

-----------------------------------------------------------------------------
(* The packets of s behind the i-th up to the j-th: as they are sent, and  *)
(* their bytes.                                                            *)
Wire(s, i, j)  == [k \in 1 .. j - i |-> Serialize(s[i + k])]
Bytes(s, i, j) == FlattenSeq(Wire(s, i, j))

LEMMA WireType ==
  ASSUME NEW s \in Seq(Packets), NEW i \in 0 .. Len(s), NEW j \in i .. Len(s)
  PROVE  /\ Wire(s, i, j) \in Seq(Seq(Byte)) /\ Len(Wire(s, i, j)) = j - i
         /\ Bytes(s, i, j) \in Seq(Byte)
<1>1. ASSUME NEW k \in 1 .. j - i
      PROVE  Serialize(s[i + k]) \in Seq(Byte)
  <2>1. i + k \in 1 .. Len(s)
    OBVIOUS
  <2>2. s[i + k] \in Packets
    BY <2>1
  <2> QED  BY <2>2, BytesType
<1>2. Wire(s, i, j) \in [1 .. j - i -> Seq(Byte)] /\ j - i \in Nat
  BY <1>1 DEF Wire
<1>3. Wire(s, i, j) \in Seq(Seq(Byte)) /\ Len(Wire(s, i, j)) = j - i
  BY <1>2, IsSeq
<1> QED  BY <1>3, FlattenType DEF Bytes

LEMMA WireNone ==
  ASSUME NEW s, NEW i \in Nat
  PROVE  Wire(s, i, i) = <<>> /\ Bytes(s, i, i) = <<>>
<1>1. Wire(s, i, i) = <<>>
  BY DEF Wire
<1> QED  BY <1>1, FlattenEmpty DEF Bytes

LEMMA WireOne ==
  ASSUME NEW s \in Seq(Packets), NEW i \in 0 .. Len(s) - 1
  PROVE  /\ s[i + 1] \in Packets
         /\ Wire(s, i, i + 1) = <<Serialize(s[i + 1])>>
         /\ Bytes(s, i, i + 1) = Serialize(s[i + 1])
<1>1. s[i + 1] \in Packets
  OBVIOUS
<1>2. Wire(s, i, i + 1) = <<Serialize(s[i + 1])>>
  BY DEF Wire
<1>3. Serialize(s[i + 1]) \in Seq(Byte)
  BY <1>1, BytesType
<1> QED  BY <1>1, <1>2, <1>3, FlattenOne DEF Bytes

LEMMA WireConcat ==
  ASSUME NEW s \in Seq(Packets), NEW i \in 0 .. Len(s), NEW j \in i .. Len(s),
         NEW k \in j .. Len(s)
  PROVE  /\ Wire(s, i, k) = Wire(s, i, j) \o Wire(s, j, k)
         /\ Bytes(s, i, k) = Bytes(s, i, j) \o Bytes(s, j, k)
<1>1. /\ Wire(s, i, j) \in Seq(Seq(Byte)) /\ Len(Wire(s, i, j)) = j - i
      /\ Wire(s, j, k) \in Seq(Seq(Byte)) /\ Len(Wire(s, j, k)) = k - j
  BY WireType, SMTT(30)
<1>2. j \in 0 .. Len(s) /\ k \in i .. Len(s)
  OBVIOUS
<1>3. Wire(s, i, k) \in Seq(Seq(Byte)) /\ Len(Wire(s, i, k)) = k - i
  BY <1>2, WireType
<1>4. Wire(s, i, k) = Wire(s, i, j) \o Wire(s, j, k)
  <2> DEFINE w == Wire(s, i, j) \o Wire(s, j, k)
  <2>0. i \in Nat /\ j \in Nat /\ k \in Nat
    OBVIOUS
  <2>1. w \in Seq(Seq(Byte)) /\ Len(w) = k - i
    <3>1. /\ w \in Seq(Seq(Byte))
          /\ Len(w) = Len(Wire(s, i, j)) + Len(Wire(s, j, k))
      BY <1>1, ConcatProperties
    <3> QED  BY <1>1, <2>0, <3>1
  <2> DEFINE u == Wire(s, i, j)
             v == Wire(s, j, k)
  <2>2. \A n \in 1 .. k - i : w[n] = IF n <= j - i THEN u[n] ELSE v[n - (j - i)]
    <3>1. \A n \in 1 .. Len(u) + Len(v) : w[n] = IF n <= Len(u) THEN u[n] ELSE v[n - Len(u)]
      BY <1>1, ConcatProperties
    <3> HIDE DEF u, v, w
    <3>2. Len(u) = j - i /\ Len(v) = k - j
      BY <1>1 DEF u, v
    <3> QED  BY <2>0, <3>1, <3>2
  <2>3. ASSUME NEW n \in 1 .. k - i
        PROVE  Wire(s, i, k)[n] = w[n]
    <3> HIDE DEF w
    <3>1. CASE n <= j - i
      <4>1. w[n] = u[n]
        BY <2>2, <3>1
      <4> QED  BY <3>1, <4>1 DEF Wire
    <3>2. CASE n > j - i
      <4>1. n - (j - i) \in 1 .. k - j /\ j + (n - (j - i)) = i + n
        BY <3>2
      <4>2. w[n] = v[n - (j - i)]
        BY <2>0, <2>2, <3>2
      <4>3. Wire(s, j, k)[n - (j - i)] = Serialize(s[i + n])
        BY <4>1 DEF Wire
      <4> QED  BY <4>2, <4>3 DEF Wire
    <3>3. n <= j - i \/ n > j - i
      BY <2>0
    <3> QED  BY <3>1, <3>2, <3>3, Zenon
  <2> HIDE DEF w, u, v
  <2>4. Wire(s, i, k) = w
    BY <1>3, <2>1, <2>3, SeqEqual
  <2> QED  BY <2>4 DEF w
<1> QED  BY <1>1, <1>4, FlattenConcat DEF Bytes

(* A packet more is a packet more on the wire; the others stay.            *)
LEMMA WireAppend ==
  ASSUME NEW s \in Seq(Packets), NEW p \in Packets, NEW i \in 0 .. Len(s)
  PROVE  /\ Append(s, p) \in Seq(Packets) /\ Len(Append(s, p)) = Len(s) + 1
         /\ \A j \in i .. Len(s) : /\ Wire(Append(s, p), i, j) = Wire(s, i, j)
                                  /\ Bytes(Append(s, p), i, j) = Bytes(s, i, j)
         /\ Wire(Append(s, p), i, Len(s) + 1) = Append(Wire(s, i, Len(s)), Serialize(p))
<1> DEFINE t == Append(s, p)
<1>1. /\ t \in Seq(Packets) /\ Len(t) = Len(s) + 1 /\ Len(s) \in Nat
      /\ t[Len(s) + 1] = p /\ \A k \in 1 .. Len(s) : t[k] = s[k]
  BY AppendProperties
<1> HIDE DEF t
<1>2. ASSUME NEW j \in i .. Len(s)
      PROVE  Wire(t, i, j) = Wire(s, i, j)
  <2>1. \A k \in 1 .. j - i : t[i + k] = s[i + k]
    BY <1>1
  <2> QED  BY <2>1 DEF Wire
<1>3. Wire(t, i, Len(s) + 1) = Append(Wire(s, i, Len(s)), Serialize(p))
  <2>1. /\ Wire(s, i, Len(s)) \in Seq(Seq(Byte)) /\ Serialize(p) \in Seq(Byte)
    <3>1. Len(s) \in i .. Len(s)
      BY <1>1
    <3> QED  BY <3>1, WireType, BytesType
  <2>2. Wire(t, Len(s), Len(s) + 1) = <<Serialize(p)>>
    BY <1>1, WireOne
  <2>3. Wire(t, i, Len(s) + 1) = Wire(t, i, Len(s)) \o Wire(t, Len(s), Len(s) + 1)
    <3>1. i \in 0 .. Len(t) /\ Len(s) \in i .. Len(t) /\ Len(s) + 1 \in Len(s) .. Len(t)
      BY <1>1
    <3> QED  BY <1>1, <3>1, WireConcat
  <2>4. Wire(t, i, Len(s)) = Wire(s, i, Len(s))
    BY <1>1, <1>2
  <2> QED  BY <2>1, <2>2, <2>3, <2>4, AppendIsConcat
<1> QED  BY <1>1, <1>2, <1>3 DEF t, Bytes

(* As many bytes as packets at least, MaxPacketLength times that at most.  *)
LEMMA BytesBound ==
  ASSUME NEW s \in Seq(Packets), NEW i \in 0 .. Len(s), NEW j \in i .. Len(s)
  PROVE  /\ Len(Bytes(s, i, j)) \in Nat
         /\ j - i <= Len(Bytes(s, i, j))
         /\ Len(Bytes(s, i, j)) <= (j - i) * MaxPacketLength
<1> DEFINE L(n) == Len(Bytes(s, i, i + n))
           T == {n \in 0 .. Len(s) - i : L(n) \in Nat /\ n <= L(n) /\ L(n) <= n * 10}
<1>0. Len(s) \in Nat /\ i \in Nat /\ j \in Nat /\ i <= j /\ j <= Len(s)
  OBVIOUS
<1>1. 0 \in T
  <2>1. Bytes(s, i, i + 0) = <<>>
    BY <1>0, WireNone
  <2>2. L(0) = 0
    BY <2>1
  <2> HIDE DEF L
  <2> QED  BY <1>0, <2>2
<1>2. ASSUME NEW n \in 0 .. (j - i) - 1, n \in T
      PROVE  n + 1 \in T
  <2>1. /\ i + n \in i .. Len(s) /\ i + n + 1 \in i + n .. Len(s)
        /\ i + n \in 0 .. Len(s) - 1 /\ i + (n + 1) = (i + n) + 1
        /\ i + n + 1 \in 1 .. Len(s)
    BY <1>0
  <2>2. Bytes(s, i, i + (n + 1)) = Bytes(s, i, i + n) \o Bytes(s, i + n, (i + n) + 1)
    BY <2>1, WireConcat
  <2>3. Bytes(s, i + n, (i + n) + 1) = Serialize(s[(i + n) + 1])
    BY <2>1, WireOne
  <2>4. /\ Len(Serialize(s[(i + n) + 1])) \in 1 .. 10
        /\ Serialize(s[(i + n) + 1]) \in Seq(Byte)
    <3>1. s[(i + n) + 1] \in Packets
      BY <2>1
    <3> QED  BY <3>1, BytesType, Layout
  <2>5. Bytes(s, i, i + n) \in Seq(Byte)
    BY <2>1, WireType
  <2>6. L(n + 1) = L(n) + Len(Serialize(s[(i + n) + 1]))
    BY <2>2, <2>3, <2>4, <2>5, ConcatProperties
  <2>7. PICK m \in 1 .. 10 : L(n + 1) = L(n) + m
    BY <2>4, <2>6
  <2>8. L(n) \in Nat /\ n <= L(n) /\ L(n) <= n * 10
    BY <1>2
  <2> HIDE DEF L
  <2>9. L(n + 1) \in Nat /\ n + 1 <= L(n + 1) /\ L(n + 1) <= (n + 1) * 10
    BY <2>7, <2>8
  <2> QED  BY <1>0, <2>9
<1>3. j - i \in T
  <2> HIDE DEF T
  <2> QED  BY <1>0, <1>1, <1>2, Induction
<1>4. i + (j - i) = j
  BY <1>0
<1> QED  BY <1>3, <1>4, Layout

(* One turn of the parsing loop on the bytes of packets: the first of them *)
(* is read, if it is of a type that has a creator.                         *)
LEMMA ParseHead ==
  ASSUME NEW s \in Seq(Packets), NEW i \in 0 .. Len(s), NEW j \in i .. Len(s), i # j,
         NEW buffer, buffer = Bytes(s, i, j)
  PROVE  /\ i + 1 \in 1 .. j /\ s[i + 1] \in ToSet(s)
         /\ Readable(buffer) <=> s[i + 1].type \in Registered
         /\ Readable(buffer) =>
              \A garbage : ReadPacket(buffer, 0, garbage).packet = s[i + 1]
<1>1. /\ Len(s) \in Nat /\ i + 1 \in 1 .. j /\ i + 1 \in 0 .. Len(s) /\ i + 1 \in i .. Len(s)
      /\ j \in i + 1 .. Len(s) /\ i \in 0 .. Len(s) - 1 /\ i + 1 \in 1 .. Len(s)
  OBVIOUS
<1>2. s[i + 1] \in Packets /\ s[i + 1] \in ToSet(s)
  BY <1>1 DEF ToSet
<1> DEFINE first == Serialize(s[i + 1])
           rest  == Bytes(s, i + 1, j)
<1>3. first \in Seq(Byte) /\ rest \in Seq(Byte) /\ Len(first) \in 1 .. MaxPacketLength
  BY <1>1, <1>2, BytesType, WireType
<1>4. buffer = first \o rest
  BY <1>1, WireConcat, WireOne
<1>5. ASSUME s[i + 1].type \in Registered
      PROVE  /\ Readable(buffer)
             /\ \A garbage : ReadPacket(buffer, 0, garbage).packet = s[i + 1]
  BY <1>2, <1>3, <1>4, <1>5, Codec
<1>6. ASSUME s[i + 1].type \notin Registered
      PROVE  ~ Readable(buffer)
  <2>1. first[1] \in {4, 5} /\ Len(first) >= 1
    BY <1>2, <1>6, OtherBytes
  <2> HIDE DEF first, rest
  <2>2. PICK u \in Seq(Byte) : IsConcat(u, first, rest)
    BY <1>3, Concat
  <2>3. buffer[1] = first[1]
    BY <1>4, <2>1, <2>2 DEF IsConcat
  <2> QED  BY <2>1, <2>3, TypeRead
<1> QED  BY <1>1, <1>2, <1>5, <1>6

(* The first packet on the wire, and the others.                           *)
LEMMA WireTail ==
  ASSUME NEW s \in Seq(Packets), NEW i \in 0 .. Len(s) - 1
  PROVE  /\ Wire(s, i, Len(s)) # <<>>
         /\ Head(Wire(s, i, Len(s))) = Serialize(s[i + 1])
         /\ Tail(Wire(s, i, Len(s))) = Wire(s, i + 1, Len(s))
<1>1. /\ Len(s) \in Nat /\ i + 1 \in 0 .. Len(s) /\ Len(s) \in i + 1 .. Len(s)
      /\ i \in 0 .. Len(s) /\ Len(s) \in i .. Len(s)
      /\ Len(s) - i >= 1 /\ Len(s) - (i + 1) = (Len(s) - i) - 1
  OBVIOUS
<1> DEFINE w == Wire(s, i, Len(s))
           v == Wire(s, i + 1, Len(s))
<1>2. /\ w \in Seq(Seq(Byte)) /\ Len(w) = Len(s) - i
      /\ v \in Seq(Seq(Byte)) /\ Len(v) = Len(s) - (i + 1)
  BY <1>1, WireType
<1>3. w[1] = Serialize(s[i + 1])
  BY <1>1 DEF Wire
<1>4. \A k \in 1 .. Len(s) - (i + 1) : w[k + 1] = v[k]
  <2>1. ASSUME NEW k \in 1 .. Len(s) - (i + 1)
        PROVE  w[k + 1] = v[k]
    <3>1. k + 1 \in 1 .. Len(s) - i /\ i + (k + 1) = (i + 1) + k
      BY <1>1
    <3> QED  BY <3>1 DEF Wire
  <2> QED  BY <2>1
<1> HIDE DEF w, v
<1>5. w # <<>>
  BY <1>1, <1>2
<1>6. /\ Tail(w) \in Seq(Seq(Byte)) /\ Len(Tail(w)) = Len(w) - 1
      /\ \A k \in 1 .. Len(Tail(w)) : Tail(w)[k] = w[k + 1]
  BY <1>2, <1>5, HeadTailProperties
<1>7. Tail(w) = v
  <2>1. Len(Tail(w)) = Len(v) /\ \A k \in 1 .. Len(v) : Tail(w)[k] = v[k]
    BY <1>1, <1>2, <1>4, <1>6
  <2> QED  BY <1>2, <1>6, <2>1, SeqEqual
<1> QED  BY <1>3, <1>5, <1>7 DEF w, v

-----------------------------------------------------------------------------
(* A socket under any setting: what its variables hold.                    *)

Common ==
  /\ setting \in Settings
  /\ sent \in Seq(Sendable)
  /\ Len(sent) <= setting.maxSent

LEMMA CommonInit == Init => Common
BY SocketAssumption DEF Init, Common, Sendable

LEMMA CommonNext ==
  ASSUME Common, [Next]_vars
  PROVE  Common' /\ setting' = setting
<1>1. ASSUME NEW p \in Sendable, Send(p) PROVE Common' /\ setting' = setting
  <2>1. setting' = setting /\ sent' = Append(sent, p) /\ Len(sent) < setting.maxSent
    BY <1>1 DEF Send
  <2>2. sent' \in Seq(Sendable) /\ Len(sent') = Len(sent) + 1
    BY <2>1, AppendProperties DEF Common
  <2>3. setting.maxSent \in Nat
    BY SocketAssumption DEF Common
  <2> QED  BY <2>1, <2>2, <2>3 DEF Common, Sendable
<1>2. ASSUME UNCHANGED <<setting, sent>> PROVE Common' /\ setting' = setting
  BY <1>2 DEF Common, Sendable
<1>3. CASE Close \/ Reset \/ Delivery
  BY <1>2, <1>3 DEF Close, Reset, Delivery, Deliver
<1>4. ASSUME NEW k \in DOMAIN flight, Arrive(k) \/ Lose(k) PROVE Common' /\ setting' = setting
  BY <1>2, <1>4 DEF Arrive, Lose
<1>5. CASE GetPacket
  BY <1>2, <1>5 DEF GetPacket, Call, GetMoreData, ParsePacket, LeaveLoop, remoteVars
<1>6. CASE UNCHANGED vars
  BY <1>2, <1>6 DEF vars, remoteVars
<1> QED  BY <1>1, <1>3, <1>4, <1>5, <1>6 DEF Next

LEMMA ElementsOf ==
  ASSUME NEW S, NEW s \in Seq(S)
  PROVE  ToSet(s) \subseteq S /\ s \in Seq(ToSet(s))
<1>1. s \in [1 .. Len(s) -> S] /\ DOMAIN s = 1 .. Len(s) /\ Len(s) \in Nat
  OBVIOUS
<1>2. s \in [1 .. Len(s) -> ToSet(s)]
  BY <1>1 DEF ToSet
<1> QED  BY <1>1, <1>2, IsSeq DEF ToSet

LEMMA SentGrows ==
  ASSUME NEW S, NEW s \in Seq(S), NEW e \in S
  PROVE  /\ ToSet(s) \subseteq ToSet(Append(s, e)) /\ e \in ToSet(Append(s, e))
         /\ \A k \in 1 .. Len(s) : Append(s, e)[k] = s[k]
<1> DEFINE t == Append(s, e)
<1>1. /\ DOMAIN t = 1 .. Len(s) + 1 /\ DOMAIN s = 1 .. Len(s) /\ Len(s) \in Nat
      /\ t[Len(s) + 1] = e /\ \A k \in 1 .. Len(s) : t[k] = s[k]
  BY AppendProperties
<1> HIDE DEF t
<1>2. \A k \in DOMAIN s : k \in DOMAIN t /\ t[k] = s[k]
  BY <1>1
<1>3. Len(s) + 1 \in DOMAIN t
  BY <1>1
<1> QED  BY <1>1, <1>2, <1>3 DEF ToSet, t

LEMMA Removed ==
  ASSUME NEW S, NEW s \in Seq(S), NEW k \in DOMAIN s
  PROVE  RemoveAt(s, k) \in Seq(S)
<1>1. k \in 1 .. Len(s) /\ Len(s) \in Nat
  OBVIOUS
<1>2. SubSeq(s, 1, k - 1) \in Seq(S) /\ SubSeq(s, k + 1, Len(s)) \in Seq(S)
  BY <1>1
<1> QED  BY <1>2, ConcatProperties DEF RemoveAt

BytesTyped ==
  /\ flight \in Seq(Seq(Byte)) /\ datagrams \in Seq(Seq(Byte))
  /\ stream \in Seq(Byte) /\ buf \in Seq(Byte)
  /\ maxlen \in Nat /\ totread \in Int /\ len \in Int

LEMMA TypedInit == Init => BytesTyped
BY DEF Init, BytesTyped

LEMMA Part ==
  ASSUME NEW s \in Seq(Byte), NEW i \in Int, i >= 1, NEW j \in Int, j <= Len(s)
  PROVE  SubSeq(s, i, j) \in Seq(Byte)
BY SubSeqProperties

LEMMA ReceivedTyped ==
  ASSUME NEW m \in Nat, NEW num \in Int, stream \in Seq(Byte), Recv(m, num)
  PROVE  Received(m) \in Seq(Byte) /\ stream' \in Seq(Byte)
<1>1. Received(m) \in Seq(Byte) /\ Len(Received(m)) \in Nat
  BY Part DEF Received
<1>2. stream' \in Seq(Byte)
  <2>1. CASE UNCHANGED stream
    BY <2>1
  <2>2. CASE num = Len(Received(m)) /\ stream' = SubSeq(stream, num + 1, Len(stream))
    BY <1>1, <2>2, Part
  <2> QED  BY <2>1, <2>2 DEF Recv
<1> QED  BY <1>1, <1>2

LEMMA Gap ==
  ASSUME NEW n \in Int, NEW g \in Byte
  PROVE  [k \in 1 .. n |-> g] \in Seq(Byte)
<1>1. CASE n >= 0
  <2>1. n \in Nat /\ [k \in 1 .. n |-> g] \in [1 .. n -> Byte]
    BY <1>1
  <2> QED  BY <2>1, IsSeq
<1>2. CASE n < 0
  <2>1. 1 .. n = 1 .. 0
    BY <1>2
  <2>2. [k \in 1 .. n |-> g] \in [1 .. 0 -> Byte]
    BY <2>1
  <2> QED  BY <2>2, IsSeq
<1> QED  BY <1>1, <1>2

(* The loop advances by a length of 0: a turn of it leaves the buffer as   *)
(* it was.                                                                 *)
LEMMA Unmoved ==
  ASSUME BytesTyped, ParsePacket
  PROVE  /\ UNCHANGED <<buf, len>>
         /\ \E g \in Garbage : pqueue' = Append(pqueue, ReadPacket(buf, 0, g).packet)
<1>1. PICK g \in Garbage :
        /\ pqueue' = Append(pqueue, ReadPacket(buf, 0, g).packet)
        /\ len' = len - ReadPacket(buf, 0, g).packetlen
        /\ buf' = SubSeq(buf, ReadPacket(buf, 0, g).packetlen + 1, Len(buf))
  BY DEF ParsePacket
<1>2. ReadPacket(buf, 0, g).packetlen = 0
  BY DEF ReadPacket
<1>3. buf \in Seq(Byte) /\ len \in Int
  BY DEF BytesTyped
<1>4. len' = len - 0 /\ buf' = SubSeq(buf, 0 + 1, Len(buf))
  BY <1>1, <1>2
<1>5. len' = len /\ buf' = buf
  BY <1>3, <1>4, SubSeqFull
<1> QED  BY <1>1, <1>5

(* What a call does, by what it finds.                                     *)
LEMMA Calls ==
  ASSUME Call
  PROVE  /\ pc = "idle" /\ UNCHANGED remoteVars
         /\ \/ ReturnFirst /\ UNCHANGED <<arrived, pc, parseVars, tcpDisconnect>>
            \/ pqueue = <<>> /\ GetData
            \/ pqueue = <<>> /\ GetDatagram
BY DEF Call

LEMMA TypedNext ==
  ASSUME Common, BytesTyped, [Next]_vars
  PROVE  BytesTyped'
<1>1. /\ flight \in Seq(Seq(Byte)) /\ datagrams \in Seq(Seq(Byte))
      /\ stream \in Seq(Byte) /\ buf \in Seq(Byte)
      /\ maxlen \in Nat /\ totread \in Int /\ len \in Int
  BY DEF BytesTyped
<1>2. ASSUME NEW p \in Sendable, Send(p)
      PROVE  BytesTyped'
  <2>1. p \in Packets
    BY SocketAssumption DEF Common, Sendable
  <2>2. flight' \in Seq(Seq(Byte))
    BY <1>1, <1>2, <2>1, BytesType, AppendProperties DEF Send
  <2> QED  BY <1>1, <1>2, <2>2 DEF Send, BytesTyped, arrived, parseVars
<1>3. ASSUME \/ Close \/ Reset \/ UNCHANGED vars
             \/ UNCHANGED remoteVars /\ UNCHANGED <<arrived, parseVars>>
      PROVE  BytesTyped'
  <2>1. UNCHANGED <<arrived, parseVars>> /\ flight' \in {flight, <<>>}
    BY <1>3 DEF Close, Reset, vars, remoteVars
  <2>2. <<>> \in Seq(Seq(Byte))
    BY EmptySeq
  <2> QED  BY <1>1, <2>1, <2>2 DEF BytesTyped, arrived, parseVars
<1>4. ASSUME NEW n \in 1 .. MaxPacketLength, Deliver(n)
      PROVE  BytesTyped'
  <2>1. /\ flight # <<>> /\ n \in 1 .. Len(Head(flight))
        /\ stream' = stream \o SubSeq(Head(flight), 1, n)
        /\ flight' = IF n = Len(Head(flight)) THEN Tail(flight)
                     ELSE <<SubSeq(Head(flight), n + 1, Len(Head(flight)))>> \o Tail(flight)
        /\ UNCHANGED <<datagrams, parseVars>>
    BY <1>4 DEF Deliver
  <2>2. Head(flight) \in Seq(Byte) /\ Tail(flight) \in Seq(Seq(Byte))
    BY <1>1, <2>1, HeadTailProperties
  <2>3. /\ SubSeq(Head(flight), 1, n) \in Seq(Byte)
        /\ SubSeq(Head(flight), n + 1, Len(Head(flight))) \in Seq(Byte)
    <3>1. Len(Head(flight)) \in Nat /\ n \in Nat /\ n <= Len(Head(flight))
      BY <2>1, <2>2
    <3> QED  BY <2>2, <3>1, Part
  <2>4. stream' \in Seq(Byte)
    BY <1>1, <2>1, <2>3, ConcatProperties
  <2>5. flight' \in Seq(Seq(Byte))
    <3>1. ASSUME NEW r \in Seq(Byte) PROVE <<r>> \o Tail(flight) \in Seq(Seq(Byte))
      <4>1. <<r>> \in Seq(Seq(Byte))
        BY <3>1
      <4> QED  BY <2>2, <4>1, ConcatProperties
    <3> QED  BY <2>1, <2>2, <2>3, <3>1
  <2> QED  BY <1>1, <2>1, <2>4, <2>5 DEF BytesTyped, parseVars
<1>5. ASSUME NEW k \in DOMAIN flight, Arrive(k) \/ Lose(k)
      PROVE  BytesTyped'
  <2>1. flight[k] \in Seq(Byte) /\ RemoveAt(flight, k) \in Seq(Seq(Byte))
    BY <1>1, <1>5, Removed
  <2>2. Append(datagrams, flight[k]) \in Seq(Seq(Byte))
    BY <1>1, <2>1, AppendProperties
  <2> QED  BY <1>1, <1>5, <2>1, <2>2 DEF Arrive, Lose, BytesTyped, arrived, parseVars
<1>6. ASSUME GetData, UNCHANGED remoteVars
      PROVE  BytesTyped'
  <2>1. RecvMax \in Nat \ {0}
    BY SocketAssumption DEF Common, RecvMax
  <2>2. PICK num \in -1 .. RecvMax :
          /\ Recv(RecvMax, num) /\ buf' = Received(RecvMax)
          /\ maxlen' = RecvMax /\ totread' = num /\ len' = num
    BY <1>6 DEF GetData
  <2>3. UNCHANGED <<remoteVars, datagrams>>
    BY <1>6 DEF GetData
  <2>4. buf' \in Seq(Byte) /\ stream' \in Seq(Byte)
    BY <1>1, <2>1, <2>2, ReceivedTyped
  <2> QED  BY <1>1, <2>1, <2>2, <2>3, <2>4 DEF BytesTyped, remoteVars
<1>7. ASSUME GetDatagram, UNCHANGED remoteVars
      PROVE  BytesTyped'
  <2>1. PICK data \in ToSet(datagrams) \cup {<<>>} :
          /\ RecvFrom(data) /\ buf' = data /\ len' = Len(data)
    BY <1>7 DEF GetDatagram
  <2>2. UNCHANGED <<remoteVars, stream, maxlen, totread>>
    BY <1>7 DEF GetDatagram
  <2>3. data \in Seq(Byte) /\ datagrams' \in Seq(Seq(Byte))
    <3>1. CASE /\ datagrams # <<>> /\ data = Head(datagrams)
               /\ datagrams' = Tail(datagrams)
      BY <1>1, <3>1, HeadTailProperties
    <3>2. CASE data = <<>> /\ UNCHANGED datagrams
      BY <1>1, <3>2
    <3> QED  BY <2>1, <3>1, <3>2 DEF RecvFrom
  <2>4. len' \in Int
    BY <2>1, <2>3
  <2> QED  BY <1>1, <2>1, <2>2, <2>3, <2>4 DEF BytesTyped, remoteVars
<1>8. CASE GetMoreData
  <2>1. PICK num \in -1 .. 2 * maxlen, g \in Garbage :
          /\ Recv(2 * maxlen, num) /\ totread' = totread + maxlen
          /\ maxlen' = 2 * maxlen /\ len' = totread'
          /\ buf' = buf \o [k \in 1 .. totread' - Len(buf) |-> g] \o Received(2 * maxlen)
    BY <1>8 DEF GetMoreData
  <2>2. UNCHANGED <<remoteVars, datagrams>>
    BY <1>8 DEF GetMoreData
  <2>3. Received(2 * maxlen) \in Seq(Byte) /\ stream' \in Seq(Byte)
    BY <1>1, <2>1, ReceivedTyped
  <2>4. totread' \in Int /\ len' \in Int /\ maxlen' \in Nat
    BY <1>1, <2>1
  <2>5. PICK gap \in Seq(Byte) : gap = [k \in 1 .. totread' - Len(buf) |-> g]
    <3>1. g \in Byte
      BY SocketAssumption DEF Common, Garbage
    <3>2. totread' - Len(buf) \in Int
      BY <1>1, <2>4
    <3>3. [k \in 1 .. totread' - Len(buf) |-> g] \in Seq(Byte)
      BY <3>1, <3>2, Gap
    <3> QED  BY <3>3, Zenon
  <2>6. buf' \in Seq(Byte)
    <3>1. ASSUME NEW r \in Seq(Byte), NEW s \in Seq(Byte), NEW t \in Seq(Byte)
          PROVE  (r \o s) \o t \in Seq(Byte)
      <4>1. r \o s \in Seq(Byte)
        BY ConcatProperties
      <4> QED  BY <4>1, ConcatProperties
    <3> QED  BY <1>1, <2>1, <2>3, <2>5, <3>1, Zenon
  <2> QED  BY <1>1, <2>2, <2>3, <2>4, <2>6 DEF BytesTyped, remoteVars
<1>9. CASE ParsePacket
  <2>1. UNCHANGED <<remoteVars, arrived, maxlen, totread>>
    BY <1>9 DEF ParsePacket
  <2>2. UNCHANGED <<buf, len>>
    BY <1>9, Unmoved
  <2> QED  BY <1>1, <2>1, <2>2 DEF BytesTyped, remoteVars, arrived
<1>10. CASE LeaveLoop
  <2>1. len' = 0 /\ buf' = <<>> /\ UNCHANGED <<remoteVars, arrived, maxlen, totread>>
    BY <1>10 DEF LeaveLoop
  <2> QED  BY <1>1, <2>1 DEF BytesTyped, remoteVars, arrived
<1>11. CASE Call
  BY <1>3, <1>6, <1>7, <1>11, Calls
<1> QED
  BY <1>2, <1>3, <1>4, <1>5, <1>8, <1>9, <1>10, <1>11 DEF Next, Delivery, GetPacket

LEMMA TypedInductive == Spec => [](Common /\ BytesTyped)
<1>1. Init => Common /\ BytesTyped
  BY CommonInit, TypedInit
<1>2. Common /\ BytesTyped /\ [Next]_vars => (Common /\ BytesTyped)'
  BY CommonNext, TypedNext
<1> QED  BY <1>1, <1>2, PTL DEF Spec

(* What is received, as far as the end of the stream is concerned.         *)
LEMMA Receiving ==
  ASSUME NEW m \in Nat \ {0}, NEW num \in Int, stream \in Seq(Byte), Recv(m, num)
  PROVE  \/ stream # <<>> /\ num \in 1 .. m /\ IsEnd(num) = FALSE
         \/ /\ stream = <<>> /\ stream' = <<>> /\ num < 1
            /\ IsEnd(num) => remote = "closed" /\ flight = <<>>
<1>1. CASE stream # <<>>
  <2>1. num = Len(Received(m))
    BY <1>1 DEF Recv, AtEnd, AtError
  <2>2. Len(stream) \in Nat \ {0}
    BY <1>1, EmptySeq
  <2>3. Len(Received(m)) \in 1 .. m
    BY <2>2 DEF Received
  <2> QED  BY <1>1, <2>1, <2>3 DEF IsEnd
<1>2. CASE stream = <<>>
  BY <1>2 DEF Recv, AtEnd, AtError, IsEnd
<1> QED  BY <1>1, <1>2

-----------------------------------------------------------------------------
(* The end of a connection.                                                *)

EndInv ==
  tcpDisconnect =>
    setting.transport = "TCP" /\ remote # "open" /\ stream = <<>> /\ flight = <<>>

LEMMA EndInit == Init => EndInv
BY DEF Init, EndInv

LEMMA EndNext ==
  ASSUME Common, BytesTyped, EndInv, [Next]_vars
  PROVE  EndInv'
<1>0. setting' = setting
  BY CommonNext
<1>1. /\ stream \in Seq(Byte) /\ maxlen \in Nat /\ RecvMax \in Nat \ {0}
  BY SocketAssumption DEF BytesTyped, Common, RecvMax
<1>2. ASSUME NEW p \in Sendable, Send(p) PROVE EndInv'
  BY <1>2 DEF Send, EndInv, arrived
<1>3. CASE Close \/ Reset
  BY <1>3 DEF Close, Reset, EndInv, arrived
<1>4. ASSUME NEW n, Deliver(n) PROVE EndInv'
  BY <1>4 DEF Deliver, EndInv
<1>5. ASSUME NEW k \in DOMAIN flight, Arrive(k) \/ Lose(k) PROVE EndInv'
  BY <1>5 DEF Arrive, Lose, EndInv, arrived
<1>6. ASSUME GetData, UNCHANGED remoteVars PROVE EndInv'
  <2>1. setting.transport = "TCP"
    BY <1>6 DEF GetData
  <2>2. PICK num \in -1 .. RecvMax :
          Recv(RecvMax, num) /\ tcpDisconnect' = DisconnectAfter(num)
    BY <1>6 DEF GetData
  <2>3. CASE stream # <<>> /\ IsEnd(num) = FALSE
    BY <2>2, <2>3 DEF EndInv, DisconnectAfter
  <2>4. CASE /\ stream = <<>> /\ stream' = <<>>
             /\ IsEnd(num) => remote = "closed" /\ flight = <<>>
    <3>1. remote' = remote /\ flight' = flight
      BY <1>6 DEF remoteVars
    <3>2. CASE IsEnd(num)
      BY <1>0, <2>1, <2>4, <3>1, <3>2 DEF EndInv
    <3>3. CASE ~ IsEnd(num)
      BY <1>0, <2>1, <2>2, <2>4, <3>1, <3>3 DEF EndInv, DisconnectAfter
    <3> QED  BY <3>2, <3>3
  <2>5. num \in Int
    OBVIOUS
  <2>6. \/ stream # <<>> /\ num \in 1 .. RecvMax /\ IsEnd(num) = FALSE
        \/ /\ stream = <<>> /\ stream' = <<>> /\ num < 1
           /\ IsEnd(num) => remote = "closed" /\ flight = <<>>
    BY <1>1, <2>2, <2>5, Receiving
  <2> QED  BY <2>3, <2>4, <2>6
<1>7. CASE GetDatagram
  BY <1>7 DEF GetDatagram, DisconnectAfter, EndInv
<1>8. ASSUME UNCHANGED <<remoteVars, arrived, tcpDisconnect>> PROVE EndInv'
  BY <1>8 DEF EndInv, remoteVars, arrived
<1>9. CASE Call
  <2>1. \/ ReturnFirst /\ UNCHANGED <<arrived, pc, parseVars, tcpDisconnect>>
        \/ GetData
        \/ GetDatagram
    BY <1>9, Calls
  <2> QED  BY <1>6, <1>7, <1>8, <1>9, <2>1, Calls
<1>10. CASE GetMoreData
  <2>1. UNCHANGED <<remoteVars, tcpDisconnect>>
    BY <1>10 DEF GetMoreData
  <2>2. \E num : Recv(2 * maxlen, num)
    BY <1>10 DEF GetMoreData
  <2>3. stream = <<>> => stream' = <<>>
    BY <2>2 DEF Recv
  <2> QED  BY <2>1, <2>3 DEF EndInv, remoteVars
<1>11. CASE ParsePacket \/ LeaveLoop
  BY <1>8, <1>11 DEF ParsePacket, LeaveLoop
<1>12. CASE UNCHANGED vars
  BY <1>8, <1>12 DEF vars
<1> QED
  BY <1>2, <1>3, <1>4, <1>5, <1>9, <1>10, <1>11, <1>12 DEF Next, Delivery, GetPacket

-----------------------------------------------------------------------------
(* A TCP socket that gets whole packets.                                   *)

(* Of the packets sent, those behind the a-th up to the b-th are in the    *)
(* buffer, those up to the c-th in the stream, the others in flight.  A    *)
(* call that has come to its end has dropped what it could not read.       *)
Cut(a, b, c) ==
  /\ a <= b /\ b <= c
  /\ stream = Bytes(sent, b, c)
  /\ flight = IF remote = "reset" THEN <<>> ELSE Wire(sent, c, Len(sent))
  /\ pc = "parse" => a < b /\ buf = Bytes(sent, a, b) /\ len = Len(buf)
  /\ pc = "idle" => b = 0 \/ \E k \in 1 .. b : sent[k].type \notin Registered
  /\ tcpDisconnect => remote # "open" /\ pc = "idle" /\ b = Len(sent)

(* Nothing is returned: a call that queues a packet does not end.          *)
WholeInv ==
  Whole => /\ pc \in {"idle", "parse"} /\ datagrams = <<>> /\ returned = <<>>
           /\ pqueue # <<>> => pc = "parse" /\ Readable(buf)
           /\ pqueue \in Seq(ToSet(sent))
           /\ \E a, b, c \in 0 .. Len(sent) : Cut(a, b, c)

LEMMA WholeFacts ==
  ASSUME Common, Whole
  PROVE  /\ sent \in Seq(Packets) /\ Len(sent) \in Nat
         /\ RecvMax \in Nat \ {0} /\ Len(sent) * MaxPacketLength < RecvMax
         /\ setting.transport = "TCP" /\ setting.split = FALSE
<1>1. /\ Sendable \subseteq Packets /\ setting.maxSent \in Nat /\ RecvMax \in Nat \ {0}
      /\ setting.split \in BOOLEAN
  BY SocketAssumption DEF Common, Sendable, RecvMax
<1>2. sent \in Seq(Packets) /\ Len(sent) \in Nat
  BY <1>1 DEF Common
<1>3. Len(sent) * MaxPacketLength < RecvMax
  <2>1. RecvMax > setting.maxSent * 10 /\ Len(sent) <= setting.maxSent
    BY Layout DEF Whole, Common
  <2> QED  BY <1>1, <1>2, <2>1, Layout
<1> QED  BY <1>1, <1>2, <1>3 DEF Whole

LEMMA WholeInit == Init => WholeInv
<1> SUFFICES ASSUME Init, Whole
             PROVE  /\ pc \in {"idle", "parse"} /\ datagrams = <<>> /\ returned = <<>>
                    /\ pqueue # <<>> => pc = "parse" /\ Readable(buf)
                    /\ pqueue \in Seq(ToSet(sent))
                    /\ \E a, b, c \in 0 .. Len(sent) : Cut(a, b, c)
  BY DEF WholeInv
<1>1. Wire(sent, 0, 0) = <<>> /\ Bytes(sent, 0, 0) = <<>> /\ Len(sent) = 0 /\ 0 \in 0 .. Len(sent)
  BY WireNone DEF Init
<1>2. Cut(0, 0, 0)
  BY <1>1 DEF Init, Cut
<1>3. pqueue \in Seq(ToSet(sent))
  BY DEF Init
<1> QED  BY <1>1, <1>2, <1>3 DEF Init

LEMMA WholeNext ==
  ASSUME Common, BytesTyped, WholeInv, [Next]_vars
  PROVE  WholeInv'
<1> DEFINE Inside == /\ pc \in {"idle", "parse"} /\ datagrams = <<>> /\ returned = <<>>
                     /\ pqueue # <<>> => pc = "parse" /\ Readable(buf)
                     /\ pqueue \in Seq(ToSet(sent))
                     /\ \E a, b, c \in 0 .. Len(sent) : Cut(a, b, c)
<1> SUFFICES ASSUME Whole' PROVE Inside'
  BY DEF WholeInv
<1>1. Common' /\ setting' = setting
  BY CommonNext
<1>2. Whole
  BY <1>1 DEF Whole, Sendable, RecvMax
<1>3. /\ sent \in Seq(Packets) /\ Len(sent) \in Nat
      /\ RecvMax \in Nat \ {0} /\ Len(sent) * MaxPacketLength < RecvMax
      /\ setting.transport = "TCP" /\ setting.split = FALSE
  BY <1>2, WholeFacts
<1>4. PICK a \in 0 .. Len(sent), b \in 0 .. Len(sent), c \in 0 .. Len(sent) : Cut(a, b, c)
  BY <1>2 DEF WholeInv
<1>5. /\ pc \in {"idle", "parse"} /\ datagrams = <<>> /\ returned = <<>>
      /\ pqueue # <<>> => pc = "parse" /\ Readable(buf)
      /\ pqueue \in Seq(ToSet(sent))
  BY <1>2 DEF WholeInv
<1>6. /\ a \in Nat /\ b \in a .. Len(sent) /\ c \in b .. Len(sent)
      /\ Len(sent) \in c .. Len(sent) /\ b \in Nat /\ c \in Nat
  BY <1>3, <1>4 DEF Cut
<1>7. /\ stream \in Seq(Byte) /\ Len(stream) \in Nat
      /\ c - b <= Len(stream) /\ Len(stream) < RecvMax
  <2>1. stream = Bytes(sent, b, c)
    BY <1>4 DEF Cut
  <2>2. /\ Len(stream) \in Nat /\ c - b <= Len(stream)
        /\ Len(stream) <= (c - b) * MaxPacketLength
    BY <1>3, <1>6, <2>1, BytesBound
  <2>3. (c - b) * MaxPacketLength <= Len(sent) * MaxPacketLength
    BY <1>3, <1>6, Layout
  <2>4. stream \in Seq(Byte)
    BY <1>3, <1>6, <2>1, WireType
  <2> QED  BY <1>3, <1>6, <2>2, <2>3, <2>4, Layout
(* What does not touch the queue or the buffer needs only its cut.         *)
<1>8. ASSUME UNCHANGED <<sent, datagrams, pc, buf, pqueue, returned>>,
             NEW i \in 0 .. Len(sent), NEW j \in 0 .. Len(sent), NEW k \in 0 .. Len(sent),
             Cut(i, j, k)'
      PROVE  Inside'
  BY <1>5, <1>8 DEF Readable
<1>9. ASSUME NEW p \in Sendable, Send(p)
      PROVE  Inside'
  <2>1. /\ remote = "open" /\ sent' = Append(sent, p) /\ flight' = Append(flight, Serialize(p))
        /\ UNCHANGED <<setting, remote, arrived, pc, parseVars, pqueue, tcpDisconnect, returned>>
    BY <1>9 DEF Send
  <2>2. p \in Packets
    BY SocketAssumption DEF Common, Sendable
  <2>3. Len(sent') = Len(sent) + 1
    BY <1>3, <2>1, <2>2, WireAppend
  <2>4. /\ Bytes(sent', a, b) = Bytes(sent, a, b) /\ Bytes(sent', b, c) = Bytes(sent, b, c)
        /\ Wire(sent', c, Len(sent')) = Append(Wire(sent, c, Len(sent)), Serialize(p))
    <3>1. /\ a \in 0 .. Len(sent) /\ b \in 0 .. Len(sent) /\ c \in 0 .. Len(sent)
          /\ b \in a .. Len(sent) /\ c \in b .. Len(sent)
      BY <1>6
    <3>2. Bytes(sent', a, b) = Bytes(sent, a, b)
      BY <1>3, <2>1, <2>2, <3>1, WireAppend
    <3>3. Bytes(sent', b, c) = Bytes(sent, b, c)
      BY <1>3, <2>1, <2>2, <3>1, WireAppend
    <3>4. Wire(sent', c, Len(sent) + 1) = Append(Wire(sent, c, Len(sent)), Serialize(p))
      BY <1>3, <2>1, <2>2, <3>1, WireAppend
    <3> QED  BY <2>3, <3>2, <3>3, <3>4
  <2>5. ToSet(sent) \subseteq ToSet(sent') /\ \A k \in 1 .. Len(sent) : sent'[k] = sent[k]
    BY <1>3, <2>1, <2>2, SentGrows
  <2>6. Cut(a, b, c)'
    <3>1. (pc = "idle" => b = 0 \/ \E k \in 1 .. b : sent[k].type \notin Registered)'
      <4>1. \A k \in 1 .. b : sent'[k] = sent[k]
        BY <1>6, <2>5
      <4> QED  BY <1>4, <2>1, <4>1 DEF Cut
    <3> QED  BY <1>4, <2>1, <2>4, <3>1 DEF Cut, arrived, parseVars
  <2>7. a \in 0 .. Len(sent') /\ b \in 0 .. Len(sent') /\ c \in 0 .. Len(sent')
    BY <1>3, <1>4, <2>3
  <2>8. pqueue' \in Seq(ToSet(sent'))
    BY <1>5, <2>1, <2>5, SeqMonotonic
  <2> QED  BY <1>5, <2>1, <2>6, <2>7, <2>8 DEF arrived, parseVars, Readable
<1>10. CASE Close
  <2>1. Cut(a, b, c)'
    BY <1>4, <1>10 DEF Close, Cut, arrived, parseVars
  <2> QED  BY <1>8, <1>10, <2>1 DEF Close, arrived, parseVars
<1>11. CASE Reset
  <2>1. Cut(a, b, c)'
    BY <1>4, <1>11 DEF Reset, Cut, arrived, parseVars
  <2> QED  BY <1>8, <1>11, <2>1 DEF Reset, arrived, parseVars
<1>12. CASE UNCHANGED vars
  <2>1. Cut(a, b, c)'
    BY <1>4, <1>12 DEF vars, Cut, remoteVars, arrived, parseVars
  <2> QED  BY <1>8, <1>12, <2>1 DEF vars, remoteVars, arrived, parseVars
<1>13. ASSUME NEW k \in DOMAIN flight, Arrive(k) \/ Lose(k) PROVE FALSE
  BY <1>3, <1>13 DEF Arrive, Lose
<1>14. CASE GetDatagram \/ GetMoreData
  BY <1>3, <1>5, <1>14 DEF GetDatagram, GetMoreData
<1>15. ASSUME NEW n, Deliver(n)
       PROVE  Inside'
  <2>1. /\ flight # <<>> /\ n = Len(Head(flight))
        /\ stream' = stream \o SubSeq(Head(flight), 1, n)
        /\ flight' = Tail(flight)
        /\ UNCHANGED <<setting, remote, sent, datagrams, pc, parseVars, pqueue, tcpDisconnect,
                        returned>>
    BY <1>3, <1>15 DEF Deliver
  <2>2. remote # "reset" /\ flight = Wire(sent, c, Len(sent))
    BY <1>4, <2>1 DEF Cut
  <2>3. c \in 0 .. Len(sent) - 1
    <3>1. c # Len(sent)
      BY <1>6, <2>1, <2>2, WireNone
    <3> QED  BY <1>3, <1>6, <3>1
  <2>4. Head(flight) = Serialize(sent[c + 1]) /\ Tail(flight) = Wire(sent, c + 1, Len(sent))
    BY <1>3, <2>2, <2>3, WireTail
  <2>5. Bytes(sent, c, c + 1) = Serialize(sent[c + 1]) /\ Serialize(sent[c + 1]) \in Seq(Byte)
    BY <1>3, <2>3, WireOne, BytesType
  <2>6. SubSeq(Head(flight), 1, n) = Bytes(sent, c, c + 1)
    BY <2>1, <2>4, <2>5, SubSeqFull
  <2>7. stream' = Bytes(sent, b, c + 1)
    <3>1. b \in 0 .. Len(sent) /\ c \in b .. Len(sent) /\ c + 1 \in c .. Len(sent)
      BY <1>3, <1>6, <2>3
    <3>2. stream = Bytes(sent, b, c)
      BY <1>4 DEF Cut
    <3>3. Bytes(sent, b, c + 1) = Bytes(sent, b, c) \o Bytes(sent, c, c + 1)
      BY <1>3, <3>1, WireConcat
    <3> QED  BY <2>1, <2>6, <3>2, <3>3, Zenon
  <2>8. tcpDisconnect = TRUE => FALSE
    BY <1>3, <1>4, <1>6, <2>3 DEF Cut
  <2>9. b <= c + 1 /\ c + 1 \in 0 .. Len(sent)
    BY <1>3, <1>6, <2>3
  <2>10. Cut(a, b, c + 1)'
    BY <1>4, <2>1, <2>2, <2>4, <2>7, <2>8, <2>9 DEF Cut, parseVars
  <2> QED  BY <1>8, <2>1, <2>9, <2>10 DEF parseVars
<1>16. ASSUME GetData, pc = "idle", pqueue = <<>>, UNCHANGED remoteVars
       PROVE  Inside'
  <2>1. UNCHANGED <<sent, remote, flight, datagrams, pqueue, returned>>
    BY <1>16 DEF GetData, remoteVars
  <2>2. PICK num \in -1 .. RecvMax :
          /\ Recv(RecvMax, num) /\ buf' = Received(RecvMax) /\ len' = num
          /\ tcpDisconnect' = DisconnectAfter(num)
          /\ pc' = CASE num = RecvMax -> "more" [] num < 1 -> "idle" [] OTHER -> "parse"
    BY <1>16 DEF GetData
  <2>3. Received(RecvMax) = stream
    <3>1. SubSeq(stream, 1, Len(stream)) = stream
      BY <1>7, SubSeqFull
    <3> QED  BY <1>7, <3>1 DEF Received
  <2>4. stream = Bytes(sent, b, c)
    BY <1>4 DEF Cut
  <2>5. CASE stream # <<>>
    <3>1. num = Len(stream) /\ stream' = SubSeq(stream, num + 1, Len(stream))
      BY <2>2, <2>3, <2>5 DEF Recv, AtEnd, AtError
    <3>2. num \in 1 .. RecvMax - 1
      <4>1. Len(stream) # 0
        BY <1>7, <2>5, EmptySeq
      <4> QED  BY <1>3, <1>7, <3>1, <4>1
    <3>3. stream' = <<>>
      BY <1>7, <3>1, <3>2, SubSeqEmpty
    <3>4. pc' = "parse" /\ IsEnd(num) = FALSE
      BY <1>3, <2>2, <3>2 DEF IsEnd
    <3>5. b < c
      <4>1. b # c
        BY <1>6, <2>4, <2>5, WireNone
      <4> QED  BY <1>6, <4>1
    <3>6. tcpDisconnect = TRUE => FALSE
      BY <1>4, <1>6, <3>5 DEF Cut
    <3>7. tcpDisconnect' = TRUE => FALSE
      BY <2>2, <3>4, <3>6 DEF DisconnectAfter
    <3>8. Bytes(sent, c, c) = <<>>
      BY <1>6, WireNone
    <3>9. buf' = Bytes(sent, b, c) /\ len' = Len(buf')
      BY <2>2, <2>3, <2>4, <3>1
    <3>10. Cut(b, c, c)'
      BY <1>4, <1>6, <2>1, <3>3, <3>4, <3>5, <3>7, <3>8, <3>9 DEF Cut
    <3> QED  BY <1>5, <1>16, <2>1, <3>4, <3>10
  <2>6. CASE stream = <<>>
    <3>1. /\ num < 1 /\ num # RecvMax /\ stream' = <<>>
          /\ IsEnd(num) => remote = "closed" /\ flight = <<>>
      BY <1>3, <2>2, <2>6 DEF Recv, AtEnd, AtError, IsEnd
    <3>2. pc' = "idle"
      BY <2>2, <3>1
    <3>3. b = c
      BY <1>3, <1>6, <1>7, <2>6
    <3>4. tcpDisconnect' = TRUE => remote # "open" /\ b = Len(sent)
      <4>1. CASE ~ IsEnd(num)
        BY <1>4, <2>2, <4>1 DEF Cut, DisconnectAfter
      <4>2. CASE IsEnd(num)
        <5>1. Wire(sent, c, Len(sent)) = <<>>
          BY <1>4, <3>1, <4>2 DEF Cut
        <5>2. Len(Wire(sent, c, Len(sent))) = Len(sent) - c
          BY <1>3, <1>6, WireType
        <5>3. c = Len(sent)
          BY <1>3, <1>6, <5>1, <5>2
        <5> QED  BY <3>1, <3>3, <4>2, <5>3
      <4> QED  BY <4>1, <4>2
    <3>5. Cut(a, b, c)'
      BY <1>4, <1>16, <2>1, <2>6, <3>1, <3>2, <3>4 DEF Cut
    <3> QED  BY <1>5, <1>16, <2>1, <3>2, <3>5
  <2> QED  BY <2>5, <2>6
<1>17. CASE Call
  <2>1. /\ pc = "idle" /\ pqueue = <<>> /\ UNCHANGED remoteVars
        /\ GetData \/ GetDatagram \/ UNCHANGED <<arrived, pc, parseVars, tcpDisconnect>>
    BY <1>5, <1>17, Calls
  <2>2. CASE GetData \/ GetDatagram
    BY <1>14, <1>16, <2>1, <2>2
  <2>3. CASE ReturnFirst /\ UNCHANGED <<arrived, pc, parseVars, tcpDisconnect>>
    <3>1. UNCHANGED <<pqueue, returned>>
      BY <2>1, <2>3 DEF ReturnFirst
    <3> QED  BY <1>12, <2>1, <2>3, <3>1 DEF vars
  <2> QED  BY <1>17, <2>2, <2>3, Calls
<1>18. CASE ParsePacket
  <2>1. /\ pc = "parse" /\ Readable(buf)
        /\ UNCHANGED <<remoteVars, arrived, pc, tcpDisconnect, returned>>
    BY <1>18 DEF ParsePacket
  <2>2. UNCHANGED <<buf, len>>
    BY <1>18, Unmoved
  <2>3. PICK g \in Garbage : pqueue' = Append(pqueue, ReadPacket(buf, 0, g).packet)
    BY <1>18, Unmoved
  <2>4. a # b /\ buf = Bytes(sent, a, b)
    BY <1>4, <1>6, <2>1 DEF Cut
  <2>5. sent[a + 1] \in ToSet(sent) /\ ReadPacket(buf, 0, g).packet = sent[a + 1]
    <3>1. a \in 0 .. Len(sent) /\ b \in a .. Len(sent)
      BY <1>6
    <3> QED  BY <1>3, <2>1, <2>4, <3>1, ParseHead
  <2>6. pqueue' \in Seq(ToSet(sent))
    BY <1>5, <2>3, <2>5, AppendProperties
  <2>7. Cut(a, b, c)'
    BY <1>4, <2>1, <2>2 DEF Cut, remoteVars, arrived
  <2> QED  BY <1>5, <2>1, <2>2, <2>6, <2>7 DEF remoteVars, arrived, Readable
<1>19. CASE LeaveLoop
  <2>1. /\ pc = "parse" /\ pc' = "idle"
        /\ len > 0 => ~ Readable(buf)
        /\ ReturnFirst
        /\ UNCHANGED <<remoteVars, arrived, tcpDisconnect>>
    BY <1>19 DEF LeaveLoop
  <2>2. a < b /\ buf = Bytes(sent, a, b) /\ len = Len(buf)
    BY <1>4, <2>1 DEF Cut
  <2>3. a \in 0 .. Len(sent) /\ b \in a .. Len(sent)
    BY <1>6
  <2>4. ~ Readable(buf)
    <3>1. Len(buf) \in Nat /\ b - a <= Len(buf)
      BY <1>3, <2>2, <2>3, BytesBound
    <3> QED  BY <1>6, <2>1, <2>2, <3>1
  <2>5. UNCHANGED <<pqueue, returned>> /\ pqueue = <<>>
    BY <1>5, <2>1, <2>4 DEF ReturnFirst
  <2>6. a + 1 \in 1 .. b /\ sent[a + 1].type \notin Registered
    BY <1>3, <1>6, <2>2, <2>3, <2>4, ParseHead
  <2>7. tcpDisconnect = TRUE => FALSE
    BY <1>4, <2>1 DEF Cut
  <2>8. Cut(a, b, c)'
    BY <1>4, <2>1, <2>6, <2>7 DEF Cut, remoteVars, arrived
  <2> QED  BY <1>5, <2>1, <2>5, <2>8 DEF remoteVars, arrived
<1> QED
  BY <1>9, <1>10, <1>11, <1>12, <1>13, <1>14, <1>15, <1>17, <1>18, <1>19
  DEF Next, Delivery, GetPacket

SocketInv == Common /\ BytesTyped /\ EndInv /\ WholeInv

LEMMA SocketInductive == Spec => []SocketInv
<1>1. Init => SocketInv
  BY CommonInit, TypedInit, EndInit, WholeInit DEF SocketInv
<1>2. SocketInv /\ [Next]_vars => SocketInv'
  BY CommonNext, TypedNext, EndNext, WholeNext DEF SocketInv
<1> QED  BY <1>1, <1>2, PTL DEF Spec

(* A call that has come to its end has met a packet it could not read.     *)
LEMMA ReadNothing ==
  ASSUME NEW b \in 0 .. Len(sent), sent \in Seq(Packets),
         b = 0 \/ \E k \in 1 .. b : sent[k].type \notin Registered,
         AllReadable(SubSeq(sent, 1, b))
  PROVE  SubSeq(sent, 1, b) = <<>>
<1>1. CASE b = 0
  BY <1>1, SubSeqEmpty
<1>2. ASSUME NEW k \in 1 .. b, sent[k].type \notin Registered
      PROVE  FALSE
  <2>1. k \in DOMAIN SubSeq(sent, 1, b) /\ SubSeq(sent, 1, b)[k] = sent[k]
    OBVIOUS
  <2>2. sent[k] \in ToSet(SubSeq(sent, 1, b))
    BY <2>1 DEF ToSet
  <2> QED  BY <1>2, <2>2 DEF AllReadable
<1> QED  BY <1>1, <1>2

(* NoByteLost: what is in the kernel and in flight between two calls is    *)
(* byte for byte what was sent behind some packet.                         *)
THEOREM BytesAreKept == Spec => []NoByteLost
<1>1. SocketInv => NoByteLost
  <2> SUFFICES ASSUME SocketInv, Whole, pc = "idle", remote # "reset"
               PROVE  \E n \in 0 .. Len(sent) :
                        /\ stream \o FlattenSeq(flight)
                             = BytesOf(SubSeq(sent, n + 1, Len(sent)))
                        /\ AllReadable(SubSeq(sent, 1, n)) =>
                             returned \o pqueue = SubSeq(sent, 1, n)
    BY DEF NoByteLost
  <2>1. sent \in Seq(Packets) /\ Len(sent) \in Nat
    BY WholeFacts DEF SocketInv
  <2>2. PICK a \in 0 .. Len(sent), b \in 0 .. Len(sent), c \in 0 .. Len(sent) : Cut(a, b, c)
    BY DEF SocketInv, WholeInv
  <2>3. returned = <<>> /\ pqueue = <<>>
    BY DEF SocketInv, WholeInv
  <2>4. /\ b <= c /\ stream = Bytes(sent, b, c) /\ flight = Wire(sent, c, Len(sent))
        /\ b = 0 \/ \E k \in 1 .. b : sent[k].type \notin Registered
    BY <2>2 DEF Cut
  <2>5. stream \o FlattenSeq(flight) = Bytes(sent, b, Len(sent))
    <3>1. c \in b .. Len(sent) /\ Len(sent) \in c .. Len(sent)
      BY <2>1, <2>4
    <3>2. Bytes(sent, b, Len(sent)) = Bytes(sent, b, c) \o Bytes(sent, c, Len(sent))
      BY <2>1, <3>1, WireConcat
    <3>3. FlattenSeq(flight) = Bytes(sent, c, Len(sent))
      BY <2>4 DEF Bytes
    <3> QED  BY <2>4, <3>2, <3>3, Zenon
  <2>6. BytesOf(SubSeq(sent, b + 1, Len(sent))) = Bytes(sent, b, Len(sent))
    <3> DEFINE last == SubSeq(sent, b + 1, Len(sent))
    <3>1. /\ DOMAIN last = 1 .. Len(sent) - b
          /\ \A n \in 1 .. Len(sent) - b : last[n] = sent[b + n]
      BY <2>1
    <3> HIDE DEF last
    <3>2. [n \in DOMAIN last |-> Serialize(last[n])] = Wire(sent, b, Len(sent))
      BY <3>1 DEF Wire
    <3>3. BytesOf(last) = Bytes(sent, b, Len(sent))
      BY <3>2 DEF BytesOf, Bytes
    <3> QED  BY <3>3 DEF last
  <2>7. AllReadable(SubSeq(sent, 1, b)) => returned \o pqueue = SubSeq(sent, 1, b)
    <3>1. AllReadable(SubSeq(sent, 1, b)) => SubSeq(sent, 1, b) = <<>>
      BY <2>1, <2>4, ReadNothing
    <3>2. returned \o pqueue = <<>>
      BY <2>3
    <3> QED  BY <3>1, <3>2
  <2> QED  BY <2>5, <2>6, <2>7
<1> QED  BY <1>1, SocketInductive, PTL

(* QueuedWasSent: however many packets arrive at once, and whatever cannot *)
(* be read among them, what is queued or returned has been sent as it is.  *)
THEOREM QueueHoldsSent == Spec => []QueuedWasSent
<1>1. SocketInv => QueuedWasSent
  <2> SUFFICES ASSUME SocketInv, Whole
               PROVE  ToSet(returned \o pqueue) \subseteq ToSet(sent)
    BY DEF QueuedWasSent
  <2>1. returned = <<>> /\ pqueue \in Seq(ToSet(sent))
    BY DEF SocketInv, WholeInv
  <2>2. <<>> \o pqueue = pqueue
    BY <2>1, ConcatEmptySeq
  <2>3. ToSet(pqueue) \subseteq ToSet(sent)
    BY <2>1, ElementsOf
  <2> QED  BY <2>1, <2>2, <2>3
<1> QED  BY <1>1, SocketInductive, PTL

(* DisconnectAfterAll: the connection counts as ended only once the other  *)
(* end is gone and nothing that was sent is left to receive or to return.  *)
THEOREM EndAfterAll == Spec => []DisconnectAfterAll
<1>1. SocketInv => DisconnectAfterAll
  <2> SUFFICES ASSUME SocketInv, tcpDisconnect
               PROVE  /\ setting.transport = "TCP" /\ remote # "open"
                      /\ stream = <<>> /\ flight = <<>>
                      /\ Whole /\ AllReadable(sent) => returned = sent
    BY DEF DisconnectAfterAll
  <2>1. /\ setting.transport = "TCP" /\ remote # "open"
        /\ stream = <<>> /\ flight = <<>>
    BY DEF SocketInv, EndInv
  <2>2. ASSUME Whole, AllReadable(sent) PROVE returned = sent
    <3>1. sent \in Seq(Packets) /\ Len(sent) \in Nat
      BY <2>2, WholeFacts DEF SocketInv
    <3>2. /\ pc = "idle" => Len(sent) = 0 \/ \E k \in 1 .. Len(sent) : sent[k].type \notin Registered
          /\ pc = "idle"
      BY <2>2 DEF SocketInv, WholeInv, Cut
    <3>3. SubSeq(sent, 1, Len(sent)) = sent /\ Len(sent) \in 0 .. Len(sent)
      BY <3>1, SubSeqFull
    <3>4. sent = <<>>
      BY <2>2, <3>1, <3>2, <3>3, ReadNothing
    <3> QED  BY <2>2, <3>4 DEF SocketInv, WholeInv
  <2> QED  BY <2>1, <2>2
<1> QED  BY <1>1, SocketInductive, PTL

-----------------------------------------------------------------------------
(* A UDP socket: every datagram is a packet that was sent.                 *)

SentBytes == {Serialize(p) : p \in ToSet(sent)}

DatagramInv ==
  setting.transport = "UDP" =>
    /\ pc \in {"idle", "parse"}
    /\ flight \in Seq(SentBytes) /\ datagrams \in Seq(SentBytes)
    /\ pqueue \in Seq(ToSet(sent)) /\ returned \in Seq(ToSet(sent))
    /\ pc = "parse" => buf \in SentBytes

(* Of the bytes of a packet a turn of the loop makes that packet.          *)
LEMMA ParseDatagram ==
  ASSUME NEW p \in Packets, NEW buffer, buffer = Serialize(p), Readable(buffer), NEW garbage
  PROVE  ReadPacket(buffer, 0, garbage).packet = p
<1>1. p.type \in Registered
  BY OtherBytes, TypeRead
<1>2. PICK none \in Seq(Byte) : IsConcat(buffer, Serialize(p), none)
  BY BytesType, ConcatNothing
<1> QED  BY <1>1, <1>2, FrontRead DEF ReadPacket

LEMMA DatagramInit == Init => DatagramInv
BY DEF Init, DatagramInv

LEMMA Returned ==
  ASSUME ReturnFirst, NEW S, pqueue \in Seq(S), returned \in Seq(S)
  PROVE  pqueue' \in Seq(S) /\ returned' \in Seq(S)
<1>1. CASE pqueue = <<>>
  BY <1>1 DEF ReturnFirst
<1>2. CASE pqueue # <<>>
  <2>1. Head(pqueue) \in S /\ Tail(pqueue) \in Seq(S)
    BY <1>2, HeadTailProperties
  <2>2. returned' = Append(returned, Head(pqueue)) /\ pqueue' = Tail(pqueue)
    BY <1>2 DEF ReturnFirst
  <2>3. Append(returned, Head(pqueue)) \in Seq(S)
    BY <2>1, AppendProperties
  <2> QED  BY <2>1, <2>2, <2>3
<1> QED  BY <1>1, <1>2

LEMMA DatagramNext ==
  ASSUME Common, BytesTyped, DatagramInv, [Next]_vars
  PROVE  DatagramInv'
<1> SUFFICES ASSUME setting.transport = "UDP"
             PROVE  DatagramInv'
  <2>1. setting' = setting
    BY CommonNext
  <2> QED  BY <2>1 DEF DatagramInv
<1>1. /\ pc \in {"idle", "parse"}
      /\ flight \in Seq(SentBytes) /\ datagrams \in Seq(SentBytes)
      /\ pqueue \in Seq(ToSet(sent)) /\ returned \in Seq(ToSet(sent))
  BY DEF DatagramInv
<1>2. pc = "parse" => buf \in SentBytes
  BY DEF DatagramInv
<1>3. sent \in Seq(Packets) /\ ToSet(sent) \subseteq Packets
  <2>1. Sendable \subseteq Packets
    BY SocketAssumption DEF Common, Sendable
  <2>2. sent \in Seq(Packets)
    BY <2>1 DEF Common
  <2> QED  BY <2>2, ElementsOf
<1>4. ASSUME NEW p \in Sendable, Send(p)
      PROVE  DatagramInv'
  <2>1. /\ sent' = Append(sent, p) /\ flight' = Append(flight, Serialize(p))
        /\ UNCHANGED <<setting, arrived, pc, parseVars, pqueue, returned>>
    BY <1>4 DEF Send
  <2>2. p \in Packets
    BY SocketAssumption DEF Common, Sendable
  <2>3. ToSet(sent) \subseteq ToSet(sent') /\ p \in ToSet(sent')
    BY <1>3, <2>1, <2>2, SentGrows
  <2>4. SentBytes \subseteq SentBytes' /\ Serialize(p) \in SentBytes'
    BY <2>3 DEF SentBytes
  <2>5. flight \in Seq(SentBytes') /\ datagrams \in Seq(SentBytes')
    BY <1>1, <2>4, SeqMonotonic
  <2>6. pqueue \in Seq(ToSet(sent')) /\ returned \in Seq(ToSet(sent'))
    BY <1>1, <2>3, SeqMonotonic
  <2>7. flight' \in Seq(SentBytes')
    BY <2>1, <2>4, <2>5, AppendProperties
  <2> QED  BY <1>1, <1>2, <2>1, <2>4, <2>5, <2>6, <2>7 DEF DatagramInv, arrived, parseVars
<1>5. ASSUME UNCHANGED sent
      PROVE  SentBytes' = SentBytes
  BY <1>5 DEF SentBytes
<1>6. CASE Close \/ Reset \/ Delivery
  BY <1>6 DEF Close, Reset, Delivery, Deliver
<1>7. ASSUME NEW k \in DOMAIN flight, Arrive(k)
      PROVE  DatagramInv'
  <2>1. /\ datagrams' = Append(datagrams, flight[k])
        /\ flight' \in {flight, RemoveAt(flight, k)}
        /\ UNCHANGED <<setting, sent, pc, parseVars, pqueue, returned>>
    BY <1>7 DEF Arrive
  <2>2. flight[k] \in SentBytes /\ flight' \in Seq(SentBytes)
    BY <1>1, <1>7, <2>1, Removed
  <2>3. datagrams' \in Seq(SentBytes)
    BY <1>1, <2>1, <2>2, AppendProperties
  <2> QED  BY <1>1, <1>2, <1>5, <2>1, <2>2, <2>3 DEF DatagramInv, parseVars
<1>8. ASSUME NEW k \in DOMAIN flight, Lose(k)
      PROVE  DatagramInv'
  <2>1. /\ flight' = RemoveAt(flight, k)
        /\ UNCHANGED <<setting, sent, arrived, pc, parseVars, pqueue, returned>>
    BY <1>8 DEF Lose
  <2>2. flight' \in Seq(SentBytes)
    BY <1>1, <1>8, <2>1, Removed
  <2> QED  BY <1>1, <1>2, <1>5, <2>1, <2>2 DEF DatagramInv, arrived, parseVars
<1>9. CASE GetData \/ GetMoreData
  BY <1>1, <1>9 DEF GetData, GetMoreData
<1>10. ASSUME GetDatagram, UNCHANGED remoteVars
       PROVE  DatagramInv'
  <2>1. PICK data \in ToSet(datagrams) \cup {<<>>} :
          /\ RecvFrom(data) /\ buf' = data
          /\ pc' = IF IsEnd(Len(data)) THEN "idle" ELSE "parse"
    BY <1>10 DEF GetDatagram
  <2>2. UNCHANGED <<remoteVars, stream, pqueue, returned>>
    BY <1>10 DEF GetDatagram
  <2>3. CASE datagrams # <<>> /\ data = Head(datagrams) /\ datagrams' = Tail(datagrams)
    <3>1. data \in SentBytes /\ datagrams' \in Seq(SentBytes)
      BY <1>1, <2>3, HeadTailProperties
    <3> QED  BY <1>1, <1>5, <2>1, <2>2, <3>1 DEF DatagramInv, remoteVars
  <2>4. CASE data = <<>> /\ UNCHANGED datagrams
    <3>1. pc' = "idle"
      BY <2>1, <2>4 DEF IsEnd
    <3> QED  BY <1>1, <1>5, <2>2, <2>4, <3>1 DEF DatagramInv, remoteVars
  <2> QED  BY <2>1, <2>3, <2>4 DEF RecvFrom
<1>11. CASE Call
  <2>1. CASE ReturnFirst /\ UNCHANGED <<arrived, pc, parseVars, tcpDisconnect>>
    <3>1. UNCHANGED remoteVars
      BY <1>11, Calls
    <3>2. returned' \in Seq(ToSet(sent)) /\ pqueue' \in Seq(ToSet(sent))
      BY <1>1, <2>1, Returned
    <3> QED  BY <1>1, <1>2, <1>5, <2>1, <3>1, <3>2 DEF DatagramInv, remoteVars, arrived, parseVars
  <2> QED  BY <1>9, <1>10, <1>11, <2>1, Calls
<1>12. CASE ParsePacket
  <2>1. /\ pc = "parse" /\ Readable(buf)
        /\ UNCHANGED <<remoteVars, arrived, pc, returned>>
    BY <1>12 DEF ParsePacket
  <2>2. buf' = buf
    BY <1>12, Unmoved
  <2>3. PICK g \in Garbage : pqueue' = Append(pqueue, ReadPacket(buf, 0, g).packet)
    BY <1>12, Unmoved
  <2>4. PICK p \in ToSet(sent) : buf = Serialize(p)
    BY <1>2, <2>1 DEF SentBytes
  <2>5. ReadPacket(buf, 0, g).packet = p
    BY <1>3, <2>1, <2>4, ParseDatagram
  <2>6. pqueue' \in Seq(ToSet(sent))
    BY <1>1, <2>3, <2>5, AppendProperties
  <2> QED  BY <1>1, <1>2, <1>5, <2>1, <2>2, <2>6 DEF DatagramInv, remoteVars, arrived
<1>13. CASE LeaveLoop
  <2>1. pc' = "idle" /\ ReturnFirst /\ UNCHANGED <<remoteVars, arrived>>
    BY <1>13 DEF LeaveLoop
  <2>2. returned' \in Seq(ToSet(sent)) /\ pqueue' \in Seq(ToSet(sent))
    BY <1>1, <2>1, Returned
  <2> QED  BY <1>1, <1>5, <2>1, <2>2 DEF DatagramInv, remoteVars, arrived
<1>14. CASE UNCHANGED vars
  BY <1>1, <1>2, <1>5, <1>14 DEF DatagramInv, vars, remoteVars, arrived, parseVars
<1> QED
  BY <1>4, <1>6, <1>7, <1>8, <1>9, <1>11, <1>12, <1>13, <1>14
  DEF Next, GetPacket

(* DatagramsIntact: lost, repeated and reordered datagrams yield only      *)
(* packets that were sent, and neither they nor a receive that fails the   *)
(* end of a connection there is none of.                                   *)
THEOREM OnlyWhatWasSent == Spec => []DatagramsIntact
<1>1. Init => DatagramInv
  BY DatagramInit
<1>2. SocketInv /\ DatagramInv /\ [Next]_vars => DatagramInv'
  BY DatagramNext DEF SocketInv
<1>3. SocketInv /\ DatagramInv => DatagramsIntact
  <2> SUFFICES ASSUME SocketInv, DatagramInv, setting.transport = "UDP"
               PROVE  ToSet(returned \o pqueue) \subseteq ToSet(sent) /\ ~ tcpDisconnect
    BY DEF DatagramsIntact
  <2>1. returned \in Seq(ToSet(sent)) /\ pqueue \in Seq(ToSet(sent))
    BY DEF DatagramInv
  <2>2. ~ tcpDisconnect
    BY DEF SocketInv, EndInv
  <2>3. returned \o pqueue \in Seq(ToSet(sent))
    BY <2>1, ConcatProperties
  <2> QED  BY <2>2, <2>3, ElementsOf
<1> QED  BY <1>1, <1>2, <1>3, SocketInductive, PTL DEF Spec

-----------------------------------------------------------------------------
(* ReadPacket does not store the length, so the parsing loop, once it has  *)
(* a packet to read, reads it again and again: whatever arrives, GetPacket *)
(* does not return.                                                        *)
THEOREM ReadingNeverEnds == Spec => [](Reading => []Reading)
<1>1. Reading /\ SocketInv /\ [Next]_vars => Reading'
  <2> SUFFICES ASSUME Reading, BytesTyped, [Next]_vars
               PROVE  Reading'
    BY DEF SocketInv
  <2>1. ASSUME UNCHANGED <<pc, len, buf>> PROVE Reading'
    BY <2>1 DEF Reading, Readable
  <2>2. CASE ParsePacket
    BY <2>1, <2>2, Unmoved DEF ParsePacket
  <2>3. CASE \/ Close \/ Reset \/ Delivery \/ UNCHANGED vars
             \/ \E p \in Sendable : Send(p)
             \/ \E k \in DOMAIN flight : Arrive(k) \/ Lose(k)
    BY <2>1, <2>3 DEF Close, Reset, Delivery, Deliver, Send, Arrive, Lose, vars, parseVars
  <2>4. CASE Call \/ GetMoreData \/ LeaveLoop
    BY <2>4, Calls DEF Reading, GetMoreData, LeaveLoop
  <2> QED  BY <2>2, <2>3, <2>4 DEF Next, GetPacket
<1> QED  BY <1>1, SocketInductive, PTL DEF Spec
=============================================================================
