-------------------------- MODULE CfgParser_proofs --------------------------
(***************************************************************************)
(* Theorems about CfgParser, for files of any length, any attributes and   *)
(* any values: what the parser makes of a file is what ConfigFile says.    *)
(***************************************************************************)
EXTENDS CfgParser, FiniteSetTheorems, SequenceTheorems, TLAPS

-----------------------------------------------------------------------------
\* Induction, as a fact about sets of numbers.  It rests on finite sets being
\* well-founded: the initial segments of the numbers are among them.

LEMMA LeastNat ==
  ASSUME NEW T \in SUBSET Nat, T # {}
  PROVE  \E m \in T : \A n \in T : m <= n
<1> DEFINE U == {1..n : n \in T}
<1>1. IsWellFoundedOn(StrictSubsetOrdering(Nat), FiniteSubsetsOf(Nat))
    BY FS_StrictSubsetOrderingWellFounded
<1>2. U \subseteq FiniteSubsetsOf(Nat)
  <2>1. ASSUME NEW n \in T PROVE IsFiniteSet(1..n) /\ 1..n \subseteq Nat
      BY FS_Interval
  <2> QED BY <2>1 DEF FiniteSubsetsOf
<1>3. U # {}
    OBVIOUS
<1> HIDE DEF U
<1>4. PICK S \in U : \A V \in U : ~(<< V, S >> \in StrictSubsetOrdering(Nat))
    BY <1>1, <1>2, <1>3, WFMin
<1>5. PICK m \in T : S = 1..m
    BY <1>4 DEF U
<1>6. ASSUME NEW n \in T, n < m PROVE FALSE
  <2>1. 1..n \in U
      BY DEF U
  <2>2. << 1..n, 1..m >> \in StrictSubsetOrdering(Nat)
      BY <1>6 DEF StrictSubsetOrdering
  <2> QED BY <2>1, <2>2, <1>4, <1>5
<1> QED BY <1>6

LEMMA NatSet ==
  ASSUME NEW S \in SUBSET Nat, 0 \in S, \A n \in S : n + 1 \in S
  PROVE  S = Nat
<1> SUFFICES ASSUME Nat \ S # {} PROVE FALSE
    OBVIOUS
<1>1. PICK m \in Nat \ S : \A n \in Nat \ S : m <= n
    BY LeastNat
<1> QED BY <1>1, m - 1 \in Nat

-----------------------------------------------------------------------------
\* Places in a sequence.

\* The first place from i on that holds one of the symbols, or the end.
Place(f, i, symbols) ==
  Min({j \in i..Len(f) + 1 : j = Len(f) + 1 \/ f[j] \in symbols})

IsPlace(f, i, symbols, p) ==
  /\ p \in i..Len(f) + 1
  /\ p = Len(f) + 1 \/ f[p] \in symbols
  /\ \A j \in i..p - 1 : f[j] \notin symbols

LEMMA MinIs ==
  ASSUME NEW S \in SUBSET Int, NEW m \in S, \A n \in S : m <= n
  PROVE  Min(S) = m
<1>1. \A x \in S : (\A y \in S : x <= y) => x = m
    OBVIOUS
<1> QED BY <1>1 DEF Min

LEMMA PlaceIs ==
  ASSUME NEW f, Len(f) \in Nat, NEW i \in 1..Len(f) + 1, NEW symbols
  PROVE  IsPlace(f, i, symbols, Place(f, i, symbols))
<1> DEFINE T == {j \in i..Len(f) + 1 : j = Len(f) + 1 \/ f[j] \in symbols}
<1>1. T \in SUBSET Nat /\ Len(f) + 1 \in T
    OBVIOUS
<1>2. PICK m \in T : \A n \in T : m <= n
    BY <1>1, LeastNat
<1>3. Place(f, i, symbols) = m
  <2>1. Place(f, i, symbols) = Min(T)
      BY DEF Place
  <2> HIDE DEF T
  <2> QED BY <1>1, <1>2, <2>1, MinIs
<1> QED BY <1>2, <1>3 DEF IsPlace

LEMMA PlaceUnique ==
  ASSUME NEW f, Len(f) \in Nat, NEW i \in 1..Len(f) + 1, NEW symbols, NEW p,
         IsPlace(f, i, symbols, p)
  PROVE  Place(f, i, symbols) = p
<1>1. IsPlace(f, i, symbols, Place(f, i, symbols))
    BY PlaceIs
<1> DEFINE q == Place(f, i, symbols)
<1> HIDE DEF q
<1>2. IsPlace(f, i, symbols, q)
    BY <1>1 DEF q
<1>3. q = p
    BY <1>2 DEF IsPlace
<1> QED BY <1>3 DEF q

\* A sequence of symbols has a length; there is a symbol at each of its places.
LEMMA SeqPlaces ==
  ASSUME NEW f \in Seq(Symbols)
  PROVE  /\ Len(f) \in Nat /\ DOMAIN f = 1..Len(f)
         /\ \A i \in 1..Len(f) : f[i] \in Symbols
BY LenProperties, ElementOfSeq

\* A part of a file, place by place.
LEMMA PartIs ==
  ASSUME NEW f \in Seq(Symbols), NEW i \in 1..Len(f) + 1, NEW e \in i..Len(f) + 1
  PROVE  /\ SubSeq(f, i, e - 1) \in Seq(Symbols)
         /\ Len(SubSeq(f, i, e - 1)) = e - i
         /\ \A k \in 1..e - i : SubSeq(f, i, e - 1)[k] = f[i + k - 1]
<1>1. Len(f) \in Nat /\ i \in Int /\ e - 1 \in Int
    BY SeqPlaces
<1>2. \A j \in i..e - 1 : f[j] \in Symbols
    BY <1>1, SeqPlaces
<1>3. (e - 1) - i + 1 = e - i
    BY <1>1
<1>4. /\ SubSeq(f, i, e - 1) \in Seq(Symbols)
      /\ Len(SubSeq(f, i, e - 1)) = IF i <= e - 1 THEN (e - 1) - i + 1 ELSE 0
      /\ \A k \in 1..(e - 1) - i + 1 : SubSeq(f, i, e - 1)[k] = f[i + k - 1]
    BY <1>1, <1>2, SubSeqProperties
<1> QED BY <1>1, <1>3, <1>4

\* The end of a part is a part.
LEMMA EndOfPart ==
  ASSUME NEW f \in Seq(Symbols), NEW i \in 1..Len(f) + 1, NEW e \in i..Len(f) + 1,
         NEW p \in i..e
  PROVE  SubSeq(SubSeq(f, i, e - 1), p - i + 1, e - i) = SubSeq(f, p, e - 1)
<1> DEFINE s == SubSeq(f, i, e - 1)
           k == p - i + 1
<1>1. /\ Len(f) \in Nat /\ i \in Nat /\ e \in Nat /\ p \in Nat
      /\ 1 <= i /\ i <= p /\ p <= e /\ e <= Len(f) + 1
    BY SeqPlaces
<1>2. s \in Seq(Symbols) /\ Len(s) = e - i
    BY PartIs
<1>3. \A n \in 1..e - i : s[n] = f[i + n - 1]
    BY PartIs
<1> HIDE DEF s
<1>4. k \in 1..Len(s) + 1 /\ e - i + 1 \in k..Len(s) + 1 /\ (e - i + 1) - 1 = e - i
      /\ (e - i + 1) - k = e - p
    BY <1>1, <1>2
<1>5. /\ SubSeq(s, k, e - i) \in Seq(Symbols)
      /\ Len(SubSeq(s, k, e - i)) = e - p
  <2> DEFINE d == e - i + 1
  <2>1. d \in k..Len(s) + 1 /\ d - 1 = e - i /\ d - k = e - p
      BY <1>4
  <2> HIDE DEF d
  <2> QED BY <1>2, <1>4, <2>1, PartIs
<1>6. \A n \in 1..e - p : SubSeq(s, k, e - i)[n] = s[k + n - 1]
  <2> DEFINE d == e - i + 1
  <2>1. d \in k..Len(s) + 1 /\ d - 1 = e - i /\ d - k = e - p
      BY <1>4
  <2> HIDE DEF d
  <2> QED BY <1>2, <1>4, <2>1, PartIs
<1>7. /\ SubSeq(f, p, e - 1) \in Seq(Symbols)
      /\ Len(SubSeq(f, p, e - 1)) = e - p
    BY <1>1, PartIs
<1>8. \A n \in 1..e - p : SubSeq(f, p, e - 1)[n] = f[p + n - 1]
    BY <1>1, PartIs
<1>9. \A n \in 1..e - p : SubSeq(s, k, e - i)[n] = SubSeq(f, p, e - 1)[n]
  <2> TAKE n \in 1..e - p
  <2>1. k + n - 1 \in 1..e - i /\ i + (k + n - 1) - 1 = p + n - 1
      BY <1>1
  <2> QED BY <1>3, <1>6, <1>8, <2>1
<1> QED BY <1>5, <1>7, <1>9, SeqEqual DEF s

-----------------------------------------------------------------------------
\* ConfigFile by places.

Dark == Symbols \ Space

LEMMA TrimIs ==
  ASSUME NEW f \in Seq(Symbols), NEW i \in 1..Len(f) + 1, NEW e \in i..Len(f) + 1,
         e = Len(f) + 1 \/ f[e] \in Dark
  PROVE  /\ Place(f, i, Dark) \in i..e
         /\ Text!Trim(SubSeq(f, i, e - 1)) = SubSeq(f, Place(f, i, Dark), e - 1)
<1> DEFINE p == Place(f, i, Dark)
           s == SubSeq(f, i, e - 1)
           dark == {k \in DOMAIN s : s[k] \notin {" ", "\t"}}
<1>1. IsPlace(f, i, Dark, p)
    BY PlaceIs, SeqPlaces
<1>2. /\ Len(f) \in Nat /\ i \in Nat /\ e \in Nat
      /\ 1 <= i /\ i <= e /\ e <= Len(f) + 1
    BY SeqPlaces
<1>3. \A j \in 1..Len(f) : f[j] \in Symbols
    BY SeqPlaces
<1>4. s \in Seq(Symbols) /\ Len(s) = e - i /\ \A k \in 1..e - i : s[k] = f[i + k - 1]
    BY PartIs
<1>5. DOMAIN s = 1..e - i
    BY <1>4, LenProperties
<1>6. Text!Trim(s) = IF dark = {} THEN << >> ELSE SubSeq(s, Text!Min(dark), Len(s))
    BY DEF Text!Trim
<1>7. dark = {k \in 1..e - i : f[i + k - 1] \notin {" ", "\t"}}
    BY <1>4, <1>5
<1> HIDE DEF p, s, dark
<1>8. dark \subseteq Int
  <2>1. dark \subseteq 1..e - i
      BY <1>7
  <2> QED BY <1>2, <2>1
<1>9. p \in i..e
  <2>1. p \in i..Len(f) + 1 /\ \A j \in i..p - 1 : f[j] \notin Dark
      BY <1>1 DEF IsPlace
  <2> QED BY <1>2, <2>1
<1>10. \A j \in i..p - 1 : f[j] \in {" ", "\t"}
  <2>1. \A j \in i..p - 1 : f[j] \notin Dark /\ j \in 1..Len(f)
      BY <1>1, <1>2, <1>9 DEF IsPlace
  <2> QED BY <1>3, <2>1 DEF Dark, Space
<1>11. CASE p = e
  <2>1. dark = {}
    <3>1. ASSUME NEW k \in dark PROVE FALSE
      <4>1. k \in 1..e - i
          BY <1>7
      <4>2. i + k - 1 \in i..p - 1
          BY <1>2, <1>11, <4>1
      <4> QED BY <1>7, <1>10, <4>2
    <3> QED BY <3>1
  <2>2. SubSeq(f, e, e - 1) = << >>
      BY <1>2, SubSeqEmpty
  <2> QED BY <1>6, <1>9, <1>11, <2>1, <2>2 DEF p, s
<1>12. CASE p # e
  <2>1. p \in i..e - 1
      BY <1>2, <1>9, <1>12
  <2>2. f[p] \notin {" ", "\t"}
    <3>1. f[p] \in Dark
        BY <1>1, <1>2, <2>1 DEF IsPlace
    <3> QED BY <3>1 DEF Dark, Space
  <2> DEFINE k == p - i + 1
  <2>3. k \in dark
    <3>1. k \in 1..e - i /\ i + k - 1 = p
        BY <1>2, <2>1
    <3> QED BY <1>7, <2>2, <3>1
  <2>4. k \in Int /\ k = p - i + 1
      BY <1>2, <2>1
  <2> HIDE DEF k
  <2>5. \A n \in dark : k <= n
    <3>1. ASSUME NEW n \in dark, n < k PROVE FALSE
      <4>1. n \in 1..e - i
          BY <1>7
      <4>2. i + n - 1 \in i..p - 1
          BY <1>2, <2>1, <2>4, <3>1, <4>1
      <4> QED BY <1>7, <1>10, <4>2
    <3> QED BY <1>8, <2>4, <3>1
  <2>6. Text!Min(dark) = k
    <3>1. \A x \in dark : (\A y \in dark : x <= y) => x = k
        BY <1>8, <2>3, <2>5
    <3> QED BY <2>3, <2>5, <3>1 DEF Text!Min
  <2>7. SubSeq(s, k, e - i) = SubSeq(f, p, e - 1)
      BY <1>9, <2>4, EndOfPart DEF s
  <2>8. dark # {}
      BY <2>3
  <2> QED BY <1>4, <1>6, <1>9, <2>6, <2>7, <2>8 DEF p, s
<1> QED BY <1>11, <1>12

\* Where a line has its first symbol, its end, its "=" and its value.
First(f, i) == Place(f, i, Dark)
End(f, i) == Place(f, i, LineEnds)
EqualAt(f, i) == Place(f, First(f, i) + 1, Dark)
ValueAt(f, i) == Place(f, EqualAt(f, i) + 1, Dark)

LEMMA EndIs ==
  ASSUME NEW f \in Seq(Symbols), NEW i \in 1..Len(f) + 1
  PROVE  /\ End(f, i) \in i..Len(f) + 1
         /\ End(f, i) = Len(f) + 1 \/ f[End(f, i)] \in LineEnds
         /\ \A j \in i..End(f, i) - 1 : f[j] \notin LineEnds
<1>1. IsPlace(f, i, LineEnds, End(f, i))
    BY PlaceIs, SeqPlaces DEF End
<1> QED BY <1>1 DEF IsPlace

LEMMA LineEndIsDark == LineEnds \subseteq Dark
BY DEF Dark, Space, Symbols, WhiteSpace, LineEnds

LEMMA HeadTailOfPart ==
  ASSUME NEW f \in Seq(Symbols), NEW i \in 1..Len(f), NEW e \in i + 1..Len(f) + 1
  PROVE  /\ SubSeq(f, i, e - 1) # << >>
         /\ Head(SubSeq(f, i, e - 1)) = f[i]
         /\ Tail(SubSeq(f, i, e - 1)) = SubSeq(f, i + 1, e - 1)
<1>1. Len(f) \in Nat /\ e - 1 \in i..Len(f) /\ i \in 1..Len(f) + 1 /\ e \in i..Len(f) + 1
    BY SeqPlaces
<1>2. Len(SubSeq(f, i, e - 1)) = e - i
    BY <1>1, PartIs
<1>3. e - i # 0
    BY <1>1
<1>4. SubSeq(f, i, e - 1) # << >>
    BY <1>2, <1>3, EmptySeq
<1> QED BY <1>1, <1>4, HeadTailOfSubSeq

\* A line, without the blanks at its beginning.
LEMMA LineIs ==
  ASSUME NEW f \in Seq(Symbols), NEW i \in 1..Len(f)
  PROVE  /\ First(f, i) \in i..End(f, i)
         /\ Text!LineAt(f, i) = SubSeq(f, First(f, i), End(f, i) - 1)
<1> DEFINE e == End(f, i)
           ends == {j \in i..Len(f) : f[j] \in LineEnds}
<1>1. Len(f) \in Nat /\ i \in 1..Len(f) + 1
    BY SeqPlaces
<1>2. e \in i..Len(f) + 1
    BY <1>1, EndIs
<1>3. e = Len(f) + 1 \/ f[e] \in LineEnds
    BY <1>1, EndIs
<1>4. \A j \in i..e - 1 : f[j] \notin LineEnds
    BY <1>1, EndIs
<1>5. Text!LineAt(f, i) =
        Text!Trim(SubSeq(f, i, IF ends = {} THEN Len(f) ELSE Text!Min(ends) - 1))
    BY DEF Text!LineAt
<1> HIDE DEF e
<1>6. (IF ends = {} THEN Len(f) ELSE Text!Min(ends) - 1) = e - 1
  <2>1. CASE e = Len(f) + 1
    <3>1. ends = {}
        BY <1>1, <1>4, <2>1
    <3> QED BY <1>1, <2>1, <3>1
  <2>2. CASE e # Len(f) + 1
    <3>1. e \in i..Len(f)
        BY <1>1, <1>2, <2>2
    <3>2. e \in ends
        BY <1>3, <2>2, <3>1
    <3>3. \A j \in ends : e <= j
      <4>1. ASSUME NEW j \in ends, j < e PROVE FALSE
        <5>1. j \in i..Len(f) /\ e \in Int
            BY <3>1
        <5>2. j \in i..e - 1
            BY <1>1, <4>1, <5>1
        <5> QED BY <1>4, <5>2
      <4>2. ends \subseteq i..Len(f)
          OBVIOUS
      <4>3. ends \subseteq Int /\ e \in Int
          BY <1>1, <3>1, <4>2
      <4> HIDE DEF ends
      <4> QED BY <4>1, <4>3
    <3>4. ends \subseteq Int
      <4>1. ends \subseteq i..Len(f)
          OBVIOUS
      <4> QED BY <1>1, <4>1
    <3> HIDE DEF ends
    <3>5. \A x \in ends : (\A y \in ends : x <= y) => x = e
        BY <3>2, <3>3, <3>4
    <3>6. Text!Min(ends) = e
        BY <3>2, <3>3, <3>5 DEF Text!Min
    <3> QED BY <3>2, <3>6
  <2> QED BY <2>1, <2>2
<1>7. e = Len(f) + 1 \/ f[e] \in Dark
    BY <1>3, LineEndIsDark
<1> HIDE DEF ends
<1>8. /\ Place(f, i, Dark) \in i..e
      /\ Text!Trim(SubSeq(f, i, e - 1)) = SubSeq(f, Place(f, i, Dark), e - 1)
    BY <1>1, <1>2, <1>7, TrimIs
<1> QED BY <1>5, <1>6, <1>8 DEF First, e

\* What follows the first symbol of a line.
LEMMA RestIs ==
  ASSUME NEW f \in Seq(Symbols), NEW i \in 1..Len(f), NEW q \in i..End(f, i) - 1
  PROVE  /\ SubSeq(f, q, End(f, i) - 1) # << >>
         /\ Head(SubSeq(f, q, End(f, i) - 1)) = f[q]
         /\ Place(f, q + 1, Dark) \in q + 1..End(f, i)
         /\ Text!Trim(Tail(SubSeq(f, q, End(f, i) - 1)))
              = SubSeq(f, Place(f, q + 1, Dark), End(f, i) - 1)
<1> DEFINE e == End(f, i)
<1>1. Len(f) \in Nat /\ i \in 1..Len(f) + 1
    BY SeqPlaces
<1>2. e \in i..Len(f) + 1 /\ (e = Len(f) + 1 \/ f[e] \in Dark)
    BY <1>1, EndIs, LineEndIsDark
<1>3. q \in i..e - 1
    OBVIOUS
<1> HIDE DEF e
<1>4. q \in 1..Len(f) /\ e \in q + 1..Len(f) + 1 /\ q + 1 \in 1..Len(f) + 1
  <2>1. e \in i..Len(f) + 1
      BY <1>2
  <2> QED BY <1>1, <1>3, <2>1
<1>5. /\ SubSeq(f, q, e - 1) # << >>
      /\ Head(SubSeq(f, q, e - 1)) = f[q]
      /\ Tail(SubSeq(f, q, e - 1)) = SubSeq(f, q + 1, e - 1)
    BY <1>4, HeadTailOfPart
<1>6. /\ Place(f, q + 1, Dark) \in q + 1..e
      /\ Text!Trim(SubSeq(f, q + 1, e - 1)) = SubSeq(f, Place(f, q + 1, Dark), e - 1)
    BY <1>2, <1>4, TrimIs
<1> QED BY <1>5, <1>6 DEF e

\* What a line is, by its places.
EmptyAt(f, i) == First(f, i) = End(f, i)
SettingAt(f, i) ==
  /\ First(f, i) # End(f, i) /\ f[First(f, i)] \in Names
  /\ EqualAt(f, i) # End(f, i) /\ f[EqualAt(f, i)] = "="
ValuePart(f, i) == SubSeq(f, ValueAt(f, i), End(f, i) - 1)

LEMMA LineKinds ==
  ASSUME NEW f \in Seq(Symbols), NEW i \in 1..Len(f)
  PROVE  /\ Text!Ignored(Text!LineAt(f, i)) <=> EmptyAt(f, i) \/ f[First(f, i)] = "#"
         /\ Text!IsSetting(Text!LineAt(f, i)) <=> SettingAt(f, i)
         /\ SettingAt(f, i) =>
              /\ EqualAt(f, i) \in First(f, i) + 1..End(f, i) - 1
              /\ ValueAt(f, i) \in EqualAt(f, i) + 1..End(f, i)
              /\ Head(Text!LineAt(f, i)) = f[First(f, i)]
              /\ Text!ValueIn(Text!LineAt(f, i)) = ValuePart(f, i)
<1> DEFINE e == End(f, i)
           q == First(f, i)
           b == EqualAt(f, i)
           line == Text!LineAt(f, i)
<1>1. q \in i..e /\ line = SubSeq(f, q, e - 1)
    BY LineIs
<1>2. Len(f) \in Nat /\ i \in 1..Len(f) + 1
    BY SeqPlaces
<1>3. e \in i..Len(f) + 1
    BY <1>2, EndIs
<1>4. CASE q = e
  <2>1. line = << >>
    <3>1. SubSeq(f, e, e - 1) = << >>
        BY <1>2, <1>3, SubSeqEmpty
    <3> QED BY <1>1, <1>4, <3>1
  <2> QED BY <1>4, <2>1 DEF Text!Ignored, Text!IsSetting, SettingAt, EmptyAt
<1>5. CASE q # e
  <2>1. q \in i..e - 1
      BY <1>1, <1>2, <1>3, <1>5
  <2>2. line # << >> /\ Head(line) = f[q]
    <3>1. SubSeq(f, q, e - 1) # << >> /\ Head(SubSeq(f, q, e - 1)) = f[q]
        BY <2>1, RestIs
    <3> QED BY <1>1, <3>1
  <2>3. b \in q + 1..e /\ Text!Right(line) = SubSeq(f, b, e - 1)
    <3>1. /\ Place(f, q + 1, Dark) \in q + 1..e
          /\ Text!Trim(Tail(SubSeq(f, q, e - 1))) = SubSeq(f, Place(f, q + 1, Dark), e - 1)
        BY <2>1, RestIs
    <3> QED BY <1>1, <3>1 DEF Text!Right, EqualAt
  <2>4. Text!Ignored(line) <=> EmptyAt(f, i) \/ f[q] = "#"
      BY <1>5, <2>2 DEF Text!Ignored, EmptyAt
  <2>5. CASE b = e
    <3>1. Text!Right(line) = << >>
      <4>1. SubSeq(f, e, e - 1) = << >>
          BY <1>2, <1>3, SubSeqEmpty
      <4> QED BY <2>3, <2>5, <4>1
    <3> QED BY <2>4, <2>5, <3>1 DEF Text!IsSetting, SettingAt
  <2>6. CASE b # e
    <3>1. b \in i..e - 1 /\ b \in q + 1..e - 1
      <4>1. q \in i..e - 1 /\ b \in q + 1..e
          BY <2>1, <2>3
      <4> HIDE DEF b, q, e
      <4> QED BY <1>2, <1>3, <2>6, <4>1
    <3>2. /\ Text!Right(line) # << >> /\ Head(Text!Right(line)) = f[b]
      <4>1. SubSeq(f, b, e - 1) # << >> /\ Head(SubSeq(f, b, e - 1)) = f[b]
          BY <3>1, RestIs
      <4> QED BY <2>3, <4>1
    <3>3. /\ ValueAt(f, i) \in b + 1..e
          /\ Text!ValueIn(line) = SubSeq(f, ValueAt(f, i), e - 1)
      <4>1. /\ Place(f, b + 1, Dark) \in b + 1..e
            /\ Text!Trim(Tail(SubSeq(f, b, e - 1))) = SubSeq(f, Place(f, b + 1, Dark), e - 1)
          BY <3>1, RestIs
      <4> QED BY <2>3, <4>1 DEF Text!ValueIn, ValueAt
    <3>4. Text!IsSetting(line) <=> SettingAt(f, i)
        BY <1>5, <2>2, <2>6, <3>2 DEF Text!IsSetting, SettingAt
    <3> QED BY <2>2, <2>4, <3>1, <3>3, <3>4 DEF ValuePart
  <2> QED BY <2>5, <2>6
<1> QED BY <1>4, <1>5

-----------------------------------------------------------------------------
\* A file that goes on after its line end keeps its lines.

Begins(f, g) ==
  /\ Len(f) <= Len(g)
  /\ \A j \in 1..Len(f) : g[j] = f[j]

LEMMA SamePart ==
  ASSUME NEW f \in Seq(Symbols), NEW g \in Seq(Symbols), Begins(f, g),
         NEW i \in 1..Len(f) + 1, NEW e \in i..Len(f) + 1
  PROVE  SubSeq(g, i, e - 1) = SubSeq(f, i, e - 1)
<1>1. Len(f) \in Nat /\ Len(g) \in Nat /\ Len(f) <= Len(g)
    BY SeqPlaces DEF Begins
<1>2. i \in 1..Len(g) + 1 /\ e \in i..Len(g) + 1
    BY <1>1
<1>3. /\ SubSeq(f, i, e - 1) \in Seq(Symbols) /\ Len(SubSeq(f, i, e - 1)) = e - i
      /\ SubSeq(g, i, e - 1) \in Seq(Symbols) /\ Len(SubSeq(g, i, e - 1)) = e - i
    BY <1>2, PartIs
<1>4. \A k \in 1..e - i : SubSeq(f, i, e - 1)[k] = f[i + k - 1]
    BY PartIs
<1>5. \A k \in 1..e - i : SubSeq(g, i, e - 1)[k] = g[i + k - 1]
    BY <1>2, PartIs
<1>6. \A k \in 1..e - i : SubSeq(g, i, e - 1)[k] = SubSeq(f, i, e - 1)[k]
  <2> TAKE k \in 1..e - i
  <2>1. i + k - 1 \in 1..Len(f)
      BY <1>1
  <2> QED BY <1>4, <1>5, <2>1 DEF Begins
<1> QED BY <1>3, <1>6, SeqEqual

LEMMA SameLine ==
  ASSUME NEW f \in Seq(Symbols), NEW g \in Seq(Symbols), Begins(f, g),
         NEW i \in 1..Len(f),
         End(f, i) # Len(f) + 1 \/ g[Len(f) + 1] \in LineEnds
  PROVE  Text!LineAt(g, i) = Text!LineAt(f, i)
<1> DEFINE e == End(f, i)
           q == First(f, i)
<1>1. Len(f) \in Nat /\ Len(g) \in Nat /\ Len(f) <= Len(g) /\ i \in 1..Len(f) + 1
      /\ i \in 1..Len(g) + 1 /\ i \in 1..Len(g)
    BY SeqPlaces DEF Begins
<1>2. e \in i..Len(f) + 1 /\ (e = Len(f) + 1 \/ f[e] \in LineEnds)
    BY <1>1, EndIs
<1>3. \A j \in i..e - 1 : f[j] \notin LineEnds
    BY <1>1, EndIs
<1>4. /\ q \in i..e
      /\ Text!LineAt(f, i) = SubSeq(f, q, e - 1)
    BY LineIs
<1>5. IsPlace(f, i, Dark, q)
    BY <1>1, PlaceIs DEF First
<1>6. e # Len(f) + 1 \/ g[Len(f) + 1] \in LineEnds
    OBVIOUS
<1> HIDE DEF e, q
<1>7. e = Len(g) + 1 \/ g[e] \in LineEnds
  <2>1. CASE e = Len(f) + 1
      BY <1>6, <2>1
  <2>2. CASE e # Len(f) + 1
    <3>1. e \in 1..Len(f)
      <4>1. e \in i..Len(f) + 1
          BY <1>2
      <4> QED BY <1>1, <2>2, <4>1
    <3> QED BY <1>2, <2>2, <3>1 DEF Begins
  <2> QED BY <2>1, <2>2
<1>8. e \in i..Len(g) + 1 /\ q \in i..Len(g) + 1
  <2>1. e \in i..Len(f) + 1 /\ q \in i..e
      BY <1>2, <1>4
  <2> QED BY <1>1, <2>1
<1>9. \A j \in i..e - 1 : g[j] = f[j]
  <2> TAKE j \in i..e - 1
  <2>1. e \in i..Len(f) + 1
      BY <1>2
  <2>2. j \in 1..Len(f)
      BY <1>1, <2>1
  <2> QED BY <2>2 DEF Begins
<1>10. End(g, i) = e
  <2>1. IsPlace(g, i, LineEnds, e)
      BY <1>3, <1>7, <1>8, <1>9 DEF IsPlace
  <2> QED BY <1>1, <2>1, PlaceUnique DEF End
<1>11. First(g, i) = q
  <2>1. \A j \in i..q - 1 : g[j] \notin Dark
    <3> TAKE j \in i..q - 1
    <3>1. q \in i..e /\ e \in i..Len(f) + 1
        BY <1>2, <1>4
    <3>2. j \in i..e - 1
        BY <1>1, <3>1
    <3> QED BY <1>5, <1>9, <3>2 DEF IsPlace
  <2>2. q = Len(g) + 1 \/ g[q] \in Dark
    <3>1. CASE q = e
        BY <1>7, <3>1, LineEndIsDark
    <3>2. CASE q # e
      <4>1. q \in i..e /\ e \in i..Len(f) + 1
          BY <1>2, <1>4
      <4>2. q \in i..e - 1 /\ q # Len(f) + 1
          BY <1>1, <3>2, <4>1
      <4> QED BY <1>5, <1>9, <4>2 DEF IsPlace
    <3> QED BY <3>1, <3>2
  <2>3. IsPlace(g, i, Dark, q)
      BY <1>8, <2>1, <2>2 DEF IsPlace
  <2> QED BY <1>1, <2>3, PlaceUnique DEF First
<1>12. Text!LineAt(g, i) = SubSeq(g, q, e - 1)
    BY <1>1, <1>10, <1>11, LineIs
<1>13. SubSeq(g, q, e - 1) = SubSeq(f, q, e - 1)
  <2>1. e \in i..Len(f) + 1 /\ q \in i..e
      BY <1>2, <1>4
  <2>2. q \in 1..Len(f) + 1 /\ e \in q..Len(f) + 1
      BY <1>1, <2>1
  <2> QED BY <2>2, SamePart
<1> QED BY <1>4, <1>12, <1>13

LEMMA SameStarts ==
  ASSUME NEW f \in Seq(Symbols), NEW g \in Seq(Symbols), Begins(f, g),
         NEW i \in 1..Len(f)
  PROVE  i \in Text!LineStarts(g) <=> i \in Text!LineStarts(f)
<1>1. i \in DOMAIN f /\ i \in DOMAIN g
    BY SeqPlaces DEF Begins
<1>2. i # 1 => g[i - 1] = f[i - 1]
  <2>1. i # 1 => i - 1 \in 1..Len(f)
      BY SeqPlaces
  <2> QED BY <2>1 DEF Begins
<1> QED BY <1>1, <1>2 DEF Text!LineStarts

\* The line end that is appended to a card's file changes nothing.
LEMMA AppendIs ==
  ASSUME NEW f \in Seq(Symbols)
  PROVE  /\ Append(f, "\n") \in Seq(Symbols) /\ Len(Append(f, "\n")) = Len(f) + 1
         /\ Begins(f, Append(f, "\n")) /\ Append(f, "\n")[Len(f) + 1] = "\n"
BY AppendProperties, SeqPlaces DEF Begins, Symbols, WhiteSpace, LineEnds

LEMMA AppendedLine ==
  ASSUME NEW f \in Seq(Symbols)
  PROVE  LET g == Append(f, "\n")
         IN  /\ Text!LineStarts(f) \subseteq 1..Len(f)
             /\ Text!LineStarts(g) \ {Len(f) + 1} = Text!LineStarts(f)
             /\ \A i \in Text!LineStarts(f) : Text!LineAt(g, i) = Text!LineAt(f, i)
             /\ Text!LineAt(g, Len(f) + 1) = << >>
<1> DEFINE g == Append(f, "\n")
           m == Len(f) + 1
<1>1. g \in Seq(Symbols) /\ Len(g) = m /\ Begins(f, g) /\ g[m] = "\n"
    BY AppendIs
<1>2. Len(f) \in Nat /\ DOMAIN f = 1..Len(f)
    BY SeqPlaces
<1>3. DOMAIN g = 1..m
    BY <1>1, SeqPlaces
<1> HIDE DEF g
<1>4. Text!LineStarts(f) \subseteq 1..Len(f)
    BY <1>2 DEF Text!LineStarts
<1>5. \A i \in 1..Len(f) : i \in Text!LineStarts(g) <=> i \in Text!LineStarts(f)
    BY <1>1, SameStarts
<1>6. Text!LineStarts(g) \subseteq 1..m
    BY <1>3 DEF Text!LineStarts
<1>7. Text!LineStarts(g) \ {m} = Text!LineStarts(f)
  <2>1. \A i : i \in 1..m /\ i # m => i \in 1..Len(f)
      BY <1>2
  <2>2. m \notin 1..Len(f)
      BY <1>2
  <2> HIDE DEF m
  <2> QED BY <1>4, <1>5, <1>6, <2>1, <2>2
<1>8. \A i \in Text!LineStarts(f) : Text!LineAt(g, i) = Text!LineAt(f, i)
    BY <1>1, <1>4, SameLine DEF LineEnds
<1>9. Text!LineAt(g, m) = << >>
  <2>1. m \in 1..Len(g) /\ m \in 1..Len(g) + 1
      BY <1>1, <1>2
  <2>2. IsPlace(g, m, LineEnds, m)
      BY <1>1, <1>2 DEF IsPlace, LineEnds
  <2>3. End(g, m) = m
      BY <1>1, <1>2, <2>1, <2>2, PlaceUnique DEF End
  <2>4. First(g, m) \in m..m /\ Text!LineAt(g, m) = SubSeq(g, First(g, m), m - 1)
      BY <1>1, <2>1, <2>3, LineIs
  <2>5. First(g, m) = m
      BY <1>2, <2>4
  <2>6. SubSeq(g, m, m - 1) = << >>
      BY <1>2, SubSeqEmpty
  <2> QED BY <2>4, <2>5, <2>6
<1> QED BY <1>4, <1>7, <1>8, <1>9 DEF g

LEMMA AppendedMeans ==
  ASSUME NEW f \in Seq(Symbols)
  PROVE  /\ Text!WellFormed(f) => Text!WellFormed(Append(f, "\n"))
         /\ \A n \in Names : Text!Settings(Append(f, "\n"), n) = Text!Settings(f, n)
         /\ \A i \in Text!LineStarts(f) :
              Text!LineAt(Append(f, "\n"), i) = Text!LineAt(f, i)
<1> DEFINE g == Append(f, "\n")
           m == Len(f) + 1
<1>1. /\ Text!LineStarts(f) \subseteq 1..Len(f)
      /\ Text!LineStarts(g) \ {m} = Text!LineStarts(f)
      /\ \A i \in Text!LineStarts(f) : Text!LineAt(g, i) = Text!LineAt(f, i)
      /\ Text!LineAt(g, m) = << >>
    BY AppendedLine
<1> HIDE DEF g, m
<1>2. Text!WellFormed(f) => Text!WellFormed(g)
    BY <1>1 DEF Text!WellFormed, Text!Ignored
<1>3. ASSUME NEW n \in Names PROVE Text!Settings(g, n) = Text!Settings(f, n)
    BY <1>1 DEF Text!Settings, Text!IsSetting
<1> QED BY <1>1, <1>2, <1>3 DEF g

-----------------------------------------------------------------------------
\* The text of a saved file.

\* A text that is put together from its first part to its last.
LEMMA FlattenIs ==
  ASSUME NEW s \in Seq(Seq(Symbols)), s # << >>
  PROVE  \E h \in [1..Len(s) -> Seq(Symbols)] :
           /\ h[1] = s[1]
           /\ \A i \in 2..Len(s) : h[i] = h[i - 1] \o s[i]
           /\ FlattenSeq(s) = h[Len(s)]
<1> DEFINE n == Len(s)
           Rule(f, m) == f = [i \in 1..m |-> IF i = 1 THEN s[i] ELSE f[i - 1] \o s[i]]
           flat == CHOOSE f : Rule(f, n)
           K == {m \in Nat : m <= n => \E f : Rule(f, m)}
           T == {m \in Nat : m \in 1..n => flat[m] \in Seq(Symbols)}
<1>1. n \in Nat /\ n # 0 /\ \A i \in 1..n : s[i] \in Seq(Symbols)
    BY EmptySeq, LenProperties, ElementOfSeq
<1> HIDE DEF n
<1>2. ASSUME NEW f, NEW m, Rule(f, m)
       PROVE  /\ f = [i \in 1..m |-> f[i]]
              /\ \A i \in 1..m : f[i] = IF i = 1 THEN s[i] ELSE f[i - 1] \o s[i]
  <2> DEFINE r == [i \in 1..m |-> IF i = 1 THEN s[i] ELSE f[i - 1] \o s[i]]
  <2>1. r = [i \in 1..m |-> r[i]]
        /\ \A i \in 1..m : r[i] = IF i = 1 THEN s[i] ELSE f[i - 1] \o s[i]
      OBVIOUS
  <2>2. f = r
      BY <1>2
  <2> HIDE DEF r
  <2> QED BY <2>1, <2>2
<1>3. ASSUME NEW f, NEW m, f = [i \in 1..m |-> f[i]],
              \A i \in 1..m : f[i] = IF i = 1 THEN s[i] ELSE f[i - 1] \o s[i]
       PROVE  Rule(f, m)
    BY <1>3
<1> HIDE DEF Rule
<1>4. 0 \in K
  <2> DEFINE g == [i \in 1..0 |-> s[i]]
  <2>1. g = [i \in 1..0 |-> g[i]]
      OBVIOUS
  <2>2. \A i \in 1..0 : g[i] = IF i = 1 THEN s[i] ELSE g[i - 1] \o s[i]
      OBVIOUS
  <2> HIDE DEF g
  <2>3. Rule(g, 0)
      BY <2>1, <2>2, <1>3
  <2> QED BY <2>3
<1>5. ASSUME NEW m \in K PROVE m + 1 \in K
  <2>1. m \in Nat /\ (m <= n => \E f : Rule(f, m))
      BY <1>5
  <2> SUFFICES ASSUME m + 1 <= n PROVE \E f : Rule(f, m + 1)
      BY <2>1
  <2>2. PICK f : Rule(f, m)
      BY <1>1, <2>1
  <2> DEFINE g == [i \in 1..m + 1 |-> IF i = 1 THEN s[i] ELSE f[i - 1] \o s[i]]
  <2>3. \A i \in 1..m + 1 : g[i] = IF i = 1 THEN s[i] ELSE f[i - 1] \o s[i]
      OBVIOUS
  <2>4. g = [i \in 1..m + 1 |-> g[i]]
      OBVIOUS
  <2> HIDE DEF g
  <2>5. \A i \in 1..m : i \in 1..m + 1
      BY <2>1
  <2>6. \A i \in 1..m : f[i] = IF i = 1 THEN s[i] ELSE f[i - 1] \o s[i]
      BY <2>2, <1>2
  <2>7. \A i \in 1..m : g[i] = f[i]
      BY <2>3, <2>5, <2>6
  <2>8. \A i \in 1..m + 1 : g[i] = IF i = 1 THEN s[i] ELSE g[i - 1] \o s[i]
    <3> TAKE i \in 1..m + 1
    <3>1. i # 1 => i - 1 \in 1..m
        BY <2>1
    <3>2. g[i] = IF i = 1 THEN s[i] ELSE f[i - 1] \o s[i]
        BY <2>3
    <3> QED BY <2>7, <3>1, <3>2
  <2>9. Rule(g, m + 1)
      BY <2>8, <2>4, <1>3
  <2> QED BY <2>9
<1>6. \E f : Rule(f, n)
  <2>1. K \in SUBSET Nat
      OBVIOUS
  <2>2. n \in K
    <3> HIDE DEF K
    <3> QED BY <1>1, <1>4, <1>5, <2>1, NatSet
  <2> QED BY <1>1, <2>2
<1>7. Rule(flat, n)
    BY <1>6
<1>8. FlattenSeq(s) = flat[n]
    BY <1>1 DEF FlattenSeq, n, Rule
<1> HIDE DEF flat
<1>9. flat = [i \in 1..n |-> flat[i]] /\ flat[1] = s[1]
      /\ \A i \in 2..n : flat[i] = flat[i - 1] \o s[i]
  <2>1. flat = [i \in 1..n |-> flat[i]]
        /\ \A i \in 1..n : flat[i] = IF i = 1 THEN s[i] ELSE flat[i - 1] \o s[i]
      BY <1>7, <1>2
  <2>2. 1 \in 1..n /\ \A i \in 2..n : i \in 1..n /\ i # 1
      BY <1>1
  <2> QED BY <2>1, <2>2
<1>10. 0 \in T
    OBVIOUS
<1>11. ASSUME NEW m \in T PROVE m + 1 \in T
  <2> SUFFICES ASSUME m + 1 \in 1..n PROVE flat[m + 1] \in Seq(Symbols)
      OBVIOUS
  <2>1. CASE m = 0
      BY <1>1, <1>9, <2>1
  <2>2. CASE m # 0
    <3>1. m \in 1..n /\ m + 1 \in 2..n /\ (m + 1) - 1 = m
        BY <1>1, <2>2
    <3>2. flat[m + 1] = flat[m] \o s[m + 1]
        BY <1>9, <3>1
    <3>3. flat[m] \in Seq(Symbols) /\ s[m + 1] \in Seq(Symbols)
        BY <1>1, <3>1
    <3> QED BY <3>2, <3>3, ConcatProperties
  <2> QED BY <2>1, <2>2
<1>12. T = Nat
  <2>1. T \in SUBSET Nat
      OBVIOUS
  <2> HIDE DEF T
  <2> QED BY <1>10, <1>11, <2>1, NatSet
<1>13. flat \in [1..n -> Seq(Symbols)]
  <2>1. \A m \in 1..n : flat[m] \in Seq(Symbols)
    <3> TAKE m \in 1..n
    <3>1. m \in T
        BY <1>12
    <3> QED BY <3>1
  <2> QED BY <1>9, <2>1
<1> QED BY <1>8, <1>9, <1>13 DEF n

LineOf(v, i) == << AttNames[i], "=" >> \o v[AttNames[i]] \o << "\n" >>

TextOf(v) == FlattenSeq([i \in DOMAIN AttNames |-> LineOf(v, i)])

LEMMA NamesAre ==
  /\ Len(AttNames) \in Nat \ {0} /\ DOMAIN AttNames = 1..Len(AttNames)
  /\ \A i \in 1..Len(AttNames) : AttNames[i] \in Names
  /\ \A n \in Names : \E i \in 1..Len(AttNames) : n = AttNames[i]
<1>1. AttNames \in Seq(Names) /\ AttNames # << >>
    BY NamesAssumption
<1>2. Len(AttNames) \in Nat \ {0}
    BY <1>1, EmptySeq
<1>3. DOMAIN AttNames = 1..Len(AttNames)
    BY <1>1, LenProperties
<1> QED BY <1>2, <1>3 DEF Names

LEMMA LineOfIs ==
  ASSUME NEW v \in [Names -> Seq(Symbols)], NEW i \in 1..Len(AttNames)
  PROVE  LET n == AttNames[i]
             m == Len(v[n])
         IN  /\ n \in Names /\ v[n] \in Seq(Symbols) /\ m \in Nat
             /\ LineOf(v, i) \in Seq(Symbols)
             /\ Len(LineOf(v, i)) = m + 3
             /\ LineOf(v, i)[1] = n
             /\ LineOf(v, i)[2] = "="
             /\ \A j \in 1..m : LineOf(v, i)[j + 2] = v[n][j]
             /\ LineOf(v, i)[m + 3] = "\n"
<1> DEFINE n == AttNames[i]
           w == v[n]
           m == Len(w)
           a == << n, "=" >>
           b == a \o w
           z == << "\n" >>
<1>1. n \in Names
    BY NamesAre
<1>2. w \in Seq(Symbols) /\ m \in Nat
    BY <1>1, LenProperties
<1>3. a \in Seq(Symbols) /\ Len(a) = 2 /\ a[1] = n /\ a[2] = "="
  <2>1. n \in Symbols /\ "=" \in Symbols
      BY <1>1 DEF Symbols
  <2> HIDE DEF n
  <2> QED BY <2>1
<1>4. z \in Seq(Symbols) /\ Len(z) = 1 /\ z[1] = "\n"
  <2>1. "\n" \in Symbols
      BY DEF Symbols, WhiteSpace, LineEnds
  <2> QED BY <2>1
<1>5. LineOf(v, i) = b \o z
    BY DEF LineOf
<1> HIDE DEF n, w, m, a, z
<1>6. b \in Seq(Symbols) /\ Len(b) = m + 2
      /\ \A j \in 1..m + 2 : b[j] = IF j <= 2 THEN a[j] ELSE w[j - 2]
  <2>1. /\ a \o w \in Seq(Symbols) /\ Len(a \o w) = Len(a) + Len(w)
        /\ \A j \in 1..Len(a) + Len(w) : (a \o w)[j] = IF j <= Len(a) THEN a[j] ELSE w[j - Len(a)]
      BY <1>2, <1>3, ConcatProperties
  <2>2. Len(a) + Len(w) = m + 2
      BY <1>2, <1>3 DEF m
  <2> QED BY <1>3, <2>1, <2>2
<1>7. b[1] = n /\ b[2] = "=" /\ \A j \in 1..m : b[j + 2] = w[j]
  <2>1. 1 \in 1..m + 2 /\ 2 \in 1..m + 2 /\ 1 <= 2
        /\ \A j \in 1..m : j + 2 \in 1..m + 2 /\ ~(j + 2 <= 2) /\ (j + 2) - 2 = j
      BY <1>2
  <2> HIDE DEF b
  <2> QED BY <1>3, <1>6, <2>1
<1> HIDE DEF b
<1>8. /\ b \o z \in Seq(Symbols) /\ Len(b \o z) = m + 3
      /\ \A j \in 1..m + 3 : (b \o z)[j] = IF j <= m + 2 THEN b[j] ELSE z[j - (m + 2)]
  <2>1. /\ b \o z \in Seq(Symbols) /\ Len(b \o z) = Len(b) + Len(z)
        /\ \A j \in 1..Len(b) + Len(z) : (b \o z)[j] = IF j <= Len(b) THEN b[j] ELSE z[j - Len(b)]
      BY <1>4, <1>6, ConcatProperties
  <2>2. Len(b) + Len(z) = m + 3
      BY <1>2, <1>4, <1>6
  <2> QED BY <1>6, <2>1, <2>2
<1>9. /\ (b \o z)[1] = n /\ (b \o z)[2] = "="
      /\ \A j \in 1..m : (b \o z)[j + 2] = w[j]
      /\ (b \o z)[m + 3] = "\n"
  <2>1. 1 \in 1..m + 3 /\ 2 \in 1..m + 3 /\ 1 <= m + 2 /\ 2 <= m + 2
        /\ m + 3 \in 1..m + 3 /\ ~(m + 3 <= m + 2) /\ (m + 3) - (m + 2) = 1
        /\ \A j \in 1..m : j + 2 \in 1..m + 3 /\ j + 2 <= m + 2
      BY <1>2
  <2> QED BY <1>4, <1>7, <1>8, <2>1
<1> QED BY <1>1, <1>2, <1>5, <1>8, <1>9 DEF n, w, m

LEMMA TextIs ==
  ASSUME NEW v \in [Names -> Seq(Symbols)]
  PROVE  \E h \in [1..Len(AttNames) -> Seq(Symbols)] :
           /\ h[1] = LineOf(v, 1)
           /\ \A i \in 2..Len(AttNames) : h[i] = h[i - 1] \o LineOf(v, i)
           /\ TextOf(v) = h[Len(AttNames)]
<1> DEFINE s == [i \in DOMAIN AttNames |-> LineOf(v, i)]
           n == Len(AttNames)
<1>1. n \in Nat \ {0} /\ DOMAIN AttNames = 1..n
    BY NamesAre
<1>2. \A i \in 1..n : LineOf(v, i) \in Seq(Symbols)
    BY LineOfIs
<1> HIDE DEF n
<1>3. s \in [1..n -> Seq(Symbols)] /\ \A i \in 1..n : s[i] = LineOf(v, i)
    BY <1>1, <1>2
<1>4. TextOf(v) = FlattenSeq(s)
    BY DEF TextOf
<1> HIDE DEF s
<1>5. s \in Seq(Seq(Symbols))
    BY <1>1, <1>3, SeqDef
<1>6. Len(s) = n
    BY <1>1, <1>3, <1>5, LenProperties
<1>7. s # << >>
    BY <1>1, <1>6, EmptySeq
<1>8. 1 \in 1..n /\ \A i \in 2..n : i \in 1..n
    BY <1>1
<1>9. PICK h \in [1..Len(s) -> Seq(Symbols)] :
        /\ h[1] = s[1]
        /\ \A i \in 2..Len(s) : h[i] = h[i - 1] \o s[i]
        /\ FlattenSeq(s) = h[Len(s)]
    BY <1>5, <1>7, FlattenIs
<1>10. h[1] = LineOf(v, 1) /\ TextOf(v) = h[n] /\ h \in [1..n -> Seq(Symbols)]
    BY <1>3, <1>4, <1>6, <1>8, <1>9
<1>11. \A i \in 2..n : h[i] = h[i - 1] \o LineOf(v, i)
    BY <1>3, <1>6, <1>8, <1>9
<1> QED BY <1>10, <1>11 DEF n

LEMMA TextType ==
  ASSUME NEW v \in [Names -> Seq(Symbols)]
  PROVE  TextOf(v) \in Seq(Symbols)
<1>1. Len(AttNames) \in 1..Len(AttNames)
    BY NamesAre
<1> QED BY <1>1, TextIs

-----------------------------------------------------------------------------
\* Tokens, and the types.

LEMMA SymbolsAre ==
  /\ "=" \in Symbols /\ "\n" \in Symbols /\ Names \subseteq Symbols
  /\ Names \cap {" ", "\t", "\n", "\r", "=", "#", "NUL"} = {}
BY NamesAssumption DEF Symbols, WhiteSpace, Space, LineEnds

LEMMA FindIs ==
  ASSUME TypeOK, NEW i \in 1..Len(file) + 1, NEW symbols
  PROVE  /\ Find(i, symbols) \in i..Len(file) + 1
         /\ IsPlace(file, i, symbols, Find(i, symbols))
<1>1. Len(file) \in Nat
    BY SeqPlaces DEF TypeOK
<1>2. Find(i, symbols) = Place(file, i, symbols)
    BY DEF Find, Place
<1>3. IsPlace(file, i, symbols, Place(file, i, symbols))
    BY <1>1, PlaceIs
<1> QED BY <1>2, <1>3 DEF IsPlace

LEMMA TokenIs ==
  ASSUME TypeOK
  PROVE  /\ Start \in idxAtBuffer..Len(file) + 1
         /\ Token \in Seq(Symbols) /\ Len(Token) \in Nat
         /\ Start + Len(Token) \in Start..Len(file) + 1
         /\ At(Start) = "=" => Start # Len(file) + 1 /\ Len(Token) = 1
         /\ At(Start) # "=" =>
              /\ Token = SubSeq(file, Start, Find(Start, Stops) - 1)
              /\ Len(Token) = Find(Start, Stops) - Start
<1> DEFINE q == Find(Start, Stops)
<1>1. file \in Seq(Symbols) /\ Len(file) \in Nat /\ idxAtBuffer \in 1..Len(file) + 1
    BY SeqPlaces DEF TypeOK
<1>2. Start \in idxAtBuffer..Len(file) + 1
    BY <1>1, FindIs DEF Start
<1>3. Start \in 1..Len(file) + 1
    BY <1>1, <1>2
<1> HIDE DEF Start
<1>4. q \in Start..Len(file) + 1
    BY <1>3, FindIs
<1> HIDE DEF q
<1>5. CASE At(Start) = "="
  <2>1. Token = << "=" >>
      BY <1>5 DEF Token
  <2>2. << "=" >> \in Seq(Symbols) /\ Len(<< "=" >>) = 1
    <3>1. "=" \in Symbols
        BY SymbolsAre
    <3> QED BY <3>1
  <2>3. Token \in Seq(Symbols) /\ Len(Token) = 1
      BY <2>1, <2>2, Zenon
  <2>4. Start <= Len(file)
      BY <1>5 DEF At
  <2> QED BY <1>1, <1>2, <1>3, <1>5, <2>3, <2>4
<1>6. CASE At(Start) # "="
  <2>1. Token = SubSeq(file, Start, q - 1)
      BY <1>6 DEF Token, q
  <2>2. Token \in Seq(Symbols) /\ Len(Token) = q - Start
      BY <1>1, <1>3, <1>4, <2>1, PartIs
  <2>3. q - Start \in Nat /\ Start + (q - Start) = q
    <3>1. q \in Start..Len(file) + 1
        BY <1>4
    <3> QED BY <1>1, <1>3, <3>1
  <2> QED BY <1>2, <1>4, <1>6, <2>1, <2>2, <2>3 DEF q
<1> QED BY <1>5, <1>6

\* The types that a state keeps with any symbols before and after.
LEMMA TypeInit == Init => TypeOK
<1> SUFFICES ASSUME Init PROVE TypeOK
    OBVIOUS
<1>1. << >> \in Seq(Symbols) /\ Len(<< >>) = 0
    BY EmptySeq
<1>2. AttNames[1] \in Names
    BY NamesAre
<1>3. file \in Seq(Symbols) /\ idxAtBuffer \in 1..Len(file) + 1
  <2>1. file = << >> /\ idxAtBuffer = 1
      BY DEF Init
  <2>2. file \in Seq(Symbols) /\ Len(file) = 0
      BY <1>1, <2>1, Zenon
  <2> QED BY <2>1, <2>2
<1>4. attValue \in [Names -> Seq(Symbols)] /\ defined \in [Names -> BOOLEAN]
  <2>1. attValue = [n \in Names |-> << >>] /\ defined = [n \in Names |-> FALSE]
      BY DEF Init
  <2> QED BY <1>1, <2>1, Zenon
<1>5. saves \in 0..MaxSaves /\ boots \in 0..MaxBoots
    BY BoundsAssumption DEF Init
<1> QED BY <1>2, <1>3, <1>4, <1>5 DEF Init, TypeOK

LEMMA ReadCardType ==
  ASSUME TypeOK, ReadCard, returnValFlash' \in BOOLEAN
  PROVE  file' \in Seq(Symbols) /\ phase' \in {"card", "running", "failed"}
<1>1. CASE card # NoFile
  <2>1. card \in Seq(Symbols)
      BY <1>1, FilesAssumption DEF TypeOK
  <2> QED BY <1>1, <2>1, AppendIs DEF ReadCard
<1>2. CASE card = NoFile
    BY <1>2 DEF ReadCard, TypeOK
<1> QED BY <1>1, <1>2

LEMMA ReturnType ==
  ASSUME TypeOK, NEW result \in BOOLEAN, Return(result),
         attValue' \in [Names -> Seq(Symbols)], defined' \in [Names -> BOOLEAN]
  PROVE  TypeOK'
<1>1. returnValFlash' \in BOOLEAN
    BY DEF Return, TypeOK
<1>2. file' \in Seq(Symbols) /\ phase' \in {"off", "flash", "card", "running", "failed"}
  <2>1. CASE phase = "flash"
      BY <1>1, <2>1, ReadCardType DEF Return
  <2>2. CASE phase = "card"
      BY <2>2 DEF Return, TypeOK
  <2> QED BY <2>1, <2>2 DEF Return
<1>3. 1 \in 1..Len(file') + 1
    BY <1>2, LenProperties
<1> QED BY <1>1, <1>2, <1>3 DEF Return, TypeOK, files, bounds

LEMMA GotTokenType ==
  ASSUME TypeOK, NEW expected, NEW type, GetToken(expected, type)
  PROVE  /\ idxAtBuffer' \in 1..Len(file') + 1
         /\ flash' = flash /\ card' = card /\ file' = file /\ saves' = saves
         /\ boots' = boots /\ saved' = saved
<1>1. Len(file) \in Nat /\ idxAtBuffer \in 1..Len(file) + 1
    BY SeqPlaces DEF TypeOK
<1>2. Start \in idxAtBuffer..Len(file) + 1 /\ Start + Len(Token) \in Start..Len(file) + 1
    BY TokenIs
<1> HIDE DEF Start, Token
<1>3. Start + Len(Token) \in 1..Len(file) + 1
    BY <1>1, <1>2
<1> QED BY <1>3 DEF GetToken, files, bounds

LEMMA SetType ==
  ASSUME TypeOK, NEW n \in Names, NEW value \in CommandValues, SetAttValue(n, value)
  PROVE  /\ attValue' \in [Names -> Seq(Symbols)]
         /\ defined' \in [Names -> BOOLEAN]
         /\ UNCHANGED << card, phase, parser, returnValFlash, boots >>
<1>1. value \in Seq(Symbols)
    BY ValuesAssumption
<1> QED BY <1>1 DEF SetAttValue, TypeOK

LEMMA ConfigTextIs ==
  LET v == [n \in Names |-> IF defined'[n] THEN attValue'[n] ELSE Default[n]]
  IN  ConfigText = TextOf(v)
<1> DEFINE v == [n \in Names |-> IF defined'[n] THEN attValue'[n] ELSE Default[n]]
<1>1. ASSUME NEW i \in DOMAIN AttNames
      PROVE  (LET n == AttNames[i]
              IN << n, "=" >> \o (IF defined'[n] THEN attValue'[n] ELSE Default[n]) \o << "\n" >>)
             = LineOf(v, i)
  <2>1. AttNames[i] \in Names
      BY NamesAre
  <2>2. v[AttNames[i]] = IF defined'[AttNames[i]] THEN attValue'[AttNames[i]] ELSE Default[AttNames[i]]
      BY <2>1
  <2> QED BY <2>2 DEF LineOf
<1>2. [i \in DOMAIN AttNames |->
         LET n == AttNames[i]
         IN << n, "=" >> \o (IF defined'[n] THEN attValue'[n] ELSE Default[n]) \o << "\n" >>]
      = [i \in DOMAIN AttNames |-> LineOf(v, i)]
  <2> HIDE DEF v
  <2> QED BY <1>1, Zenon
<1> QED BY <1>2 DEF ConfigText, TextOf

LEMMA SavedText ==
  ASSUME TypeOK, SetAndSave
  PROVE  /\ saved' \in [Names -> Seq(Symbols)]
         /\ flash' = TextOf(saved') /\ flash' \in Seq(Symbols)
<1>1. attValue' \in [Names -> Seq(Symbols)] /\ defined' \in [Names -> BOOLEAN]
    BY SetType DEF SetAndSave
<1>2. saved' = [n \in Names |-> IF defined'[n] THEN attValue'[n] ELSE Default[n]]
    BY DEF SetAndSave
<1>3. saved' \in [Names -> Seq(Symbols)]
    BY <1>1, <1>2, ValuesAssumption
<1>4. flash' = TextOf(saved')
    BY <1>2, ConfigTextIs DEF SetAndSave
<1> QED BY <1>3, <1>4, TextType

LEMMA TypeStep ==
  ASSUME TypeOK, [Next]_vars
  PROVE  TypeOK'
<1>1. CASE ConfigInit
  <2>1. attValue' \in [Names -> Seq(Symbols)] /\ defined' \in [Names -> BOOLEAN]
    <3>1. << >> \in Seq(Symbols)
        BY EmptySeq
    <3> QED BY <1>1, <3>1 DEF ConfigInit
  <2>2. file' \in Seq(Symbols) /\ phase' \in {"flash", "card", "running", "failed"}
    <3>1. CASE flash # NoFile
        BY <1>1, <3>1 DEF ConfigInit, TypeOK
    <3>2. CASE flash = NoFile
        BY <1>1, <3>2, ReadCardType DEF ConfigInit
    <3> QED BY <3>1, <3>2
  <2>3. 1 \in 1..Len(file') + 1
      BY <2>2, LenProperties
  <2> QED BY <1>1, <2>1, <2>2, <2>3 DEF ConfigInit, TypeOK, files, bounds
<1>2. CASE SkipComment
  <2>1. Len(file) \in Nat /\ idxAtBuffer \in 1..Len(file) + 1
      BY SeqPlaces DEF TypeOK
  <2>2. Start \in idxAtBuffer..Len(file) + 1
      BY TokenIs
  <2>3. Start \in 1..Len(file) + 1
      BY <2>1, <2>2
  <2>4. Find(Start, LineEnds) \in Start..Len(file) + 1
      BY <2>3, FindIs
  <2>5. Find(Start, LineEnds) \in 1..Len(file) + 1
    <3> HIDE DEF Find, Start
    <3> QED BY <2>1, <2>3, <2>4
  <2> QED BY <1>2, <2>5 DEF SkipComment, TypeOK, files, bounds, config
<1>3. CASE GetName
  <2>1. GetToken("NAME", "ATT_NAME")
      BY <1>3 DEF GetName
  <2>2. idxAtBuffer' \in 1..Len(file') + 1
        /\ flash' = flash /\ card' = card /\ file' = file /\ saves' = saves
        /\ boots' = boots /\ saved' = saved
      BY <2>1, GotTokenType
  <2>3. Token[1] \in Names
    <3>1. TokenType = "ATT_NAME"
        BY <2>1 DEF GetToken
    <3>2. \E n \in Names : Token = << n >>
        BY <3>1 DEF TokenType
    <3> QED BY <3>2
  <2> QED BY <1>3, <2>2, <2>3 DEF GetName, TypeOK, config
<1>4. CASE GetEqual
  <2>1. GetToken("EQUAL", "EQUAL")
      BY <1>4 DEF GetEqual
  <2>2. idxAtBuffer' \in 1..Len(file') + 1
        /\ flash' = flash /\ card' = card /\ file' = file /\ saves' = saves
        /\ boots' = boots /\ saved' = saved
      BY <2>1, GotTokenType
  <2> QED BY <1>4, <2>2 DEF GetEqual, TypeOK, config
<1>5. CASE GetValue
  <2>1. GetToken("VALUE", "VALUE")
      BY <1>5 DEF GetValue
  <2>2. idxAtBuffer' \in 1..Len(file') + 1
        /\ flash' = flash /\ card' = card /\ file' = file /\ saves' = saves
        /\ boots' = boots /\ saved' = saved
      BY <2>1, GotTokenType
  <2>3. Token \in Seq(Symbols)
      BY TokenIs
  <2>4. attValue' \in [Names -> Seq(Symbols)] /\ defined' \in [Names -> BOOLEAN]
      BY <1>5, <2>3 DEF GetValue, TypeOK
  <2> QED BY <1>5, <2>2, <2>4 DEF GetValue, TypeOK
<1>6. CASE EndOfFile
    BY <1>6, ReturnType DEF EndOfFile, TypeOK, config
<1>7. CASE Unexpected
    BY <1>7, ReturnType DEF Unexpected, TypeOK, config
<1>8. CASE SetAndSave
  <2>1. saves' \in 0..MaxSaves
      BY <1>8, BoundsAssumption DEF SetAndSave, TypeOK
  <2>2. attValue' \in [Names -> Seq(Symbols)] /\ defined' \in [Names -> BOOLEAN]
        /\ UNCHANGED << card, phase, parser, returnValFlash, boots >>
      BY <1>8, SetType DEF SetAndSave
  <2>3. saved' \in [Names -> Seq(Symbols)] /\ flash' \in Seq(Symbols)
      BY <1>8, SavedText
  <2> QED BY <2>1, <2>2, <2>3 DEF TypeOK, parser
<1>9. CASE SetOnly
  <2>1. saves' \in 0..MaxSaves
      BY <1>9, BoundsAssumption DEF SetOnly, TypeOK
  <2>2. attValue' \in [Names -> Seq(Symbols)] /\ defined' \in [Names -> BOOLEAN]
        /\ UNCHANGED << card, phase, parser, returnValFlash, boots >>
      BY <1>9, SetType DEF SetOnly
  <2> QED BY <1>9, <2>1, <2>2 DEF SetOnly, TypeOK, parser
<1>10. CASE Reset
  <2>1. boots' \in 0..MaxBoots
      BY <1>10, BoundsAssumption DEF Reset, TypeOK
  <2> QED BY <1>10, <2>1 DEF Reset, TypeOK, files, parser, config
<1>11. CASE RemoveCard
    BY <1>11 DEF RemoveCard, TypeOK, parser, config, bounds
<1>12. CASE UNCHANGED vars
    BY <1>12 DEF vars, TypeOK, files, parser, config, bounds
<1>13. CASE SetTwice
  <2>1. Token \in Seq(Symbols)
      BY TokenIs
  <2>2. attValue' \in [Names -> Seq(Symbols)] /\ defined' \in [Names -> BOOLEAN]
      BY <1>13, <2>1 DEF SetTwice, TypeOK
  <2> QED BY <1>13, <2>2, ReturnType DEF SetTwice
<1> QED BY <1>1, <1>2, <1>3, <1>4, <1>5, <1>6, <1>7, <1>8, <1>9, <1>10, <1>11, <1>12, <1>13
        DEF Next, ParseStep

\* Whatever the files hold: the parser never looks beyond the end of its buffer,
\* and what is set and saved are values of the known attributes.
THEOREM TypeCorrect == Spec => []TypeOK
<1>1. Init => TypeOK
    BY TypeInit
<1>2. TypeOK /\ [Next]_vars => TypeOK'
    BY TypeStep
<1> QED BY <1>1, <1>2, PTL DEF Spec

-----------------------------------------------------------------------------
\* Where the parser finds the lines and the parts of a line.

LEMMA GreatestNat ==
  ASSUME NEW m \in Nat, NEW S \in SUBSET (1..m), S # {}
  PROVE  \E x \in S : \A y \in S : y <= x
<1> DEFINE T == {m - y : y \in S}
<1>1. \A y \in S : y \in Nat /\ y <= m
    OBVIOUS
<1>2. \A y \in S : m - y \in Nat
    BY <1>1
<1>3. T \in SUBSET Nat /\ T # {}
    BY <1>2
<1>4. PICK k \in T : \A n \in T : k <= n
    BY <1>3, LeastNat
<1>5. PICK x \in S : k = m - x
    OBVIOUS
<1>6. ASSUME NEW y \in S PROVE y <= x
  <2>1. m - x <= m - y
      BY <1>4, <1>5
  <2> QED BY <1>1, <2>1
<1> QED BY <1>6

LEMMA MaxIs ==
  ASSUME NEW S \in SUBSET Int, NEW m \in S, \A n \in S : n <= m
  PROVE  Max(S) = m /\ Text!Max(S) = m
<1>1. \A x \in S : (\A y \in S : x >= y) => x = m
    OBVIOUS
<1> QED BY <1>1 DEF Max, Text!Max

\* A line with nothing but white space, and so no setting.
LEMMA OnlySpace ==
  ASSUME NEW f \in Seq(Symbols), NEW i \in 1..Len(f),
         \A k \in i..End(f, i) - 1 : f[k] \in WhiteSpace
  PROVE  EmptyAt(f, i)
<1>1. Len(f) \in Nat /\ i \in 1..Len(f) + 1
    BY SeqPlaces
<1>2. End(f, i) \in i..Len(f) + 1 /\ \A j \in i..End(f, i) - 1 : f[j] \notin LineEnds
    BY <1>1, EndIs
<1>3. First(f, i) \in i..End(f, i)
    BY LineIs
<1>4. First(f, i) = Len(f) + 1 \/ f[First(f, i)] \in Dark
    BY <1>1, PlaceIs DEF First, IsPlace
<1> SUFFICES ASSUME First(f, i) # End(f, i) PROVE FALSE
    BY DEF EmptyAt
<1> HIDE DEF First, End
<1>5. First(f, i) \in i..End(f, i) - 1 /\ First(f, i) # Len(f) + 1
    BY <1>1, <1>2, <1>3
<1>6. f[First(f, i)] \in WhiteSpace /\ f[First(f, i)] \notin LineEnds
    BY <1>2, <1>5
<1> QED BY <1>4, <1>5, <1>6 DEF Dark, WhiteSpace

Visible == Symbols \ WhiteSpace

\* From the end of a line the parser comes to the first symbol of the next line
\* that has one.
LEMMA LineFound ==
  ASSUME NEW f \in Seq(Symbols), NEW i \in 1..Len(f),
         i = 1 \/ f[i] \in LineEnds,
         NEW p \in i..Len(f), IsPlace(f, i, Visible, p)
  PROVE  \E s \in Text!LineStarts(f) :
           /\ s \in i..p /\ First(f, s) = p /\ p \in s..End(f, s) - 1
           /\ \A j \in Text!LineStarts(f) : j \in i..s - 1 => EmptyAt(f, j)
<1> DEFINE S == {k \in i..p : k \in Text!LineStarts(f)}
<1>1. /\ Len(f) \in Nat /\ DOMAIN f = 1..Len(f)
      /\ \A j \in 1..Len(f) : f[j] \in Symbols
    BY SeqPlaces
<1>2. Text!LineStarts(f) = {j \in 1..Len(f) : j = 1 \/ f[j - 1] \in LineEnds}
    BY <1>1 DEF Text!LineStarts
<1>3. f[p] \in Visible /\ \A j \in i..p - 1 : f[j] \notin Visible
    BY <1>1 DEF IsPlace
<1>4. \A j \in i..p - 1 : j \in 1..Len(f) /\ f[j] \in WhiteSpace
  <2> TAKE j \in i..p - 1
  <2>1. j \in 1..Len(f)
      BY <1>1
  <2> QED BY <1>1, <1>3, <2>1 DEF Visible
<1>5. S # {}
  <2>1. CASE i = 1
    <3>1. 1 \in i..p /\ 1 \in 1..Len(f)
        BY <1>1, <2>1
    <3> QED BY <1>2, <3>1
  <2>2. CASE f[i] \in LineEnds
    <3>1. p # i
        BY <1>3, <2>2 DEF Visible, WhiteSpace
    <3>2. i + 1 \in i..p /\ i + 1 \in 1..Len(f) /\ (i + 1) - 1 = i
        BY <1>1, <3>1
    <3>3. i + 1 \in Text!LineStarts(f)
        BY <1>2, <2>2, <3>2
    <3> QED BY <3>2, <3>3
  <2> QED BY <2>1, <2>2
<1>6. S \in SUBSET (1..Len(f))
    BY <1>2
<1>7. PICK s \in S : \A k \in S : k <= s
    BY <1>1, <1>5, <1>6, GreatestNat
<1>8. s \in Text!LineStarts(f) /\ s \in i..p /\ s \in 1..Len(f)
    BY <1>2
<1>9. \A k \in s..p - 1 : f[k] \notin LineEnds
  <2> SUFFICES ASSUME NEW k \in s..p - 1, f[k] \in LineEnds PROVE FALSE
      OBVIOUS
  <2>1. k + 1 \in i..p /\ k + 1 \in 1..Len(f) /\ (k + 1) - 1 = k /\ ~(k + 1 <= s)
      BY <1>1, <1>8
  <2>2. k + 1 \in S
      BY <1>2, <2>1
  <2> HIDE DEF S
  <2> QED BY <1>7, <2>1, <2>2
<1> HIDE DEF S
<1>10. \A k \in s..p - 1 : f[k] \in Space
  <2> TAKE k \in s..p - 1
  <2>1. k \in i..p - 1
      BY <1>1, <1>8
  <2> QED BY <1>4, <1>9, <2>1 DEF WhiteSpace
<1>11. First(f, s) = p
  <2>1. p \in s..Len(f) + 1 /\ s \in 1..Len(f) + 1
      BY <1>1, <1>8
  <2>2. IsPlace(f, s, Dark, p)
      BY <1>3, <1>10, <2>1 DEF IsPlace, Dark, Visible, WhiteSpace
  <2> QED BY <1>1, <2>1, <2>2, PlaceUnique DEF First
<1>12. p \in s..End(f, s) - 1
  <2>1. End(f, s) \in s..Len(f) + 1 /\ (End(f, s) = Len(f) + 1 \/ f[End(f, s)] \in LineEnds)
      BY <1>1, <1>8, EndIs
  <2>2. f[p] \notin LineEnds
      BY <1>3 DEF Visible, WhiteSpace
  <2> HIDE DEF End
  <2>3. ASSUME End(f, s) <= p PROVE FALSE
    <3>1. End(f, s) \in s..p /\ End(f, s) # Len(f) + 1
        BY <1>1, <1>8, <2>1, <2>3
    <3>2. End(f, s) # p
        BY <2>1, <2>2, <3>1
    <3>3. End(f, s) \in s..p - 1
        BY <1>1, <1>8, <3>1, <3>2
    <3> QED BY <1>9, <2>1, <3>1, <3>3
  <2> QED BY <1>1, <1>8, <2>1, <2>3
<1>13. ASSUME NEW j \in Text!LineStarts(f), j \in i..s - 1 PROVE EmptyAt(f, j)
  <2>1. j \in 1..Len(f) /\ j \in 1..Len(f) + 1 /\ s # 1
      BY <1>1, <1>2, <1>8, <1>13
  <2>2. s - 1 \in j..Len(f) /\ f[s - 1] \in LineEnds
      BY <1>1, <1>2, <1>8, <1>13, <2>1
  <2>3. End(f, j) \in j..Len(f) + 1 /\ \A k \in j..End(f, j) - 1 : f[k] \notin LineEnds
      BY <2>1, EndIs
  <2> HIDE DEF End
  <2>4. End(f, j) <= s - 1
    <3>1. s - 1 \notin j..End(f, j) - 1
        BY <2>2, <2>3
    <3> QED BY <1>1, <1>8, <2>1, <2>2, <2>3, <3>1
  <2>5. \A k \in j..End(f, j) - 1 : f[k] \in WhiteSpace
    <3> TAKE k \in j..End(f, j) - 1
    <3>1. k \in i..p - 1
        BY <1>1, <1>8, <1>13, <2>1, <2>3, <2>4
    <3> QED BY <1>4, <3>1
  <2> QED BY <2>1, <2>5, OnlySpace
<1> QED BY <1>8, <1>11, <1>12, <1>13

LEMMA NothingLeft ==
  ASSUME NEW f \in Seq(Symbols), NEW i \in 1..Len(f) + 1,
         IsPlace(f, i, Visible, Len(f) + 1),
         NEW j \in i..Len(f)
  PROVE  EmptyAt(f, j)
<1>1. Len(f) \in Nat /\ \A k \in 1..Len(f) : f[k] \in Symbols
    BY SeqPlaces
<1>2. j \in 1..Len(f) /\ j \in 1..Len(f) + 1
    BY <1>1
<1>3. End(f, j) \in j..Len(f) + 1
    BY <1>2, EndIs
<1> HIDE DEF End
<1>4. ASSUME NEW k \in j..End(f, j) - 1 PROVE f[k] \in WhiteSpace
  <2>1. k \in 1..Len(f) /\ k \in i..(Len(f) + 1) - 1
      BY <1>1, <1>2, <1>3
  <2> QED BY <1>1, <2>1 DEF IsPlace, Visible
<1> QED BY <1>2, <1>4, OnlySpace

\* The next line begins after the end of this one.
LEMMA NextLine ==
  ASSUME NEW f \in Seq(Symbols), NEW i \in 1..Len(f), NEW j \in Text!LineStarts(f),
         i < j
  PROVE  End(f, i) < j
<1>1. Len(f) \in Nat /\ DOMAIN f = 1..Len(f) /\ i \in 1..Len(f) + 1
    BY SeqPlaces
<1>2. j \in 1..Len(f) /\ j # 1 /\ f[j - 1] \in LineEnds
    BY <1>1 DEF Text!LineStarts
<1>3. End(f, i) \in i..Len(f) + 1 /\ \A k \in i..End(f, i) - 1 : f[k] \notin LineEnds
    BY <1>1, EndIs
<1> HIDE DEF End
<1>4. j - 1 \notin i..End(f, i) - 1
    BY <1>2, <1>3
<1> QED BY <1>1, <1>2, <1>3, <1>4

\* The parts of a setting, where the parser looks for them.
LEMMA SettingIs ==
  ASSUME NEW f \in Seq(Symbols), NEW i \in 1..Len(f), SettingAt(f, i)
  PROVE  /\ First(f, i) \in i..Len(f) /\ f[First(f, i)] \in Names
         /\ EqualAt(f, i) \in First(f, i) + 1..Len(f) /\ f[EqualAt(f, i)] = "="
         /\ ValueAt(f, i) \in EqualAt(f, i) + 1..End(f, i)
         /\ End(f, i) \in EqualAt(f, i) + 1..Len(f) + 1
         /\ IsPlace(f, First(f, i), {"\n", "\r", "\t", " ", "="}, First(f, i) + 1)
         /\ IsPlace(f, First(f, i) + 1, Visible, EqualAt(f, i))
         /\ IsPlace(f, EqualAt(f, i) + 1, Dark, ValueAt(f, i))
<1> DEFINE q == First(f, i)
           b == EqualAt(f, i)
           v == ValueAt(f, i)
           e == End(f, i)
<1>1. /\ Len(f) \in Nat /\ i \in 1..Len(f) + 1
      /\ \A k \in 1..Len(f) : f[k] \in Symbols
    BY SeqPlaces
<1>2. e \in i..Len(f) + 1 /\ \A k \in i..e - 1 : f[k] \notin LineEnds
    BY <1>1, EndIs
<1>3. q \in i..e
    BY LineIs
<1>4. b \in q + 1..e - 1 /\ v \in b + 1..e
    BY LineKinds
<1>5. f[q] \in Names /\ f[b] = "="
    BY DEF SettingAt
<1>6. b = Place(f, q + 1, Dark) /\ v = Place(f, b + 1, Dark)
    BY DEF EqualAt, ValueAt
<1> HIDE DEF q, b, v, e
<1>7. q \in i..Len(f) /\ b \in q + 1..Len(f) /\ e \in b + 1..Len(f) + 1
      /\ q + 1 \in 1..Len(f) + 1 /\ b + 1 \in 1..Len(f) + 1 /\ q + 1 <= b
    BY <1>1, <1>2, <1>3, <1>4
<1>8. IsPlace(f, q + 1, Dark, b) /\ IsPlace(f, b + 1, Dark, v)
    BY <1>1, <1>6, <1>7, PlaceIs
<1>9. \A k \in q + 1..b - 1 : f[k] \in Space
  <2> TAKE k \in q + 1..b - 1
  <2>1. k \in 1..Len(f)
      BY <1>1, <1>7
  <2> QED BY <1>1, <1>8, <2>1 DEF IsPlace, Dark
<1>10. IsPlace(f, q + 1, Visible, b)
  <2>1. b \in q + 1..Len(f) + 1
      BY <1>1, <1>7
  <2>2. f[b] \in Visible
      BY <1>5, SymbolsAre DEF Visible, WhiteSpace, LineEnds, Space, LineEnds
  <2>3. \A k \in q + 1..b - 1 : f[k] \notin Visible
      BY <1>9 DEF Visible, WhiteSpace
  <2> QED BY <2>1, <2>2, <2>3 DEF IsPlace
<1>11. IsPlace(f, q, {"\n", "\r", "\t", " ", "="}, q + 1)
  <2>1. q + 1 \in q..Len(f) + 1
      BY <1>1, <1>7
  <2>2. f[q + 1] \in {"\n", "\r", "\t", " ", "="}
    <3>1. CASE q + 1 = b
        BY <1>5, <3>1
    <3>2. CASE q + 1 # b
      <4>1. q + 1 \in q + 1..b - 1
          BY <1>1, <1>7, <3>2
      <4> QED BY <1>9, <4>1 DEF Space
    <3> QED BY <3>1, <3>2
  <2>3. \A k \in q..(q + 1) - 1 : f[k] \notin {"\n", "\r", "\t", " ", "="}
    <3>1. \A k \in q..(q + 1) - 1 : k = q
        BY <1>1, <1>7
    <3> QED BY <1>5, <3>1, SymbolsAre
  <2> QED BY <2>1, <2>2, <2>3 DEF IsPlace
<1> QED BY <1>4, <1>5, <1>7, <1>8, <1>10, <1>11 DEF q, b, v, e

\* A value, as the parser takes it.
LEMMA ValueIs ==
  ASSUME NEW f \in Seq(Symbols), NEW i \in 1..Len(f), SettingAt(f, i),
         Text!IsValue(ValuePart(f, i))
  PROVE  /\ ValueAt(f, i) \in 1..Len(f) /\ f[ValueAt(f, i)] # "="
         /\ ValueAt(f, i) # End(f, i)
         /\ IsPlace(f, ValueAt(f, i), {"\n", "\r", "\t"}, End(f, i))
<1> DEFINE v == ValueAt(f, i)
           e == End(f, i)
           w == ValuePart(f, i)
<1>1. Len(f) \in Nat /\ i \in 1..Len(f) + 1
    BY SeqPlaces
<1>2. /\ e \in i..Len(f) + 1 /\ (e = Len(f) + 1 \/ f[e] \in LineEnds)
      /\ \A k \in i..e - 1 : f[k] \notin LineEnds
    BY <1>1, EndIs
<1>3. v \in EqualAt(f, i) + 1..e /\ EqualAt(f, i) \in First(f, i) + 1..Len(f)
      /\ First(f, i) \in i..Len(f)
    BY SettingIs
<1>4. w = SubSeq(f, v, e - 1)
    BY DEF ValuePart
<1> HIDE DEF v, e, w
<1>5. v \in i..e /\ v \in 1..Len(f) + 1 /\ e \in v..Len(f) + 1 /\ e - v \in Nat
  <2>1. EqualAt(f, i) \in Nat /\ EqualAt(f, i) > i
      BY <1>1, <1>3
  <2> HIDE DEF EqualAt
  <2> QED BY <1>1, <1>2, <1>3, <2>1
<1>6. w \in Seq(Symbols) /\ Len(w) = e - v
    BY <1>4, <1>5, PartIs
<1>7. \A k \in 1..e - v : w[k] = f[v + k - 1]
    BY <1>4, <1>5, PartIs
<1>8. w # << >> /\ Head(w) # "=" /\ \A k \in DOMAIN w : w[k] # "\t" /\ w[k] \notin LineEnds
    BY DEF Text!IsValue, Text!ToSet, w
<1>9. v # e
  <2>1. SubSeq(f, e, e - 1) = << >>
      BY <1>1, <1>2, SubSeqEmpty
  <2> QED BY <1>4, <1>8, <2>1
<1>10. v \in 1..Len(f) /\ v \in i..e - 1 /\ e \in v + 1..Len(f) + 1
    BY <1>1, <1>5, <1>9
<1>11. Head(w) = f[v]
    BY <1>4, <1>10, HeadTailOfPart
<1>12. \A k \in v..e - 1 : f[k] \notin {"\n", "\r", "\t"}
  <2> TAKE k \in v..e - 1
  <2>1. k - v + 1 \in 1..e - v /\ v + (k - v + 1) - 1 = k
      BY <1>1, <1>5
  <2>2. DOMAIN w = 1..e - v
      BY <1>6, LenProperties
  <2>3. w[k - v + 1] = f[k]
      BY <1>7, <2>1
  <2> QED BY <1>8, <2>1, <2>2, <2>3 DEF LineEnds
<1>13. IsPlace(f, v, {"\n", "\r", "\t"}, e)
    BY <1>2, <1>5, <1>12 DEF IsPlace, LineEnds
<1> QED BY <1>8, <1>9, <1>10, <1>11, <1>13 DEF v, e

-----------------------------------------------------------------------------
\* How far a file without mistakes was read, and what came of it.

\* What was there before this file was read.
Before(n) ==
  /\ phase = "flash" => ~defined[n]
  /\ phase = "card" /\ FlashGood =>
       /\ defined[n] <=> IsSet(flash, n)
       /\ IsSet(flash, n) => attValue[n] = Text!Written(flash, n)

\* The settings of n that begin before x.
Made(n, x) == {i \in Text!Settings(file, n) : i < x}

\* They are read, and the last one counts.
ReadUpTo(x) ==
  \A n \in Names :
    /\ Made(n, x) # {} =>
         /\ defined[n]
         /\ attValue[n] = Text!ValueIn(Text!LineAt(file, Max(Made(n, x))))
    /\ Made(n, x) = {} => Before(n)

\* In the middle of the setting of the line that begins at s.
InSetting(s) ==
  /\ s \in Text!LineStarts(file) /\ SettingAt(file, s)
  /\ currentConfigToSet = file[First(file, s)]
  /\ ReadUpTo(s)

\* A line was read to its end, or to its name, or to its "=".
Progress ==
  /\ state = "NAME" =>
       /\ idxAtBuffer = 1 \/ idxAtBuffer = Len(file) + 1 \/ file[idxAtBuffer] \in LineEnds
       /\ ReadUpTo(idxAtBuffer)
  /\ state = "EQUAL" =>
       \E s \in 1..Len(file) : InSetting(s) /\ idxAtBuffer = First(file, s) + 1
  /\ state = "VALUE" =>
       \E s \in 1..Len(file) : InSetting(s) /\ idxAtBuffer = EqualAt(file, s) + 1

Source ==
  /\ phase = "flash" => flash # NoFile /\ file = flash
  /\ phase = "card" => card # NoFile /\ file = Append(card, "\n")

ParseInv ==
  /\ TypeOK
  /\ Source
  /\ Parsing /\ Text!WellFormed(file) => Progress
  /\ phase = "card" /\ flash # NoFile /\ FlashGood => returnValFlash
  /\ OneGoodFileIsEnough

LEMMA SettingsAre ==
  ASSUME NEW f \in Seq(Symbols), NEW n \in Names
  PROVE  /\ Text!LineStarts(f) \subseteq 1..Len(f)
         /\ Text!Settings(f, n) =
              {i \in Text!LineStarts(f) : SettingAt(f, i) /\ f[First(f, i)] = n}
<1>1. Text!LineStarts(f) \subseteq 1..Len(f)
    BY SeqPlaces DEF Text!LineStarts
<1>2. \A i \in Text!LineStarts(f) :
        /\ Text!IsSetting(Text!LineAt(f, i)) <=> SettingAt(f, i)
        /\ SettingAt(f, i) => Head(Text!LineAt(f, i)) = f[First(f, i)]
    BY <1>1, LineKinds
<1> QED BY <1>1, <1>2 DEF Text!Settings

\* What lies between the settings changes nothing.
LEMMA ReadOn ==
  ASSUME TypeOK, NEW x \in Int, NEW y \in Int, x <= y, ReadUpTo(x),
         \A j \in Text!LineStarts(file) : j \in x..y - 1 => ~SettingAt(file, j)
  PROVE  ReadUpTo(y)
<1>1. file \in Seq(Symbols) /\ Len(file) \in Nat
    BY SeqPlaces DEF TypeOK
<1>2. ASSUME NEW n \in Names PROVE Made(n, x) = Made(n, y)
  <2>1. Text!LineStarts(file) \subseteq 1..Len(file)
        /\ Text!Settings(file, n) \subseteq Text!LineStarts(file)
        /\ \A j \in Text!Settings(file, n) : SettingAt(file, j)
      BY <1>1, SettingsAre
  <2>2. \A j \in Text!Settings(file, n) : j < x <=> j < y
    <3> TAKE j \in Text!Settings(file, n)
    <3>1. j \in 1..Len(file) /\ j \notin x..y - 1
        BY <2>1
    <3> QED BY <1>1, <3>1
  <2> QED BY <2>2 DEF Made
<1> QED BY <1>2 DEF ReadUpTo

\* At the beginning of a file nothing is read.
LEMMA ReadNothing ==
  ASSUME TypeOK, \A n \in Names : Before(n)
  PROVE  ReadUpTo(1)
<1>1. file \in Seq(Symbols) /\ Len(file) \in Nat
    BY SeqPlaces DEF TypeOK
<1>2. ASSUME NEW n \in Names PROVE Made(n, 1) = {}
  <2>1. \A j \in Text!Settings(file, n) : j \in 1..Len(file)
      BY <1>1, SettingsAre
  <2>2. \A j \in Text!Settings(file, n) : ~(j < 1)
      BY <1>1, <2>1
  <2> QED BY <2>2 DEF Made
<1> QED BY <1>2 DEF ReadUpTo

\* At the end of a file everything is read.
LEMMA AllRead ==
  ASSUME TypeOK, NEW n \in Names
  PROVE  Made(n, Len(file) + 1) = Text!Settings(file, n)
<1>1. file \in Seq(Symbols) /\ Len(file) \in Nat
    BY SeqPlaces DEF TypeOK
<1>2. \A j \in Text!Settings(file, n) : j \in 1..Len(file)
    BY <1>1, SettingsAre
<1>3. \A j \in Text!Settings(file, n) : j < Len(file) + 1
    BY <1>1, <1>2
<1> QED BY <1>3 DEF Made

-----------------------------------------------------------------------------
\* What the next token of a file without mistakes is.

LEMMA TokenAt ==
  ASSUME TypeOK, NEW p \in 1..Len(file) + 1,
         IsPlace(file, idxAtBuffer,
                 IF state = "VALUE" THEN Dark ELSE Visible, p)
  PROVE  Start = p
<1>1. Len(file) \in Nat /\ idxAtBuffer \in 1..Len(file) + 1
    BY SeqPlaces DEF TypeOK
<1>2. Symbols \ (IF state = "VALUE" THEN Space ELSE WhiteSpace) =
        IF state = "VALUE" THEN Dark ELSE Visible
    BY DEF Dark, Visible
<1>3. Start = Place(file, idxAtBuffer, IF state = "VALUE" THEN Dark ELSE Visible)
    BY <1>2 DEF Start, Find, Place
<1> QED BY <1>1, <1>3, PlaceUnique

LEMMA FoundAt ==
  ASSUME TypeOK, NEW i \in 1..Len(file) + 1, NEW symbols, NEW p,
         IsPlace(file, i, symbols, p)
  PROVE  Find(i, symbols) = p
<1>1. Len(file) \in Nat
    BY SeqPlaces DEF TypeOK
<1>2. Find(i, symbols) = Place(file, i, symbols)
    BY DEF Find, Place
<1> QED BY <1>1, <1>2, PlaceUnique

LEMMA AtNameEnd ==
  ASSUME TypeOK, Progress, state = "NAME", Start = Len(file) + 1
  PROVE  /\ ~InComment /\ TokenType = "EOF"
         /\ ReadUpTo(Len(file) + 1)
<1>1. file \in Seq(Symbols) /\ Len(file) \in Nat /\ idxAtBuffer \in 1..Len(file) + 1
    BY SeqPlaces DEF TypeOK
<1>2. At(Start) = "NUL"
    BY <1>1 DEF At
<1>3. Token = << >>
  <2>1. Token = SubSeq(file, Start, Find(Start, Stops) - 1)
      BY <1>2, TokenIs
  <2>2. Find(Start, Stops) \in Start..Len(file) + 1
      BY <1>1, FindIs
  <2>3. Find(Start, Stops) = Len(file) + 1
    <3> HIDE DEF Find
    <3> QED BY <1>1, <2>2
  <2> QED BY <1>1, <2>1, <2>3, SubSeqEmpty
<1>4. IsPlace(file, idxAtBuffer, Visible, Len(file) + 1)
  <2>1. IsPlace(file, idxAtBuffer, Symbols \ WhiteSpace, Start)
      BY <1>1, FindIs DEF Start
  <2> QED BY <2>1 DEF Visible
<1>5. \A j \in Text!LineStarts(file) :
        j \in idxAtBuffer..(Len(file) + 1) - 1 => ~SettingAt(file, j)
  <2> SUFFICES ASSUME NEW j \in Text!LineStarts(file),
                      j \in idxAtBuffer..(Len(file) + 1) - 1
               PROVE  ~SettingAt(file, j)
      OBVIOUS
  <2>1. j \in idxAtBuffer..Len(file)
      BY <1>1
  <2>2. EmptyAt(file, j)
      BY <1>1, <1>4, <2>1, NothingLeft
  <2> QED BY <2>2 DEF EmptyAt, SettingAt
<1>6. ReadUpTo(idxAtBuffer)
    BY DEF Progress
<1>7. ReadUpTo(Len(file) + 1)
  <2>1. idxAtBuffer \in Int /\ Len(file) + 1 \in Int /\ idxAtBuffer <= Len(file) + 1
      BY <1>1
  <2> QED BY <1>5, <1>6, <2>1, ReadOn
<1> QED BY <1>2, <1>3, <1>7 DEF InComment, TokenType

LEMMA AtNameLine ==
  ASSUME TypeOK, Progress, Text!WellFormed(file), state = "NAME", Start # Len(file) + 1
  PROVE  \E s \in Text!LineStarts(file) :
           /\ s \in 1..Len(file) /\ Start = First(file, s) /\ ReadUpTo(s)
           /\ \/ /\ InComment /\ file[First(file, s)] = "#"
                 /\ Find(Start, LineEnds) = End(file, s)
              \/ /\ ~InComment /\ TokenType = "ATT_NAME"
                 /\ SettingAt(file, s) /\ Text!IsValue(ValuePart(file, s))
                 /\ Token = << file[First(file, s)] >> /\ Len(Token) = 1
<1>1. file \in Seq(Symbols) /\ Len(file) \in Nat /\ idxAtBuffer \in 1..Len(file) + 1
      /\ \A j \in 1..Len(file) : file[j] \in Symbols
    BY SeqPlaces DEF TypeOK
<1> DEFINE p == Start
<1>2. p \in idxAtBuffer..Len(file) + 1 /\ IsPlace(file, idxAtBuffer, Visible, p)
  <2>1. IsPlace(file, idxAtBuffer, Symbols \ WhiteSpace, Start)
      BY <1>1, FindIs DEF Start
  <2> QED BY <2>1, TokenIs DEF Visible
<1>3. p # Len(file) + 1
    OBVIOUS
<1> HIDE DEF p
<1>4. p \in idxAtBuffer..Len(file) /\ idxAtBuffer \in 1..Len(file)
      /\ p \in 1..Len(file) /\ p \in 1..Len(file) + 1
    BY <1>1, <1>2, <1>3
<1>5. idxAtBuffer = 1 \/ file[idxAtBuffer] \in LineEnds
  <2>1. idxAtBuffer # Len(file) + 1
      BY <1>1, <1>4
  <2> QED BY <2>1 DEF Progress
<1>6. PICK s \in Text!LineStarts(file) :
        /\ s \in idxAtBuffer..p /\ First(file, s) = p /\ p \in s..End(file, s) - 1
        /\ \A j \in Text!LineStarts(file) : j \in idxAtBuffer..s - 1 => EmptyAt(file, j)
    BY <1>1, <1>2, <1>4, <1>5, LineFound
<1>7. s \in 1..Len(file) /\ s \in Int /\ idxAtBuffer \in Int /\ idxAtBuffer <= s
    BY <1>1, <1>4, <1>6
<1>8. ReadUpTo(s)
  <2>1. \A j \in Text!LineStarts(file) : j \in idxAtBuffer..s - 1 => ~SettingAt(file, j)
      BY <1>6 DEF EmptyAt, SettingAt
  <2>2. ReadUpTo(idxAtBuffer)
      BY DEF Progress
  <2> QED BY <1>7, <2>1, <2>2, ReadOn
<1>9. ~EmptyAt(file, s)
  <2>1. End(file, s) \in s..Len(file) + 1
      BY <1>1, <1>7, EndIs
  <2> HIDE DEF End
  <2>2. First(file, s) # End(file, s)
      BY <1>1, <1>6, <2>1
  <2> QED BY <2>2 DEF EmptyAt
<1>10. At(Start) = file[p]
    BY <1>1, <1>4 DEF At, p
<1>11. CASE file[p] = "#"
  <2>1. InComment
      BY <1>10, <1>11 DEF InComment
  <2>2. Find(Start, LineEnds) = End(file, s)
    <3>1. End(file, s) \in s..Len(file) + 1
          /\ (End(file, s) = Len(file) + 1 \/ file[End(file, s)] \in LineEnds)
          /\ \A j \in s..End(file, s) - 1 : file[j] \notin LineEnds
        BY <1>1, <1>7, EndIs
    <3>2. p \in s..End(file, s) - 1
        BY <1>6
    <3> HIDE DEF End
    <3>3. End(file, s) \in p..Len(file) + 1
        BY <1>1, <1>7, <3>1, <3>2
    <3>4. \A j \in p..End(file, s) - 1 : j \in s..End(file, s) - 1
        BY <1>1, <1>7, <3>1, <3>2
    <3>5. IsPlace(file, p, LineEnds, End(file, s))
        BY <3>1, <3>3, <3>4 DEF IsPlace
    <3> QED BY <1>4, <3>5, FoundAt DEF p
  <2> QED BY <1>6, <1>7, <1>8, <1>11, <2>1, <2>2 DEF p
<1>12. CASE file[p] # "#"
  <2>1. SettingAt(file, s) /\ Text!IsValue(ValuePart(file, s))
    <3>1. \/ Text!Ignored(Text!LineAt(file, s))
          \/ /\ Text!IsSetting(Text!LineAt(file, s))
             /\ Text!IsValue(Text!ValueIn(Text!LineAt(file, s)))
        BY DEF Text!WellFormed
    <3>2. /\ Text!Ignored(Text!LineAt(file, s)) <=> EmptyAt(file, s) \/ file[First(file, s)] = "#"
          /\ Text!IsSetting(Text!LineAt(file, s)) <=> SettingAt(file, s)
          /\ SettingAt(file, s) => Text!ValueIn(Text!LineAt(file, s)) = ValuePart(file, s)
        BY <1>1, <1>7, LineKinds
    <3> QED BY <1>6, <1>9, <1>12, <3>1, <3>2
  <2>2. ~InComment
      BY <1>10, <1>12 DEF InComment
  <2>3. file[p] \in Names /\ IsPlace(file, p, {"\n", "\r", "\t", " ", "="}, p + 1)
      BY <1>1, <1>6, <1>7, <2>1, SettingIs
  <2>4. file[p] # "="
      BY <2>3, SymbolsAre
  <2>5. Token = SubSeq(file, p, Find(p, Stops) - 1)
      BY <1>10, <2>4, TokenIs DEF p
  <2>6. Find(p, Stops) = p + 1
    <3>1. Stops = {"\n", "\r", "\t", " ", "="}
        BY DEF Stops, LineEnds
    <3> QED BY <1>4, <2>3, <3>1, FoundAt
  <2>7. Token = << file[p] >> /\ Len(Token) = 1
    <3>1. p + 1 \in p..Len(file) + 1 /\ (p + 1) - p = 1 /\ p + 1 - 1 = p
        BY <1>1, <1>4
    <3>2. Token \in Seq(Symbols) /\ Len(Token) = 1
        BY <1>1, <1>4, <2>5, <2>6, <3>1, PartIs
    <3>3. Token[1] = file[p]
      <4>1. \A k \in 1..1 : Token[k] = file[p + k - 1]
          BY <1>1, <1>4, <2>5, <2>6, <3>1, PartIs
      <4> QED BY <3>1, <4>1
    <3>4. << file[p] >> \in Seq(Symbols) /\ Len(<< file[p] >>) = 1
          /\ << file[p] >>[1] = file[p]
        BY <1>1, <1>4
    <3>5. \A k \in 1..Len(Token) : Token[k] = << file[p] >>[k]
      <4>1. \A k \in 1..Len(Token) : k = 1
          BY <3>2
      <4> QED BY <3>3, <3>4, <4>1
    <3> QED BY <3>2, <3>4, <3>5, SeqEqual
  <2>8. TokenType = "ATT_NAME"
    <3>1. Token # << >>
        BY <2>7, EmptySeq
    <3> QED BY <1>10, <2>3, <2>4, <2>7, <3>1 DEF TokenType
  <2> QED BY <1>6, <1>7, <1>8, <2>1, <2>2, <2>7, <2>8 DEF p
<1> QED BY <1>11, <1>12

LEMMA AtEqual ==
  ASSUME TypeOK, state = "EQUAL", NEW s \in 1..Len(file), SettingAt(file, s),
         idxAtBuffer = First(file, s) + 1
  PROVE  /\ Start = EqualAt(file, s) /\ TokenType = "EQUAL" /\ Len(Token) = 1
         /\ ~InComment
<1>1. file \in Seq(Symbols) /\ Len(file) \in Nat
    BY SeqPlaces DEF TypeOK
<1>2. EqualAt(file, s) \in First(file, s) + 1..Len(file) /\ file[EqualAt(file, s)] = "="
      /\ First(file, s) \in s..Len(file)
      /\ IsPlace(file, First(file, s) + 1, Visible, EqualAt(file, s))
    BY <1>1, SettingIs
<1>3. EqualAt(file, s) \in 1..Len(file) + 1 /\ EqualAt(file, s) <= Len(file)
  <2> HIDE DEF EqualAt, First
  <2> QED BY <1>1, <1>2
<1>4. Start = EqualAt(file, s)
    BY <1>2, <1>3, TokenAt
<1>5. At(Start) = "="
    BY <1>2, <1>3, <1>4 DEF At
<1> QED BY <1>4, <1>5, TokenIs DEF TokenType, InComment

LEMMA AtValue ==
  ASSUME TypeOK, state = "VALUE", NEW s \in 1..Len(file), SettingAt(file, s),
         Text!IsValue(ValuePart(file, s)), idxAtBuffer = EqualAt(file, s) + 1
  PROVE  /\ TokenType = "VALUE" /\ Token = ValuePart(file, s)
         /\ Start + Len(Token) = End(file, s)
         /\ ~InComment
<1>1. file \in Seq(Symbols) /\ Len(file) \in Nat
    BY SeqPlaces DEF TypeOK
<1>2. IsPlace(file, EqualAt(file, s) + 1, Dark, ValueAt(file, s))
      /\ End(file, s) \in EqualAt(file, s) + 1..Len(file) + 1
    BY <1>1, SettingIs
<1>3. /\ ValueAt(file, s) \in 1..Len(file) /\ file[ValueAt(file, s)] # "="
      /\ IsPlace(file, ValueAt(file, s), {"\n", "\r", "\t"}, End(file, s))
    BY <1>1, ValueIs
<1> DEFINE v == ValueAt(file, s)
           e == End(file, s)
<1>4. v \in 1..Len(file) + 1 /\ v <= Len(file)
  <2> HIDE DEF v
  <2> QED BY <1>1, <1>3 DEF v
<1>5. Start = v
    BY <1>2, <1>4, TokenAt
<1>6. At(Start) = file[v] /\ At(Start) # "="
    BY <1>3, <1>4, <1>5 DEF At
<1>7. Find(v, Stops) = e
  <2>1. Stops = {"\n", "\r", "\t"}
      BY DEF Stops, LineEnds
  <2> QED BY <1>3, <1>4, <2>1, FoundAt
<1>8. Token = ValuePart(file, s) /\ Len(Token) = e - v
    BY <1>5, <1>6, <1>7, TokenIs DEF ValuePart
<1>9. v + (e - v) = e
  <2>1. e \in v..Len(file) + 1
      BY <1>3 DEF IsPlace
  <2> HIDE DEF v, e
  <2> QED BY <1>1, <1>4, <2>1
<1>10. TokenType = "VALUE"
  <2>1. Token # << >> /\ \A n \in Names : Token # << n >>
      BY <1>8 DEF Text!IsValue
  <2> QED BY <1>6, <2>1 DEF TokenType
<1> QED BY <1>5, <1>8, <1>9, <1>10 DEF InComment

-----------------------------------------------------------------------------
\* Every step of the parser keeps what is known of its progress.

LEMMA SameRead ==
  ASSUME NEW x, ReadUpTo(x), UNCHANGED << phase, file, flash, attValue, defined >>
  PROVE  ReadUpTo(x)'
<1>1. ASSUME NEW n \in Names PROVE Made(n, x)' = Made(n, x) /\ (Before(n) => Before(n)')
    BY DEF Made, Before, FlashGood, IsSet
<1> QED BY <1>1 DEF ReadUpTo

LEMMA GoodSetting ==
  ASSUME NEW f \in Seq(Symbols), Text!WellFormed(f), NEW s \in Text!LineStarts(f),
         SettingAt(f, s)
  PROVE  Text!IsValue(ValuePart(f, s))
<1>1. s \in 1..Len(f)
    BY SeqPlaces DEF Text!LineStarts
<1>2. \/ Text!Ignored(Text!LineAt(f, s))
      \/ /\ Text!IsSetting(Text!LineAt(f, s))
         /\ Text!IsValue(Text!ValueIn(Text!LineAt(f, s)))
    BY DEF Text!WellFormed
<1>3. /\ Text!Ignored(Text!LineAt(f, s)) <=> EmptyAt(f, s) \/ f[First(f, s)] = "#"
      /\ Text!ValueIn(Text!LineAt(f, s)) = ValuePart(f, s)
    BY <1>1, LineKinds
<1>4. ~EmptyAt(f, s) /\ f[First(f, s)] # "#"
    BY SymbolsAre DEF SettingAt, EmptyAt
<1> QED BY <1>2, <1>3, <1>4

LEMMA SkipProgress ==
  ASSUME TypeOK, Progress, Text!WellFormed(file), SkipComment
  PROVE  Progress'
<1>1. file \in Seq(Symbols) /\ Len(file) \in Nat
    BY SeqPlaces DEF TypeOK
<1>2. InComment /\ state = "NAME" /\ At(Start) = "#"
    BY DEF SkipComment, InComment
<1>3. Start # Len(file) + 1
    BY <1>1, <1>2 DEF At
<1>4. PICK s \in Text!LineStarts(file) :
        /\ s \in 1..Len(file) /\ ReadUpTo(s) /\ file[First(file, s)] = "#"
        /\ Find(Start, LineEnds) = End(file, s)
    BY <1>2, <1>3, AtNameLine
<1>5. PICK e \in s..Len(file) + 1 :
        e = End(file, s) /\ (e = Len(file) + 1 \/ file[e] \in LineEnds)
    BY <1>1, <1>4, EndIs
<1>6. \A j \in Text!LineStarts(file) : j \in s..e - 1 => ~SettingAt(file, j)
  <2> SUFFICES ASSUME NEW j \in Text!LineStarts(file), j \in s..e - 1,
                      SettingAt(file, j)
               PROVE  FALSE
      OBVIOUS
  <2>1. j # s
      BY <1>4, SymbolsAre DEF SettingAt
  <2>2. s < j => e < j
      BY <1>1, <1>4, <1>5, NextLine
  <2> QED BY <1>1, <1>4, <2>1, <2>2
<1>7. ReadUpTo(e)
  <2>1. s \in Int /\ e \in Int /\ s <= e
      BY <1>1, <1>4, <1>5
  <2> QED BY <1>4, <1>6, <2>1, ReadOn
<1>8. /\ idxAtBuffer' = e /\ state' = "NAME" /\ file' = file
      /\ UNCHANGED << phase, file, flash, attValue, defined >>
    BY <1>2, <1>4, <1>5 DEF SkipComment, files, config
<1>9. ReadUpTo(e)'
    BY <1>7, <1>8, SameRead
<1>10. ReadUpTo(idxAtBuffer)'
    BY <1>8, <1>9 DEF ReadUpTo, Made
<1> QED BY <1>5, <1>8, <1>10 DEF Progress

LEMMA NameProgress ==
  ASSUME TypeOK, Progress, Text!WellFormed(file), GetName
  PROVE  Progress'
<1>1. file \in Seq(Symbols) /\ Len(file) \in Nat
    BY SeqPlaces DEF TypeOK
<1>2. state = "NAME" /\ ~InComment /\ TokenType = "ATT_NAME"
    BY DEF GetName, GetToken
<1>3. Start # Len(file) + 1
    BY <1>2, AtNameEnd
<1>4. PICK s \in Text!LineStarts(file) :
        /\ s \in 1..Len(file) /\ Start = First(file, s) /\ ReadUpTo(s)
        /\ SettingAt(file, s)
        /\ Token = << file[First(file, s)] >> /\ Len(Token) = 1
    BY <1>2, <1>3, AtNameLine
<1>5. /\ idxAtBuffer' = First(file, s) + 1 /\ currentConfigToSet' = file[First(file, s)]
      /\ state' = "EQUAL" /\ file' = file
      /\ UNCHANGED << phase, file, flash, attValue, defined >>
    BY <1>4 DEF GetName, GetToken, files, config
<1>6. ReadUpTo(s)'
    BY <1>4, <1>5, SameRead
<1>7. InSetting(s)'
    BY <1>4, <1>5, <1>6 DEF InSetting
<1>8. s \in 1..Len(file') /\ idxAtBuffer' = First(file', s) + 1
    BY <1>4, <1>5
<1> QED BY <1>5, <1>7, <1>8 DEF Progress

LEMMA EqualProgress ==
  ASSUME TypeOK, Progress, GetEqual
  PROVE  Progress'
<1>1. state = "EQUAL"
    BY DEF GetEqual, GetToken
<1>2. PICK s \in 1..Len(file) : InSetting(s) /\ idxAtBuffer = First(file, s) + 1
    BY <1>1 DEF Progress
<1>3. Start = EqualAt(file, s) /\ Len(Token) = 1
    BY <1>1, <1>2, AtEqual DEF InSetting
<1>4. /\ idxAtBuffer' = EqualAt(file, s) + 1 /\ state' = "VALUE" /\ file' = file
      /\ UNCHANGED << phase, file, flash, attValue, defined, currentConfigToSet >>
    BY <1>3 DEF GetEqual, GetToken, files, config
<1>5. InSetting(s)'
  <2>1. ReadUpTo(s)'
      BY <1>2, <1>4, SameRead DEF InSetting
  <2> QED BY <1>2, <1>4, <2>1 DEF InSetting
<1>6. s \in 1..Len(file') /\ idxAtBuffer' = EqualAt(file', s) + 1
    BY <1>2, <1>4
<1> QED BY <1>4, <1>5, <1>6 DEF Progress

LEMMA ValueProgress ==
  ASSUME TypeOK, Progress, Text!WellFormed(file), GetValue
  PROVE  Progress'
<1>1. file \in Seq(Symbols) /\ Len(file) \in Nat
    BY SeqPlaces DEF TypeOK
<1>2. state = "VALUE"
    BY DEF GetValue, GetToken
<1>3. PICK s \in 1..Len(file) : InSetting(s) /\ idxAtBuffer = EqualAt(file, s) + 1
    BY <1>2 DEF Progress
<1>4. PICK e \in s..Len(file) + 1 :
        e = End(file, s) /\ (e = Len(file) + 1 \/ file[e] \in LineEnds)
    BY <1>1, <1>3, EndIs
<1>5. PICK c \in Names : c = file[First(file, s)]
    BY <1>3 DEF InSetting, SettingAt
<1>6. s \in Text!LineStarts(file) /\ SettingAt(file, s) /\ currentConfigToSet = c /\ ReadUpTo(s)
    BY <1>3, <1>5 DEF InSetting
<1>7. Text!IsValue(ValuePart(file, s))
    BY <1>1, <1>6, GoodSetting
<1>8. Token = ValuePart(file, s) /\ Start + Len(Token) = e
    BY <1>2, <1>3, <1>6, <1>7, <1>4, AtValue
<1>9. Text!ValueIn(Text!LineAt(file, s)) = ValuePart(file, s)
    BY <1>1, <1>6, LineKinds
<1>10. /\ idxAtBuffer' = e /\ state' = "NAME" /\ file' = file /\ phase' = phase
      /\ flash' = flash
      /\ attValue' = [attValue EXCEPT ![c] = ValuePart(file, s)]
      /\ defined' = [defined EXCEPT ![c] = TRUE]
    BY <1>6, <1>8 DEF GetValue, GetToken, files
<1>11. s < e
  <2>1. /\ First(file, s) \in s..Len(file) /\ EqualAt(file, s) \in First(file, s) + 1..Len(file)
        /\ e \in EqualAt(file, s) + 1..Len(file) + 1
      BY <1>1, <1>3, <1>6, <1>4, SettingIs
  <2> HIDE DEF First, EqualAt
  <2> QED BY <1>1, <1>3, <2>1
<1>12. \A j \in Text!LineStarts(file) : j < e <=> (j < s \/ j = s)
  <2> TAKE j \in Text!LineStarts(file)
  <2>1. j \in 1..Len(file)
      BY <1>1 DEF Text!LineStarts
  <2>2. s < j => e < j
      BY <1>1, <1>3, <1>4, NextLine
  <2> QED BY <1>1, <1>3, <1>11, <2>1, <2>2
<1>13. ASSUME NEW n \in Names
       PROVE  Made(n, e)' = IF n = c THEN Made(n, s) \cup {s} ELSE Made(n, s)
  <2>1. Text!Settings(file, n) =
          {i \in Text!LineStarts(file) : SettingAt(file, i) /\ file[First(file, i)] = n}
      BY <1>1, SettingsAre
  <2>2. Made(n, e)' = {i \in Text!Settings(file, n) : i < e}
      BY <1>10 DEF Made
  <2>3. Made(n, s) = {i \in Text!Settings(file, n) : i < s}
      BY DEF Made
  <2>4. s \in Text!Settings(file, n) <=> n = c
      BY <1>6, <1>5, <2>1
  <2>5. \A i \in Text!Settings(file, n) : i \in Text!LineStarts(file)
      BY <2>1
  <2>6. ~(s < s)
      BY <1>3
  <2> QED BY <1>12, <2>2, <2>3, <2>4, <2>5, <2>6
<1>14. ASSUME NEW n \in Names, n # c
       PROVE  /\ Made(n, e)' # {} =>
                   /\ defined'[n]
                   /\ attValue'[n] = Text!ValueIn(Text!LineAt(file', Max(Made(n, e)')))
              /\ Made(n, e)' = {} => Before(n)'
  <2>1. Made(n, e)' = Made(n, s)
      BY <1>13, <1>14
  <2>2. attValue'[n] = attValue[n] /\ defined'[n] = defined[n]
      BY <1>10, <1>14, Zenon DEF TypeOK
  <2>3. /\ Made(n, s) # {} =>
             /\ defined[n]
             /\ attValue[n] = Text!ValueIn(Text!LineAt(file, Max(Made(n, s))))
        /\ Made(n, s) = {} => Before(n)
      BY <1>6 DEF ReadUpTo
  <2>4. Before(n) => Before(n)'
      BY <1>10, <2>2 DEF Before, FlashGood, IsSet
  <2> QED BY <1>10, <2>1, <2>2, <2>3, <2>4
<1>15. /\ Made(c, e)' # {} /\ defined'[c]
       /\ attValue'[c] = Text!ValueIn(Text!LineAt(file', Max(Made(c, e)')))
  <2>1. Made(c, e)' = Made(c, s) \cup {s}
      BY <1>5, <1>13
  <2>2. attValue'[c] = ValuePart(file, s) /\ defined'[c] = TRUE
      BY <1>10, <1>5, Zenon DEF TypeOK
  <2>3. Max(Made(c, s) \cup {s}) = s
    <3>1. \A i \in Made(c, s) : i \in 1..Len(file) /\ i < s
      <4>1. \A i \in Text!Settings(file, c) : i \in 1..Len(file)
          BY <1>1, <1>5, SettingsAre
      <4> QED BY <4>1 DEF Made
    <3>2. Made(c, s) \cup {s} \in SUBSET Int /\ \A i \in Made(c, s) \cup {s} : i <= s
        BY <1>1, <1>3, <3>1
    <3> QED BY <3>2, MaxIs
  <2> QED BY <1>9, <1>10, <2>1, <2>2, <2>3
<1>16. ReadUpTo(idxAtBuffer)'
  <2>1. ReadUpTo(e)'
      BY <1>14, <1>15 DEF ReadUpTo
  <2> QED BY <1>10, <2>1 DEF ReadUpTo, Made
<1> QED BY <1>10, <1>4, <1>16 DEF Progress

\* A file without mistakes is read to its end.
LEMMA NeverUnexpected ==
  ASSUME TypeOK, Progress, Text!WellFormed(file)
  PROVE  ~Unexpected
<1>1. CASE state = "NAME"
  <2>1. CASE Start = Len(file) + 1
      BY <1>1, <2>1, AtNameEnd DEF Unexpected
  <2>2. CASE Start # Len(file) + 1
    <3>1. InComment \/ TokenType = "ATT_NAME"
        BY <1>1, <2>2, AtNameLine
    <3> QED BY <1>1, <3>1 DEF Unexpected, Expected
  <2> QED BY <2>1, <2>2
<1>2. CASE state = "EQUAL"
  <2>1. TokenType = "EQUAL"
      BY <1>2, AtEqual DEF Progress, InSetting
  <2> QED BY <1>2, <2>1 DEF Unexpected, Expected
<1>3. CASE state = "VALUE"
  <2>1. PICK s \in 1..Len(file) : InSetting(s) /\ idxAtBuffer = EqualAt(file, s) + 1
      BY <1>3 DEF Progress
  <2>2. Text!IsValue(ValuePart(file, s))
      BY <2>1, GoodSetting DEF InSetting, TypeOK
  <2>3. TokenType = "VALUE"
      BY <1>3, <2>1, <2>2, AtValue DEF InSetting
  <2> QED BY <1>3, <2>3 DEF Unexpected, Expected
<1> QED BY <1>1, <1>2, <1>3 DEF TypeOK

\* Nor is the flash left when it sets no attribute twice.
LEMMA NeverTwice ==
  ASSUME TypeOK, Progress, Text!WellFormed(file), Text!SetsOnce(file)
  PROVE  ~SetTwice
<1> SUFFICES ASSUME SetTwice PROVE FALSE
    OBVIOUS
<1>1. state = "VALUE" /\ phase = "flash" /\ defined[currentConfigToSet]
    BY DEF SetTwice, Parsing, Overwrite
<1>2. PICK s \in 1..Len(file) : InSetting(s)
    BY <1>1 DEF Progress
<1> DEFINE c == currentConfigToSet
<1>3. c \in Names /\ ReadUpTo(s) /\ s \in Text!Settings(file, c)
    BY <1>2, SettingsAre DEF InSetting, TypeOK
<1>4. Made(c, s) = {}
  <2>1. \A i \in Text!Settings(file, c) : i = s
      BY <1>3 DEF Text!SetsOnce
  <2>2. ~(s < s)
      BY <1>2
  <2> QED BY <2>1, <2>2 DEF Made
<1> QED BY <1>1, <1>3, <1>4 DEF ReadUpTo, Before

LEMMA ReadAtEnd ==
  ASSUME TypeOK, Progress, Text!WellFormed(file), EndOfFile
  PROVE  ReadUpTo(Len(file) + 1)
<1>1. TokenType = "EOF" /\ ~InComment
    BY DEF EndOfFile
<1>2. state = "NAME"
  <2>1. ASSUME state = "EQUAL" PROVE FALSE
    <3>1. TokenType = "EQUAL"
        BY <2>1, AtEqual DEF Progress, InSetting
    <3> QED BY <1>1, <3>1
  <2>2. ASSUME state = "VALUE" PROVE FALSE
    <3>1. PICK s \in 1..Len(file) : InSetting(s) /\ idxAtBuffer = EqualAt(file, s) + 1
        BY <2>2 DEF Progress
    <3>2. Text!IsValue(ValuePart(file, s))
        BY <3>1, GoodSetting DEF InSetting, TypeOK
    <3>3. TokenType = "VALUE"
        BY <2>2, <3>1, <3>2, AtValue DEF InSetting
    <3> QED BY <1>1, <3>3
  <2> QED BY <2>1, <2>2 DEF TypeOK
<1>3. Start = Len(file) + 1
  <2>1. ASSUME Start # Len(file) + 1 PROVE FALSE
    <3>1. InComment \/ TokenType = "ATT_NAME"
        BY <1>2, <2>1, AtNameLine
    <3> QED BY <1>1, <3>1
  <2> QED BY <2>1
<1> QED BY <1>2, <1>3, AtNameEnd

-----------------------------------------------------------------------------
\* From file to file.

LEMMA NoneBefore ==
  ASSUME NEW f \in Seq(Symbols), NEW n \in Names
  PROVE  {i \in Text!Settings(f, n) : i < 1} = {}
<1>1. Len(f) \in Nat /\ \A i \in Text!Settings(f, n) : i \in 1..Len(f)
    BY SettingsAre, SeqPlaces
<1>2. \A i \in Text!Settings(f, n) : ~(i < 1)
    BY <1>1
<1> QED BY <1>2

\* Every file is read from its beginning.
LEMMA Afresh ==
  ASSUME file' \in Seq(Symbols), state' = "NAME", idxAtBuffer' = 1,
         \A n \in Names : Before(n)'
  PROVE  Progress'
<1>1. ASSUME NEW n \in Names PROVE Made(n, 1)' = {}
  <2>1. Made(n, 1)' = {i \in Text!Settings(file', n) : i < 1}
      BY DEF Made
  <2> QED BY <2>1, NoneBefore
<1>2. ReadUpTo(1)'
    BY <1>1 DEF ReadUpTo
<1>3. ReadUpTo(idxAtBuffer)'
    BY <1>2 DEF ReadUpTo, Made
<1> QED BY <1>3 DEF Progress

\* What a file without mistakes means is there when it is read to its end.
LEMMA ReadMeans ==
  ASSUME TypeOK, ReadUpTo(Len(file) + 1), NEW n \in Names
  PROVE  /\ Text!Sets(file, n) =>
              defined[n] /\ attValue[n] = Text!Written(file, n)
         /\ ~Text!Sets(file, n) => Before(n)
<1>1. Made(n, Len(file) + 1) = Text!Settings(file, n)
    BY AllRead
<1>2. \A S : Max(S) = Text!Max(S)
    BY DEF Max, Text!Max
<1> QED BY <1>1, <1>2 DEF ReadUpTo, Text!Sets, Text!Written

LEMMA LastSetting ==
  ASSUME NEW f \in Seq(Symbols), NEW n \in Names, Text!Sets(f, n)
  PROVE  Text!Max(Text!Settings(f, n)) \in Text!Settings(f, n)
<1> DEFINE S == Text!Settings(f, n)
<1>1. S # {} /\ S \in SUBSET (1..Len(f)) /\ Len(f) \in Nat
    BY SettingsAre, SeqPlaces DEF Text!Sets
<1> HIDE DEF S
<1>2. PICK m \in S : \A k \in S : k <= m
    BY <1>1, GreatestNat
<1>3. Text!Max(S) = m
  <2>1. S \in SUBSET Int
      BY <1>1
  <2> QED BY <1>2, <2>1, MaxIs
<1> QED BY <1>3 DEF S

LEMMA CardMeans ==
  ASSUME NEW f \in Seq(Symbols), NEW n \in Names
  PROVE  /\ Text!Sets(Append(f, "\n"), n) <=> Text!Sets(f, n)
         /\ Text!Sets(f, n) => Text!Written(Append(f, "\n"), n) = Text!Written(f, n)
<1> DEFINE g == Append(f, "\n")
<1>1. /\ Text!Settings(g, n) = Text!Settings(f, n)
      /\ \A i \in Text!LineStarts(f) : Text!LineAt(g, i) = Text!LineAt(f, i)
    BY AppendedMeans
<1> HIDE DEF g
<1>2. Text!Sets(f, n) => Text!Max(Text!Settings(f, n)) \in Text!LineStarts(f)
    BY LastSetting, SettingsAre
<1> QED BY <1>1, <1>2 DEF Text!Sets, Text!Written, g

\* The flash was read: what it means is there before the card is read.
LEMMA FlashRead ==
  ASSUME ParseInv, phase = "flash", EndOfFile \/ Unexpected \/ SetTwice,
         FlashGood, NEW n \in Names
  PROVE  /\ EndOfFile
         /\ defined[n] <=> IsSet(flash, n)
         /\ IsSet(flash, n) => attValue[n] = Text!Written(flash, n)
<1>1. TypeOK /\ file = flash /\ flash # NoFile /\ Progress /\ Text!WellFormed(file)
      /\ Text!SetsOnce(file)
    BY DEF ParseInv, Source, Parsing, FlashGood
<1>2. EndOfFile
    BY <1>1, NeverUnexpected, NeverTwice
<1>3. ReadUpTo(Len(file) + 1)
    BY <1>1, <1>2, ReadAtEnd
<1>4. /\ Text!Sets(file, n) =>
              defined[n] /\ attValue[n] = Text!Written(file, n)
      /\ ~Text!Sets(file, n) => Before(n)
    BY <1>1, <1>3, ReadMeans
<1> QED BY <1>1, <1>2, <1>4 DEF IsSet, Before

LEMMA CardRead ==
  ASSUME ParseInv, phase = "card", EndOfFile \/ Unexpected \/ SetTwice,
         Text!WellFormed(card), NEW n \in Names
  PROVE  /\ EndOfFile
         /\ IsSet(card, n) => defined[n] /\ attValue[n] = Text!Written(card, n)
         /\ ~IsSet(card, n) /\ FlashGood =>
              /\ defined[n] <=> IsSet(flash, n)
              /\ IsSet(flash, n) => attValue[n] = Text!Written(flash, n)
<1>1. TypeOK /\ card # NoFile /\ file = Append(card, "\n") /\ card \in Seq(Symbols)
    BY FilesAssumption DEF ParseInv, Source, TypeOK
<1>2. Text!WellFormed(file)
    BY <1>1, AppendedMeans
<1>3. Progress
    BY <1>2 DEF ParseInv, Parsing
<1>4. EndOfFile
  <2>1. ~SetTwice
      BY DEF SetTwice, Overwrite
  <2> QED BY <1>1, <1>2, <1>3, <2>1, NeverUnexpected
<1>5. ReadUpTo(Len(file) + 1)
    BY <1>1, <1>2, <1>3, <1>4, ReadAtEnd
<1>6. /\ Text!Sets(file, n) =>
              defined[n] /\ attValue[n] = Text!Written(file, n)
      /\ ~Text!Sets(file, n) => Before(n)
    BY <1>1, <1>5, ReadMeans
<1>7. /\ Text!Sets(file, n) <=> Text!Sets(card, n)
      /\ Text!Sets(card, n) => Text!Written(file, n) = Text!Written(card, n)
    BY <1>1, CardMeans
<1> QED BY <1>1, <1>4, <1>6, <1>7 DEF IsSet, Before

LEMMA ReturnInv ==
  ASSUME ParseInv, EndOfFile \/ Unexpected \/ SetTwice, TypeOK'
  PROVE  ParseInv'
<1>1. TypeOK /\ Source /\ OneGoodFileIsEnough /\ (phase = "flash" \/ phase = "card")
    BY DEF ParseInv, EndOfFile, Unexpected, SetTwice, Parsing
<1>2. PICK result \in BOOLEAN :
        Return(result) /\ (result <=> EndOfFile) /\ (result => UNCHANGED config)
  <2>1. CASE EndOfFile
      BY <2>1 DEF EndOfFile
  <2>2. CASE Unexpected /\ ~EndOfFile
      BY <2>2 DEF Unexpected
  <2>3. CASE SetTwice /\ ~EndOfFile
      BY <2>3 DEF SetTwice
  <2> QED BY <2>1, <2>2, <2>3
<1>3. /\ idxAtBuffer' = 1 /\ state' = "NAME" /\ flash' = flash /\ card' = card
      /\ result => attValue' = attValue /\ defined' = defined
    BY <1>2 DEF Return, files, config
<1>4. CASE phase = "flash"
  <2>1. returnValFlash' = result /\ ReadCard
      BY <1>2, <1>4 DEF Return
  <2>2. flash # NoFile /\ file = flash
      BY <1>1, <1>4 DEF Source
  <2>3. FlashGood => result
      BY <1>2, <1>4, FlashRead, NamesAre
  <2>4. CASE card # NoFile
    <3>1. phase' = "card" /\ file' = Append(card, "\n")
        BY <2>1, <2>4 DEF ReadCard
    <3>2. Source'
        BY <1>3, <2>4, <3>1 DEF Source
    <3>3. \A n \in Names : Before(n)'
      <4> TAKE n \in Names
      <4>1. FlashGood =>
              /\ defined[n] <=> IsSet(flash, n)
              /\ IsSet(flash, n) => attValue[n] = Text!Written(flash, n)
          BY <1>4, FlashRead
      <4>2. FlashGood' = FlashGood /\ IsSet(flash, n)' = IsSet(flash, n)
          BY <1>3 DEF FlashGood, IsSet
      <4> QED BY <1>3, <2>3, <3>1, <4>1, <4>2 DEF Before
    <3>4. Progress'
        BY <1>3, <3>3, Afresh DEF TypeOK
    <3> QED BY <1>3, <2>1, <2>3, <3>1, <3>2, <3>4 DEF ParseInv, OneGoodFileIsEnough, FlashGood
  <2>5. CASE card = NoFile
    <3>1. phase' = IF returnValFlash' THEN "running" ELSE "failed"
        BY <2>1, <2>5 DEF ReadCard
    <3>2. OneGoodFileIsEnough'
        BY <1>3, <2>1, <2>3, <2>5, <3>1 DEF OneGoodFileIsEnough, FlashGood
    <3> QED BY <3>1, <3>2 DEF ParseInv, Source, Parsing
  <2> QED BY <2>4, <2>5
<1>5. CASE phase = "card"
  <2>1. phase' = (IF returnValFlash \/ result THEN "running" ELSE "failed")
      BY <1>2, <1>5 DEF Return
  <2>2. Text!WellFormed(card) => result
    <3>1. PICK n \in Names : TRUE
        BY NamesAre
    <3>2. Text!WellFormed(card) => EndOfFile
        BY <1>5, <3>1, CardRead
    <3> QED BY <1>2, <3>2
  <2>3. flash # NoFile /\ FlashGood => returnValFlash
      BY <1>5 DEF ParseInv
  <2>4. OneGoodFileIsEnough'
      BY <1>3, <2>1, <2>2, <2>3 DEF OneGoodFileIsEnough, FlashGood, CardGood
  <2> QED BY <2>1, <2>4 DEF ParseInv, Source, Parsing
<1> QED BY <1>1, <1>4, <1>5

LEMMA InitInv ==
  ASSUME ParseInv, ConfigInit, TypeOK'
  PROVE  ParseInv'
<1>1. /\ phase = "off" /\ idxAtBuffer' = 1 /\ state' = "NAME"
      /\ flash' = flash /\ card' = card /\ returnValFlash' = FALSE
      /\ defined' = [n \in Names |-> FALSE]
    BY DEF ConfigInit, files
<1>2. \A n \in Names : ~defined'[n]
    BY <1>1, Zenon
<1>3. CASE flash # NoFile
  <2>1. phase' = "flash" /\ file' = flash
      BY <1>3 DEF ConfigInit
  <2>2. \A n \in Names : Before(n)'
      BY <1>2, <2>1 DEF Before
  <2>3. Progress'
      BY <1>1, <2>2, Afresh DEF TypeOK
  <2> QED BY <1>1, <1>3, <2>1, <2>3 DEF ParseInv, Source, OneGoodFileIsEnough, FlashGood
<1>4. CASE flash = NoFile /\ card # NoFile
  <2>1. phase' = "card" /\ file' = Append(card, "\n")
      BY <1>4 DEF ConfigInit, ReadCard
  <2>2. \A n \in Names : Before(n)'
      BY <1>1, <1>2, <1>4, <2>1 DEF Before, IsSet, FlashGood
  <2>3. Progress'
      BY <1>1, <2>2, Afresh DEF TypeOK
  <2> QED BY <1>1, <1>4, <2>1, <2>3 DEF ParseInv, Source, OneGoodFileIsEnough, FlashGood
<1>5. CASE flash = NoFile /\ card = NoFile
  <2>1. phase' \in {"running", "failed"}
      BY <1>5 DEF ConfigInit, ReadCard
  <2>2. OneGoodFileIsEnough'
      BY <1>1, <1>5 DEF OneGoodFileIsEnough
  <2> QED BY <2>1, <2>2 DEF ParseInv, Source, Parsing
<1> QED BY <1>3, <1>4, <1>5

LEMMA ParseStepInv ==
  ASSUME ParseInv, [Next]_vars
  PROVE  ParseInv'
<1>1. TypeOK'
    BY TypeStep DEF ParseInv
<1>2. TypeOK
    BY DEF ParseInv
<1>3. ASSUME UNCHANGED << files, phase, file, returnValFlash >>,
             Parsing /\ Text!WellFormed(file) => Progress'
      PROVE  ParseInv'
  <2>1. flash' = flash /\ card' = card /\ phase' = phase /\ file' = file
        /\ returnValFlash' = returnValFlash
      BY <1>3 DEF files
  <2>2. Parsing' = Parsing /\ Source' = Source
        /\ OneGoodFileIsEnough' = OneGoodFileIsEnough
      BY <2>1 DEF Parsing, Source, OneGoodFileIsEnough, FlashGood, CardGood
  <2>3. Parsing' /\ Text!WellFormed(file') => Progress'
      BY <1>3, <2>1, <2>2
  <2> QED BY <1>1, <2>1, <2>2, <2>3 DEF ParseInv, FlashGood
<1>4. ASSUME ~Parsing', OneGoodFileIsEnough' PROVE ParseInv'
    BY <1>1, <1>4 DEF ParseInv, Parsing, Source
<1>5. CASE ConfigInit
    BY <1>1, <1>5, InitInv
<1>6. CASE SkipComment
  <2>1. UNCHANGED << files, phase, file, returnValFlash >>
      BY <1>6 DEF SkipComment
  <2>2. Parsing /\ Text!WellFormed(file) => Progress'
      BY <1>2, <1>6, SkipProgress DEF ParseInv
  <2> QED BY <1>3, <2>1, <2>2
<1>7. CASE GetName
  <2>1. UNCHANGED << files, phase, file, returnValFlash >>
      BY <1>7 DEF GetName, GetToken
  <2>2. Parsing /\ Text!WellFormed(file) => Progress'
      BY <1>2, <1>7, NameProgress DEF ParseInv
  <2> QED BY <1>3, <2>1, <2>2
<1>8. CASE GetEqual
  <2>1. UNCHANGED << files, phase, file, returnValFlash >>
      BY <1>8 DEF GetEqual, GetToken
  <2>2. Parsing /\ Text!WellFormed(file) => Progress'
      BY <1>2, <1>8, EqualProgress DEF ParseInv
  <2> QED BY <1>3, <2>1, <2>2
<1>9. CASE GetValue
  <2>1. UNCHANGED << files, phase, file, returnValFlash >>
      BY <1>9 DEF GetValue, GetToken
  <2>2. Parsing /\ Text!WellFormed(file) => Progress'
      BY <1>2, <1>9, ValueProgress DEF ParseInv
  <2> QED BY <1>3, <2>1, <2>2
<1>10. CASE EndOfFile \/ Unexpected \/ SetTwice
    BY <1>1, <1>10, ReturnInv
<1>11. CASE SetAndSave \/ SetOnly
  <2>1. phase = "running" /\ phase' = phase
      BY <1>11 DEF SetAndSave, SetOnly, SetAttValue
  <2> QED BY <1>4, <2>1 DEF Parsing, OneGoodFileIsEnough
<1>12. CASE Reset
  <2>1. phase' = "off"
      BY <1>12 DEF Reset
  <2> QED BY <1>4, <2>1 DEF Parsing, OneGoodFileIsEnough
<1>13. CASE RemoveCard
  <2>1. phase' = "off"
      BY <1>13 DEF RemoveCard
  <2> QED BY <1>4, <2>1 DEF Parsing, OneGoodFileIsEnough
<1>14. CASE UNCHANGED vars
  <2>1. UNCHANGED << files, phase, file, returnValFlash >>
      BY <1>14 DEF vars, parser
  <2>2. Progress' = Progress
      BY <1>14 DEF vars, parser, files, config, Progress, InSetting, ReadUpTo, Made,
                   Before, FlashGood, IsSet
  <2> QED BY <1>3, <2>1, <2>2 DEF ParseInv
<1> QED BY <1>5, <1>6, <1>7, <1>8, <1>9, <1>10, <1>11, <1>12, <1>13, <1>14
        DEF Next, ParseStep

LEMMA ParseCorrect == Spec => []ParseInv
<1>1. Init => ParseInv
    BY TypeInit DEF Init, ParseInv, Source, Parsing, OneGoodFileIsEnough
<1>2. ParseInv /\ [Next]_vars => ParseInv'
    BY ParseStepInv
<1> QED BY <1>1, <1>2, PTL DEF Spec

\* A start fails only when neither file is there without a mistake: a good file
\* of any length is never given up, and the other one cannot spoil it.
THEOREM OneFileIsEnough == Spec => []OneGoodFileIsEnough
<1>1. ParseInv => OneGoodFileIsEnough
    BY DEF ParseInv
<1> QED BY <1>1, ParseCorrect, PTL

-----------------------------------------------------------------------------
\* What the parser leaves.

LEMMA ParsedBy ==
  ASSUME [Next]_vars, Parsed
  PROVE  EndOfFile \/ Unexpected \/ SetTwice
<1>1. Parsing /\ ~Parsing'
    BY DEF Parsed
<1>2. ASSUME phase' = phase PROVE FALSE
    BY <1>1, <1>2 DEF Parsing
<1>3. CASE ConfigInit
    BY <1>1, <1>3 DEF ConfigInit, Parsing
<1>4. CASE SkipComment
    BY <1>2, <1>4 DEF SkipComment
<1>5. CASE GetName \/ GetEqual \/ GetValue
    BY <1>2, <1>5 DEF GetName, GetEqual, GetValue
<1>6. CASE SetAndSave \/ SetOnly
    BY <1>2, <1>6 DEF SetAndSave, SetOnly, SetAttValue
<1>7. CASE Reset
    BY <1>1, <1>7 DEF Reset, Parsing
<1>8. CASE RemoveCard
    BY <1>2, <1>8 DEF RemoveCard
<1>9. CASE UNCHANGED vars
    BY <1>2, <1>9 DEF vars
<1> QED BY <1>3, <1>4, <1>5, <1>6, <1>7, <1>8, <1>9 DEF Next, ParseStep

LEMMA ParsedValue ==
  ASSUME EndOfFile, NEW n \in Names
  PROVE  Value(n)' = Value(n)
BY DEF EndOfFile, config, Value

LEMMA MeansStep ==
  ASSUME ParseInv, [Next]_vars, Parsed, FlashGood, CardGood, NEW n \in Names
  PROVE  Value(n)' = IF IsSet(card, n) THEN Text!Written(card, n)
                     ELSE IF IsSet(flash, n) THEN Text!Written(flash, n)
                     ELSE Default[n]
<1>1. EndOfFile \/ Unexpected \/ SetTwice
    BY ParsedBy
<1>2. EndOfFile => Value(n)' = IF defined[n] THEN attValue[n] ELSE Default[n]
    BY ParsedValue DEF Value
<1>3. CASE phase = "flash"
  <2>1. flash # NoFile
      BY <1>3 DEF ParseInv, Source
  <2>2. card = NoFile
    <3>1. ASSUME card # NoFile PROVE FALSE
      <4>1. phase' = "card"
          BY <1>1, <1>3, <3>1 DEF EndOfFile, Unexpected, SetTwice, Return, ReadCard
      <4> QED BY <4>1 DEF Parsed, Parsing
    <3> QED BY <3>1
  <2>3. /\ EndOfFile
        /\ defined[n] <=> IsSet(flash, n)
        /\ IsSet(flash, n) => attValue[n] = Text!Written(flash, n)
      BY <1>1, <1>3, FlashRead
  <2> QED BY <1>2, <2>1, <2>2, <2>3 DEF IsSet
<1>4. CASE phase = "card"
  <2>1. card # NoFile /\ Text!WellFormed(card)
      BY <1>4 DEF ParseInv, Source, CardGood
  <2>2. /\ EndOfFile
        /\ IsSet(card, n) => defined[n] /\ attValue[n] = Text!Written(card, n)
        /\ ~IsSet(card, n) /\ FlashGood =>
             /\ defined[n] <=> IsSet(flash, n)
             /\ IsSet(flash, n) => attValue[n] = Text!Written(flash, n)
      BY <1>1, <1>4, <2>1, CardRead
  <2> QED BY <1>2, <2>2
<1> QED BY <1>3, <1>4 DEF Parsed, Parsing

\* Where no comment follows a value, it is meant as it is written.
LEMMA MeantIsWritten ==
  ASSUME NEW f \in Seq(Symbols), Text!NoInlineComments(f), NEW n \in Names,
         Text!Sets(f, n)
  PROVE  Text!Meaning(f, n) = Text!Written(f, n)
<1>1. Text!Max(Text!Settings(f, n)) \in Text!Settings(f, n)
    BY LastSetting
<1> QED BY <1>1 DEF Text!NoInlineComments, Text!Meaning, Text!Written, Text!Uncommented

\* The parser, which knows tokens, gives every attribute the value that the
\* lines of the files give it, as far as no comment follows a value: the card
\* before the flash, the last line before the others, the default when neither
\* sets it.
THEOREM FilesMean == Spec => CardThenFlashThenDefault
<1>1. ParseInv /\ [Next]_vars =>
        (Parsed /\ FlashGood /\ CardGood /\ NoInlineComments =>
           \A n \in Names : Value(n)' = MeantValue(n))
  <2> SUFFICES ASSUME ParseInv, [Next]_vars, Parsed, FlashGood, CardGood,
                      NoInlineComments, NEW n \in Names
               PROVE  Value(n)' = MeantValue(n)
      OBVIOUS
  <2>1. Value(n)' = IF IsSet(card, n) THEN Text!Written(card, n)
                    ELSE IF IsSet(flash, n) THEN Text!Written(flash, n)
                    ELSE Default[n]
      BY MeansStep
  <2>2. IsSet(card, n) => Text!Meaning(card, n) = Text!Written(card, n)
    <3>1. card # NoFile => card \in Seq(Symbols)
        BY FilesAssumption DEF ParseInv, TypeOK
    <3> QED BY <3>1, MeantIsWritten DEF IsSet, NoInlineComments
  <2>3. IsSet(flash, n) => Text!Meaning(flash, n) = Text!Written(flash, n)
      BY MeantIsWritten DEF ParseInv, TypeOK, IsSet, NoInlineComments
  <2> QED BY <2>1, <2>2, <2>3 DEF MeantValue
<1>2. Spec => [][Next]_vars
    BY DEF Spec
<1> QED BY <1>1, <1>2, ParseCorrect, PTL DEF CardThenFlashThenDefault

-----------------------------------------------------------------------------
\* What is saved is a file without mistakes, and means what was saved.

Ended(f) == Len(f) # 0 => f[Len(f)] \in LineEnds

\* A line is added to a file whose last line is ended.
LEMMA SavedLine ==
  ASSUME NEW v \in [Names -> Seq(Symbols)], \A n \in Names : Text!IsValue(v[n]),
         NEW i \in 1..Len(AttNames), NEW f \in Seq(Symbols), Ended(f)
  PROVE  LET g == f \o LineOf(v, i)
             x == Len(f) + 1
         IN  /\ g \in Seq(Symbols) /\ Ended(g) /\ x \in 1..Len(g)
             /\ Text!LineStarts(g) = Text!LineStarts(f) \cup {x}
             /\ \A j \in Text!LineStarts(f) : Text!LineAt(g, j) = Text!LineAt(f, j)
             /\ SettingAt(g, x) /\ g[First(g, x)] = AttNames[i]
             /\ ValuePart(g, x) = v[AttNames[i]]
<1> DEFINE g == f \o LineOf(v, i)
           x == Len(f) + 1
           n == AttNames[i]
           w == v[n]
           m == Len(w)
           l == LineOf(v, i)
<1>1. Len(f) \in Nat /\ x \in Nat /\ x = Len(f) + 1 /\ DOMAIN f = 1..Len(f)
    BY SeqPlaces
<1>2. /\ n \in Names /\ w \in Seq(Symbols) /\ m \in Nat
      /\ l \in Seq(Symbols) /\ Len(l) = m + 3 /\ l[1] = n /\ l[2] = "="
      /\ \A j \in 1..m : l[j + 2] = w[j]
      /\ l[m + 3] = "\n"
    BY LineOfIs
<1>3. Text!IsValue(w)
    BY <1>2
<1>4. g = f \o l
    OBVIOUS
<1> HIDE DEF g, n, w, l
<1>5. g \in Seq(Symbols) /\ Len(g) = Len(f) + m + 3
      /\ \A j \in 1..Len(f) + m + 3 : g[j] = IF j <= Len(f) THEN f[j] ELSE l[j - Len(f)]
  <2>1. /\ f \o l \in Seq(Symbols) /\ Len(f \o l) = Len(f) + Len(l)
        /\ \A j \in 1..Len(f) + Len(l) : (f \o l)[j] = IF j <= Len(f) THEN f[j] ELSE l[j - Len(f)]
      BY <1>2, ConcatProperties
  <2>2. Len(f) + Len(l) = Len(f) + m + 3
      BY <1>1, <1>2
  <2> QED BY <1>4, <2>1, <2>2
<1> HIDE DEF x
<1>6. Len(g) = x + m + 2 /\ DOMAIN g = 1..Len(g) /\ Len(g) \in Nat
  <2>1. DOMAIN g = 1..Len(g) /\ Len(g) \in Nat
      BY <1>5, SeqPlaces
  <2> HIDE DEF m
  <2> QED BY <1>1, <1>2, <1>5, <2>1
<1>7. m # 0 /\ w[1] \notin {" ", "\t", "=", "\n", "\r"} /\ \A j \in 1..m : w[j] \notin {"\t", "\n", "\r"}
  <2>1. w # << >> /\ Head(w) \notin {"=", " "} /\ Text!ToSet(w) \cap (LineEnds \cup {"\t", LongWord}) = {}
      BY <1>3 DEF Text!IsValue
  <2>2. m # 0 /\ DOMAIN w = 1..m
      BY <1>2, <2>1, EmptySeq, LenProperties
  <2>3. \A j \in 1..m : w[j] \notin {"\t", "\n", "\r"}
      BY <2>1, <2>2 DEF Text!ToSet, LineEnds
  <2>4. Head(w) = w[1] /\ 1 \in 1..m
      BY <1>2, <2>2
  <2> QED BY <2>1, <2>2, <2>3, <2>4
<1> HIDE DEF m
<1>8. /\ \A j \in 1..Len(f) : j \in 1..Len(f) + m + 3 /\ j <= Len(f)
      /\ \A j \in 1..m : x + 1 + j \in 1..Len(f) + m + 3 /\ ~(x + 1 + j <= Len(f))
                         /\ (x + 1 + j) - Len(f) = j + 2
      /\ x \in 1..Len(f) + m + 3 /\ ~(x <= Len(f)) /\ x - Len(f) = 1
      /\ x + 1 \in 1..Len(f) + m + 3 /\ ~(x + 1 <= Len(f)) /\ (x + 1) - Len(f) = 2
      /\ x + m + 2 \in 1..Len(f) + m + 3 /\ ~(x + m + 2 <= Len(f))
      /\ (x + m + 2) - Len(f) = m + 3
    BY <1>1, <1>2
<1>9. /\ \A j \in 1..Len(f) : g[j] = f[j]
      /\ \A j \in 1..m : g[x + 1 + j] = w[j]
      /\ g[x] = n /\ g[x + 1] = "=" /\ g[x + m + 2] = "\n"
  <2>1. \A j \in 1..Len(f) : g[j] = f[j]
      BY <1>5, <1>8
  <2>2. \A j \in 1..m : g[x + 1 + j] = w[j]
      BY <1>2, <1>5, <1>8
  <2>3. g[x] = l[1] /\ g[x + 1] = l[2] /\ g[x + m + 2] = l[m + 3]
      BY <1>5, <1>8
  <2> QED BY <1>2, <2>1, <2>2, <2>3
<1>10. Begins(f, g)
  <2>1. Len(f) <= Len(g)
      BY <1>1, <1>2, <1>6
  <2> QED BY <1>9, <2>1 DEF Begins
<1>11. n \notin {" ", "\t", "\n", "\r", "="} /\ n \in Symbols
    BY <1>2, SymbolsAre
<1>12. x \in Nat /\ m \in Nat
    BY <1>1, <1>2
<1>13. \A k \in x..x + m + 1 : g[k] \notin LineEnds
  <2> TAKE k \in x..x + m + 1
  <2>1. k = x \/ k = x + 1 \/ k - x - 1 \in 1..m
      BY <1>12
  <2>2. k = x + 1 + (k - x - 1)
      BY <1>12
  <2>3. k - x - 1 \in 1..m => g[k] = w[k - x - 1]
      BY <1>9, <2>2
  <2> QED BY <1>7, <1>9, <1>11, <2>1, <2>3 DEF LineEnds
<1>14. x \in 1..Len(g) /\ x \in 1..Len(g) + 1 /\ x + 1 \in 1..Len(g) + 1 /\ x + 2 \in 1..Len(g) + 1
       /\ x + m + 2 \in x..Len(g) + 1 /\ x + m + 2 = Len(g)
    BY <1>1, <1>2, <1>6
<1>15. End(g, x) = x + m + 2
  <2>1. IsPlace(g, x, LineEnds, x + m + 2)
    <3>1. (x + m + 2) - 1 = x + m + 1
        BY <1>1, <1>2
    <3> QED BY <1>9, <1>13, <1>14, <3>1 DEF IsPlace, LineEnds
  <2> QED BY <1>6, <1>14, <2>1, PlaceUnique DEF End
<1>16. First(g, x) = x
  <2>1. IsPlace(g, x, Dark, x)
    <3>1. x \in x..Len(g) + 1 /\ x..x - 1 = {}
        BY <1>1, <1>14
    <3>2. g[x] \in Dark
        BY <1>9, <1>11 DEF Dark, Space
    <3> QED BY <3>1, <3>2 DEF IsPlace
  <2> QED BY <1>6, <1>14, <2>1, PlaceUnique DEF First
<1>17. EqualAt(g, x) = x + 1
  <2>1. IsPlace(g, x + 1, Dark, x + 1)
    <3>1. x + 1 \in x + 1..Len(g) + 1 /\ x + 1..(x + 1) - 1 = {}
        BY <1>1, <1>14
    <3>2. g[x + 1] \in Dark
        BY <1>9, SymbolsAre DEF Dark, Space
    <3> QED BY <3>1, <3>2 DEF IsPlace
  <2> QED BY <1>6, <1>14, <1>16, <2>1, PlaceUnique DEF EqualAt
<1>18. ValueAt(g, x) = x + 2
  <2>1. IsPlace(g, x + 2, Dark, x + 2)
    <3>1. x + 2 \in x + 2..Len(g) + 1 /\ x + 2..(x + 2) - 1 = {} /\ x + 1 + 1 = x + 2
        BY <1>14, <1>12
    <3>2. 1 \in 1..m /\ x + 1 + 1 = x + 2
      <4>1. m # 0
          BY <1>7
      <4> QED BY <1>12, <4>1
    <3>3. g[x + 2] = w[1]
        BY <1>9, <3>2
    <3>4. w[1] \in Symbols
        BY <1>2, <3>2, ElementOfSeq DEF m
    <3>5. g[x + 2] \in Dark
        BY <1>7, <3>3, <3>4 DEF Dark, Space
    <3> QED BY <3>1, <3>5 DEF IsPlace
  <2>2. (x + 1) + 1 = x + 2
      BY <1>1
  <2> QED BY <1>6, <1>14, <1>17, <2>1, <2>2, PlaceUnique DEF ValueAt
<1>19. SettingAt(g, x) /\ g[First(g, x)] = n
  <2>1. x # x + m + 2 /\ x + 1 # x + m + 2
      BY <1>1, <1>2
  <2> QED BY <1>2, <1>9, <1>15, <1>16, <1>17, <2>1 DEF SettingAt
<1>20. ValuePart(g, x) = w
  <2> DEFINE a == x + 2
             e == x + m + 2
  <2>1. ValuePart(g, x) = SubSeq(g, a, e - 1)
      BY <1>15, <1>18 DEF ValuePart
  <2>2. a \in 1..Len(g) + 1 /\ e \in a..Len(g) + 1 /\ e - a = m
        /\ \A k \in 1..m : a + k - 1 = x + 1 + k
      BY <1>1, <1>2, <1>14
  <2> HIDE DEF a, e
  <2>3. SubSeq(g, a, e - 1) \in Seq(Symbols) /\ Len(SubSeq(g, a, e - 1)) = m
        /\ \A k \in 1..m : SubSeq(g, a, e - 1)[k] = g[a + k - 1]
      BY <1>5, <2>2, PartIs
  <2>4. \A k \in 1..m : SubSeq(g, a, e - 1)[k] = w[k]
      BY <1>9, <2>2, <2>3
  <2>5. Len(w) = m
      BY DEF m
  <2> QED BY <1>2, <2>1, <2>3, <2>4, <2>5, SeqEqual
<1>21. \A j \in Text!LineStarts(f) : Text!LineAt(g, j) = Text!LineAt(f, j)
  <2> TAKE j \in Text!LineStarts(f)
  <2>1. j \in 1..Len(f) /\ j \in 1..Len(f) + 1
      BY <1>1 DEF Text!LineStarts
  <2>2. Len(f) # 0 /\ f[Len(f)] \in LineEnds
      BY <1>1, <2>1 DEF Ended
  <2>3. End(f, j) \in j..Len(f) + 1 /\ \A k \in j..End(f, j) - 1 : f[k] \notin LineEnds
      BY <2>1, EndIs
  <2>4. End(f, j) # Len(f) + 1
    <3> SUFFICES ASSUME End(f, j) = Len(f) + 1 PROVE FALSE
        OBVIOUS
    <3>1. Len(f) \in j..(Len(f) + 1) - 1
        BY <1>1, <2>1
    <3> QED BY <2>2, <2>3, <3>1
  <2> QED BY <1>5, <1>10, <2>1, <2>4, SameLine
<1>22. Text!LineStarts(g) = Text!LineStarts(f) \cup {x}
  <2>1. Text!LineStarts(f) \subseteq 1..Len(f)
        /\ Text!LineStarts(g) = {j \in 1..Len(g) : j = 1 \/ g[j - 1] \in LineEnds}
      BY <1>1, <1>6 DEF Text!LineStarts
  <2>2. \A j \in 1..Len(f) : j \in Text!LineStarts(g) <=> j \in Text!LineStarts(f)
      BY <1>5, <1>10, SameStarts
  <2>3. x \in Text!LineStarts(g)
    <3>1. CASE Len(f) = 0
        BY <1>1, <1>14, <2>1, <3>1
    <3>2. CASE Len(f) # 0
      <4>1. x - 1 = Len(f) /\ Len(f) \in 1..Len(f)
          BY <1>1, <3>2
      <4>2. g[x - 1] \in LineEnds
          BY <1>9, <3>2, <4>1 DEF Ended
      <4> QED BY <1>14, <2>1, <4>2
    <3> QED BY <3>1, <3>2
  <2>4. ASSUME NEW j \in Text!LineStarts(g), j \notin 1..Len(f) PROVE j = x
    <3> SUFFICES ASSUME j # x PROVE FALSE
        OBVIOUS
    <3>1. j \in 1..Len(g) /\ (j = 1 \/ g[j - 1] \in LineEnds)
        BY <2>1
    <3>2. j # 1 /\ j - 1 \in x..x + m + 1
        BY <1>1, <1>2, <1>6, <2>4, <3>1
    <3> QED BY <1>13, <3>1, <3>2
  <2> QED BY <2>1, <2>2, <2>3, <2>4
<1>23. Ended(g)
    BY <1>9, <1>14 DEF Ended, LineEnds
<1> QED BY <1>5, <1>14, <1>19, <1>20, <1>21, <1>22, <1>23 DEF g, x, n, w, l

\* The text of the first k attributes.
Saves(v, f, k) ==
  /\ f \in Seq(Symbols) /\ Ended(f) /\ Text!WellFormed(f)
  /\ \A n \in Names : \A i \in Text!Settings(f, n) :
       Text!ValueIn(Text!LineAt(f, i)) = v[n]
  /\ \A j \in 1..k : Text!Settings(f, AttNames[j]) # {}
  /\ \A j \in k + 1..Len(AttNames) : Text!Settings(f, AttNames[j]) = {}
  /\ \A n \in Names : \A i1, i2 \in Text!Settings(f, n) : i1 = i2

LEMMA SavedNext ==
  ASSUME NEW v \in [Names -> Seq(Symbols)], \A n \in Names : Text!IsValue(v[n]),
         NEW k \in Nat, k + 1 \in 1..Len(AttNames), NEW f, Saves(v, f, k)
  PROVE  Saves(v, f \o LineOf(v, k + 1), k + 1)
<1> DEFINE g == f \o LineOf(v, k + 1)
           x == Len(f) + 1
           c == AttNames[k + 1]
<1>1. f \in Seq(Symbols) /\ Ended(f) /\ Text!WellFormed(f)
    BY DEF Saves
<1>2. /\ g \in Seq(Symbols) /\ Ended(g) /\ x \in 1..Len(g)
      /\ Text!LineStarts(g) = Text!LineStarts(f) \cup {x}
      /\ \A j \in Text!LineStarts(f) : Text!LineAt(g, j) = Text!LineAt(f, j)
      /\ SettingAt(g, x) /\ g[First(g, x)] = c
      /\ ValuePart(g, x) = v[c]
    BY <1>1, SavedLine
<1>3. c \in Names
    BY NamesAre
<1> HIDE DEF g, x, c
<1>4. /\ Text!IsSetting(Text!LineAt(g, x)) /\ Head(Text!LineAt(g, x)) = c
      /\ Text!ValueIn(Text!LineAt(g, x)) = v[c]
    BY <1>2, LineKinds
<1>5. Text!WellFormed(g)
    BY <1>1, <1>2, <1>3, <1>4 DEF Text!WellFormed
<1>6. \A n \in Names :
        Text!Settings(g, n) = Text!Settings(f, n) \cup (IF n = c THEN {x} ELSE {})
    BY <1>2, <1>4 DEF Text!Settings
<1>7. \A n \in Names : \A i \in Text!Settings(g, n) :
        Text!ValueIn(Text!LineAt(g, i)) = v[n]
  <2> TAKE n \in Names
  <2> TAKE i \in Text!Settings(g, n)
  <2>1. CASE i \in Text!Settings(f, n)
    <3>1. i \in Text!LineStarts(f)
        BY <2>1 DEF Text!Settings
    <3> QED BY <1>2, <2>1, <3>1 DEF Saves
  <2>2. CASE i = x /\ n = c
      BY <1>4, <2>2
  <2> QED BY <1>6, <2>1, <2>2
<1>8. \A j \in 1..k + 1 : Text!Settings(g, AttNames[j]) # {}
  <2> TAKE j \in 1..k + 1
  <2>1. CASE j = k + 1
      BY <1>3, <1>6, <2>1 DEF c
  <2>2. CASE j # k + 1
    <3>1. j \in 1..k /\ j \in 1..Len(AttNames)
        BY <2>2, NamesAre
    <3>2. AttNames[j] \in Names /\ Text!Settings(f, AttNames[j]) # {}
        BY <3>1, NamesAre DEF Saves
    <3> QED BY <1>6, <3>2
  <2> QED BY <2>1, <2>2
<1>9. \A j \in (k + 1) + 1..Len(AttNames) : Text!Settings(g, AttNames[j]) = {}
  <2> TAKE j \in (k + 1) + 1..Len(AttNames)
  <2>1. j \in k + 1..Len(AttNames) /\ j \in 1..Len(AttNames) /\ j # k + 1
      BY NamesAre
  <2>2. AttNames[j] # c
      BY <2>1, NamesAssumption, NamesAre DEF c
  <2>3. AttNames[j] \in Names /\ Text!Settings(f, AttNames[j]) = {}
      BY <2>1, NamesAre DEF Saves
  <2> QED BY <1>6, <2>2, <2>3
<1>10. \A n \in Names : \A i1, i2 \in Text!Settings(g, n) : i1 = i2
  <2> TAKE n \in Names
  <2>1. CASE n = c
    <3>1. k + 1 \in k + 1..Len(AttNames)
        OBVIOUS
    <3>2. Text!Settings(f, c) = {}
        BY <3>1 DEF Saves, c
    <3> QED BY <1>6, <2>1, <3>2
  <2>2. CASE n # c
    <3>1. \A i1, i2 \in Text!Settings(f, n) : i1 = i2
        BY DEF Saves
    <3> QED BY <1>6, <2>2, <3>1
  <2> QED BY <2>1, <2>2
<1> QED BY <1>2, <1>5, <1>7, <1>8, <1>9, <1>10 DEF Saves, g

LEMMA SavedMeans ==
  ASSUME NEW v \in [Names -> Seq(Symbols)], \A n \in Names : Text!IsValue(v[n])
  PROVE  /\ Text!WellFormed(TextOf(v))
         /\ \A n \in Names :
              /\ Text!Sets(TextOf(v), n) /\ Text!Written(TextOf(v), n) = v[n]
              /\ \A i1, i2 \in Text!Settings(TextOf(v), n) : i1 = i2
<1> DEFINE N == Len(AttNames)
<1>1. PICK h \in [1..N -> Seq(Symbols)] :
        /\ h[1] = LineOf(v, 1)
        /\ \A i \in 2..N : h[i] = h[i - 1] \o LineOf(v, i)
        /\ TextOf(v) = h[N]
    BY TextIs
<1>2. N \in Nat \ {0} /\ 1 \in 1..N /\ N \in 1..N
    BY NamesAre
<1> HIDE DEF N
<1> DEFINE T == {k \in Nat : k + 1 \in 1..N => Saves(v, h[k + 1], k + 1)}
<1>3. 0 \in T
  <2>1. Saves(v, << >>, 0)
    <3>1. << >> \in Seq(Symbols) /\ Len(<< >>) = 0
        BY EmptySeq
    <3>2. DOMAIN << >> = {}
        OBVIOUS
    <3>3. Text!LineStarts(<< >>) = {}
        BY <3>2 DEF Text!LineStarts
    <3> QED BY <3>1, <3>3, NamesAre DEF Saves, Ended, Text!WellFormed, Text!Settings
  <2>2. 0 + 1 = 1 /\ 0 + 1 \in 1..Len(AttNames)
      BY <1>2 DEF N
  <2>3. Saves(v, << >> \o LineOf(v, 0 + 1), 0 + 1)
      BY <2>1, <2>2, SavedNext
  <2>4. << >> \o LineOf(v, 1) = LineOf(v, 1)
    <3>1. LineOf(v, 1) \in Seq(Symbols)
        BY <1>1, <1>2
    <3> QED BY <3>1, ConcatEmptySeq
  <2>5. Saves(v, h[1], 1)
      BY <1>1, <2>2, <2>3, <2>4
  <2> QED BY <2>2, <2>5
<1>4. ASSUME NEW k \in T PROVE k + 1 \in T
  <2> SUFFICES ASSUME (k + 1) + 1 \in 1..N PROVE Saves(v, h[(k + 1) + 1], (k + 1) + 1)
      OBVIOUS
  <2>1. k \in Nat /\ k + 1 \in 1..N /\ k + 1 \in Nat /\ (k + 1) + 1 \in 2..N
        /\ ((k + 1) + 1) - 1 = k + 1
      BY <1>2
  <2>2. Saves(v, h[k + 1], k + 1)
      BY <2>1
  <2>3. h[(k + 1) + 1] = h[k + 1] \o LineOf(v, (k + 1) + 1)
      BY <1>1, <2>1
  <2> QED BY <2>1, <2>2, <2>3, SavedNext DEF N
<1>5. T = Nat
  <2>1. T \in SUBSET Nat
      OBVIOUS
  <2> HIDE DEF T
  <2> QED BY <1>3, <1>4, <2>1, NatSet
<1>6. Saves(v, TextOf(v), N)
  <2>1. N - 1 \in Nat /\ (N - 1) + 1 = N
      BY <1>2
  <2>2. N - 1 \in T
      BY <1>5, <2>1
  <2>3. Saves(v, h[N], N)
      BY <1>2, <2>1, <2>2
  <2> QED BY <1>1, <2>3
<1> DEFINE f == TextOf(v)
<1> HIDE DEF f
<1>7. f \in Seq(Symbols) /\ Text!WellFormed(f)
    BY <1>6 DEF Saves, f
<1>8. ASSUME NEW n \in Names 
      PROVE  /\ Text!Sets(f, n) /\ Text!Written(f, n) = v[n]
             /\ \A i1, i2 \in Text!Settings(f, n) : i1 = i2
  <2>1. PICK j \in 1..N : n = AttNames[j]
      BY NamesAre DEF N
  <2> DEFINE S == Text!Settings(f, n)
  <2>2. S # {} /\ \A i \in S : Text!ValueIn(Text!LineAt(f, i)) = v[n]
      BY <1>6, <2>1 DEF Saves, f
  <2>3. S \in SUBSET (1..Len(f)) /\ Len(f) \in Nat
      BY <1>7, SettingsAre, SeqPlaces
  <2> HIDE DEF S
  <2>4. PICK m \in S : \A k \in S : k <= m
      BY <2>2, <2>3, GreatestNat
  <2>5. Text!Max(S) = m
    <3>1. S \in SUBSET Int
        BY <2>3
    <3> QED BY <2>4, <3>1, MaxIs
  <2>6. \A i1, i2 \in S : i1 = i2
      BY <1>6 DEF Saves, f, S
  <2> QED BY <2>2, <2>5, <2>6 DEF Text!Sets, Text!Written, S
<1> QED BY <1>7, <1>8 DEF f

\* The flash holds what was saved last.
SavedInv == saved # NoFile => flash = TextOf(saved)

LEMMA SavedInvStep ==
  ASSUME TypeOK, SavedInv, [Next]_vars
  PROVE  SavedInv'
<1>1. CASE SetAndSave
    BY <1>1, SavedText DEF SavedInv
<1>2. CASE flash' = flash /\ saved' = saved
    BY <1>2 DEF SavedInv, TextOf, LineOf
<1>3. CASE ConfigInit \/ SkipComment
    BY <1>2, <1>3 DEF ConfigInit, SkipComment, files
<1>4. CASE GetName \/ GetEqual \/ GetValue
    BY <1>2, <1>4 DEF GetName, GetEqual, GetValue, GetToken, files
<1>5. CASE EndOfFile \/ Unexpected \/ SetTwice
    BY <1>2, <1>5 DEF EndOfFile, Unexpected, SetTwice, Return, files
<1>6. CASE SetOnly \/ Reset \/ RemoveCard \/ UNCHANGED vars
    BY <1>2, <1>6 DEF SetOnly, Reset, RemoveCard, vars, files
<1> QED BY <1>1, <1>3, <1>4, <1>5, <1>6 DEF Next, ParseStep

LEMMA SavedStep ==
  ASSUME ParseInv, SavedInv, [Next]_vars, Parsed, card = NoFile, saved # NoFile,
         \A n \in Names : Text!IsValue(saved[n])
  PROVE  phase' = "running" /\ \A n \in Names : Value(n)' = saved[n]
<1>1. TypeOK /\ saved \in [Names -> Seq(Symbols)] /\ flash = TextOf(saved)
    BY DEF ParseInv, TypeOK, SavedInv
<1>2. FlashGood
      /\ \A n \in Names : Text!Sets(flash, n) /\ Text!Written(flash, n) = saved[n]
    BY <1>1, SavedMeans DEF FlashGood, Text!SetsOnce
<1>3. flash # NoFile
    BY <1>1, TextType, FilesAssumption
<1>4. EndOfFile \/ Unexpected \/ SetTwice
    BY ParsedBy
<1>5. phase = "flash"
    BY DEF Parsed, Parsing, ParseInv, Source
<1>6. EndOfFile
    BY <1>2, <1>4, <1>5, FlashRead, NamesAre
<1>7. phase' = "running"
    BY <1>5, <1>6 DEF EndOfFile, Return, ReadCard
<1>8. ASSUME NEW n \in Names PROVE Value(n)' = saved[n]
  <2>1. Value(n)' = IF IsSet(card, n) THEN Text!Written(card, n)
                    ELSE IF IsSet(flash, n) THEN Text!Written(flash, n)
                    ELSE Default[n]
      BY <1>2, MeansStep DEF CardGood
  <2> QED BY <1>2, <1>3, <2>1 DEF IsSet
<1> QED BY <1>7, <1>8

\* Whatever was set and saved comes back when the board starts again without a
\* card: what GetConfig writes is read by GetToken as it was.
THEOREM SavedIsRead == Spec => SavedComesBack
<1>1. Init => SavedInv
    BY DEF Init, SavedInv
<1>2. TypeOK /\ SavedInv /\ [Next]_vars => SavedInv'
    BY SavedInvStep
<1>3. Spec => []SavedInv
    BY <1>1, <1>2, TypeCorrect, PTL DEF Spec
<1>4. ParseInv /\ SavedInv /\ [Next]_vars =>
        (Parsed /\ card = NoFile /\ saved # NoFile
           /\ (\A n \in Names : Text!IsValue(saved[n]))
         => phase' = "running" /\ \A n \in Names : Value(n)' = saved[n])
    BY SavedStep
<1>5. Spec => [][Next]_vars
    BY DEF Spec
<1> QED BY <1>3, <1>4, <1>5, ParseCorrect, PTL DEF SavedComesBack

-----------------------------------------------------------------------------
\* Why the parser comes to an end, as far as steps can tell.

\* A token or a comment of no length would be read for ever.
Advances ==
  [][Parsing /\ phase' = phase => idxAtBuffer' > idxAtBuffer]_vars

LEMMA TokenAdvances ==
  ASSUME TypeOK, NEW expected, NEW type, type # "EOF", GetToken(expected, type)
  PROVE  idxAtBuffer' > idxAtBuffer
<1>1. Len(file) \in Nat /\ idxAtBuffer \in 1..Len(file) + 1
    BY SeqPlaces DEF TypeOK
<1>2. /\ Start \in idxAtBuffer..Len(file) + 1 /\ Len(Token) \in Nat /\ Token \in Seq(Symbols)
      /\ At(Start) = "=" => Len(Token) = 1
    BY TokenIs
<1>3. Len(Token) # 0
  <2>1. TokenType # "EOF"
      BY DEF GetToken
  <2>2. At(Start) = "=" \/ Token # << >>
      BY <2>1 DEF TokenType
  <2> QED BY <1>2, <2>2, EmptySeq
<1>4. idxAtBuffer' = Start + Len(Token)
    BY DEF GetToken
<1> HIDE DEF Start, Token
<1> QED BY <1>1, <1>2, <1>3, <1>4

LEMMA AdvancesStep ==
  ASSUME TypeOK, [Next]_vars, ~UNCHANGED vars, Parsing, phase' = phase
  PROVE  idxAtBuffer' > idxAtBuffer
<1>1. CASE SkipComment
  <2>1. Len(file) \in Nat /\ idxAtBuffer \in 1..Len(file) + 1
      BY SeqPlaces DEF TypeOK
  <2>2. Start \in idxAtBuffer..Len(file) + 1 /\ At(Start) = "#"
      BY <1>1, TokenIs DEF SkipComment, InComment
  <2>3. Start # Len(file) + 1 /\ file[Start] \notin LineEnds
      BY <2>1, <2>2 DEF At, LineEnds
  <2>4. Start \in 1..Len(file) + 1
    <3> HIDE DEF Start
    <3> QED BY <2>1, <2>2
  <2>5. /\ Find(Start, LineEnds) \in Start..Len(file) + 1
        /\ Find(Start, LineEnds) = Len(file) + 1 \/ file[Find(Start, LineEnds)] \in LineEnds
      BY <2>4, FindIs DEF IsPlace
  <2>6. Find(Start, LineEnds) # Start
      BY <2>3, <2>5
  <2>7. idxAtBuffer' = Find(Start, LineEnds)
      BY <1>1 DEF SkipComment
  <2> HIDE DEF Start, Find
  <2> QED BY <2>1, <2>2, <2>4, <2>5, <2>6, <2>7
<1>2. CASE GetName
    BY <1>2, TokenAdvances DEF GetName
<1>3. CASE GetEqual
    BY <1>3, TokenAdvances DEF GetEqual
<1>4. CASE GetValue
    BY <1>4, TokenAdvances DEF GetValue
<1>5. CASE EndOfFile \/ Unexpected \/ SetTwice
  <2>1. PICK result \in BOOLEAN : Return(result)
      BY <1>5 DEF EndOfFile, Unexpected, SetTwice
  <2>2. phase = "card" => phase' # "card"
      BY <2>1 DEF Return
  <2>3. phase = "flash" => phase' # "flash"
      BY <2>1 DEF Return, ReadCard
  <2> QED BY <2>2, <2>3 DEF Parsing
<1>6. CASE ConfigInit \/ SetAndSave \/ SetOnly \/ Reset \/ RemoveCard
    BY <1>6 DEF ConfigInit, SetAndSave, SetOnly, SetAttValue, Reset, RemoveCard, Parsing
<1> QED BY <1>1, <1>2, <1>3, <1>4, <1>5, <1>6 DEF Next, ParseStep

\* Every token and every comment brings the parser on in its file, which has an
\* end (TypeCorrect): whatever the file holds, no step of it is taken twice.
THEOREM EveryStepAdvances == Spec => Advances
<1>1. TypeOK /\ [Next]_vars /\ ~UNCHANGED vars =>
        (Parsing /\ phase' = phase => idxAtBuffer' > idxAtBuffer)
    BY AdvancesStep
<1>2. TypeOK /\ [Next]_vars =>
        [Parsing /\ phase' = phase => idxAtBuffer' > idxAtBuffer]_vars
    BY <1>1
<1>3. Spec => [][Next]_vars
    BY DEF Spec
<1> QED BY <1>2, <1>3, TypeCorrect, PTL DEF Advances
=============================================================================
