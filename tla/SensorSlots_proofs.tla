-------------------------- MODULE SensorSlots_proofs --------------------------
(***************************************************************************)
(* For any sensors, any sysfs and any number of temperatures: the searches *)
(* for devices are right, the drivers have files of their own, and the     *)
(* slots of the TemperatureState belong to whom they were given.           *)
(***************************************************************************)
EXTENDS SensorSlots, WellFoundedInduction, FiniteSetTheorems, TLAPS

-----------------------------------------------------------------------------
(* Sequences *)

\* Every set of natural numbers that is not empty has a least element; induction
\* over natural numbers follows from it.
LEMMA LeastNatural ==
  ASSUME NEW T \in SUBSET Nat, T # {}
  PROVE  \E m \in T : \A k \in T : m <= k
<1>1. PICK m \in T : \A k \in T : ~ (<<k, m>> \in OpToRel(<, Nat))
  BY Zenon, NatLessThanWellFounded, WFMin
<1>2. \A k \in T : ~(k < m)
  BY <1>1, Zenon DEF OpToRel
<1> HIDE <1>1
<1> QED
  BY <1>2

\* The function by which FlattenSeq is computed.
Flattening(f, seqs) ==
  f = [i \in 1..Len(seqs) |-> IF i = 1 THEN seqs[i] ELSE f[i - 1] \o seqs[i]]

\* Such a function exists, for sequences of any length.
LEMMA FlatteningExists ==
  ASSUME NEW S, NEW seqs \in Seq(Seq(S))
  PROVE  \E f : Flattening(f, seqs)
<1> DEFINE Upto(f, n) == f = [i \in 1..n |-> IF i = 1 THEN seqs[i] ELSE f[i - 1] \o seqs[i]]
           Missing == {n \in Nat : ~ \E f : Upto(f, n)}
<1>0. /\ Missing \in SUBSET Nat
      /\ \A n \in Nat : n \notin Missing => \E f : Upto(f, n)
      /\ \A n \in Missing : ~ \E f : Upto(f, n)
  OBVIOUS
<1> HIDE DEF Missing
<1>1. Missing = {}
  <2> SUFFICES ASSUME Missing # {} PROVE FALSE
    OBVIOUS
  <2>1. PICK n \in Missing : \A k \in Missing : n <= k
    BY <1>0, LeastNatural
  <2>2. n # 0
    <3>1. Upto([i \in 1..0 |-> 0], 0)
      OBVIOUS
    <3> HIDE DEF Upto
    <3> QED
      BY <1>0, <3>1
  <2>3. n \in Nat /\ n - 1 \in Nat /\ n - 1 \notin Missing
    <3> HIDE DEF Upto
    <3> QED
      BY <1>0, <2>1, <2>2
  <2>4. PICK f : Upto(f, n - 1)
    BY <1>0, <2>3, Zenon
  <2> DEFINE g == [i \in 1..n |-> IF i = 1 THEN seqs[i] ELSE f[i - 1] \o seqs[i]]
  <2>5. ASSUME NEW i \in 1..n, i # 1 PROVE g[i - 1] = f[i - 1]
    <3>1. i - 1 \in 1..n - 1 /\ i - 1 \in 1..n
      BY <2>3, <2>5
    <3>2. f[i - 1] = IF i - 1 = 1 THEN seqs[i - 1] ELSE f[i - 1 - 1] \o seqs[i - 1]
      BY <2>4, <3>1
    <3> QED
      BY <3>1, <3>2
  <2>6. Upto(g, n)
    BY <2>5
  <2> HIDE DEF g
  <2> QED
    BY <1>0, <2>6, Zenon
<1>2. Len(seqs) \in Nat /\ Len(seqs) \notin Missing
  BY <1>1
<1> QED
  BY <1>0, <1>2, Zenon DEF Flattening

\* FlattenSeq takes it at the last of the sequences.
LEMMA FlattenSeqDef ==
  ASSUME NEW S, NEW seqs \in Seq(Seq(S)), seqs # <<>>
  PROVE  \E f : Flattening(f, seqs) /\ FlattenSeq(seqs) = f[Len(seqs)]
<1> DEFINE f == CHOOSE f : Flattening(f, seqs)
<1>1. Flattening(f, seqs)
  BY FlatteningExists
<1>2. Len(seqs) # 0
  OBVIOUS
<1>3. FlattenSeq(seqs) = f[Len(seqs)]
  BY <1>2, Zenon DEF FlattenSeq, Flattening
<1> HIDE DEF f
<1> QED
  BY <1>1, <1>3

\* A concatenation has the elements of both sequences.
LEMMA ToSetOfConcat ==
  ASSUME NEW S, NEW s \in Seq(S), NEW t \in Seq(S)
  PROVE  ToSet(s \o t) = ToSet(s) \union ToSet(t)
<1>1. /\ s \o t \in Seq(S) /\ Len(s \o t) = Len(s) + Len(t)
      /\ \A i \in 1..Len(s) : (s \o t)[i] = s[i]
      /\ \A i \in 1..Len(t) : (s \o t)[Len(s) + i] = t[i]
  OBVIOUS
<1>2. ToSet(s \o t) \subseteq ToSet(s) \union ToSet(t)
  <2> SUFFICES ASSUME NEW i \in 1..Len(s) + Len(t)
               PROVE  (s \o t)[i] \in ToSet(s) \union ToSet(t)
    BY <1>1 DEF ToSet
  <2>1. CASE i <= Len(s)
    BY <1>1, <2>1 DEF ToSet
  <2>2. CASE i > Len(s)
    <3>1. i - Len(s) \in 1..Len(t) /\ i = Len(s) + (i - Len(s))
      BY <2>2
    <3> QED
      BY <1>1, <3>1 DEF ToSet
  <2> QED
    BY <2>1, <2>2
<1>3. ToSet(s) \subseteq ToSet(s \o t)
  BY <1>1 DEF ToSet
<1>4. ToSet(t) \subseteq ToSet(s \o t)
  <2> SUFFICES ASSUME NEW i \in 1..Len(t) PROVE t[i] \in ToSet(s \o t)
    BY DEF ToSet
  <2>1. Len(s) + i \in 1..Len(s) + Len(t)
    OBVIOUS
  <2>2. PICK u \in Seq(S) : u = s \o t
    BY <1>1
  <2>3. DOMAIN u = 1..Len(s) + Len(t) /\ u[Len(s) + i] = t[i]
    BY <1>1, <2>2
  <2>4. t[i] \in ToSet(u)
    BY <2>1, <2>3 DEF ToSet
  <2> QED
    BY <2>2, <2>4
<1> QED
  BY <1>2, <1>3, <1>4

\* FlattenSeq has the elements of all sequences.
LEMMA FlattenSeqProperties ==
  ASSUME NEW S, NEW seqs \in Seq(Seq(S))
  PROVE  /\ FlattenSeq(seqs) \in Seq(S)
         /\ ToSet(FlattenSeq(seqs)) = UNION {ToSet(seqs[i]) : i \in DOMAIN seqs}
<1>1. CASE seqs = <<>>
  <2>1. FlattenSeq(seqs) = <<>>
    BY <1>1 DEF FlattenSeq
  <2>2. <<>> \in Seq(S) /\ ToSet(<<>>) = {} /\ DOMAIN seqs = {}
    BY <1>1 DEF ToSet
  <2> QED
    BY <2>1, <2>2
<1>2. CASE seqs # <<>>
  <2>1. PICK f : Flattening(f, seqs) /\ FlattenSeq(seqs) = f[Len(seqs)]
    BY <1>2, FlattenSeqDef
  <2> DEFINE Right(n) == /\ f[n] \in Seq(S)
                         /\ ToSet(f[n]) = UNION {ToSet(seqs[i]) : i \in 1..n}
             Wrong == {n \in 1..Len(seqs) : ~ Right(n)}
  <2>2. /\ Wrong \in SUBSET (1..Len(seqs))
        /\ \A n \in 1..Len(seqs) : n \notin Wrong => Right(n)
        /\ \A n \in Wrong : ~ Right(n)
    OBVIOUS
  <2> HIDE DEF Wrong
  <2>3. Wrong = {}
    <3> SUFFICES ASSUME Wrong # {} PROVE FALSE
      OBVIOUS
    <3>1. Len(seqs) \in Nat /\ Wrong \in SUBSET Nat
      BY <2>2
    <3>2. PICK n \in Wrong : \A k \in Wrong : n <= k
      BY <3>1, LeastNatural
    <3>3. n \in 1..Len(seqs) /\ seqs[n] \in Seq(S)
      BY <2>2
    <3>4. n # 1
      <4>1. f[1] = seqs[1] /\ seqs[1] \in Seq(S)
        BY <2>1, <3>3 DEF Flattening
      <4>2. Right(1)
        BY <4>1
      <4> QED
        BY <2>2, <4>2
    <3>5. n - 1 \in 1..Len(seqs) /\ n - 1 \notin Wrong
      <4> HIDE DEF Right
      <4> QED
        BY <3>1, <3>2, <3>3, <3>4
    <3>6. Right(n - 1)
      BY <2>2, <3>5, Zenon
    <3>7. f[n] = f[n - 1] \o seqs[n]
      BY <2>1, <3>3, <3>4 DEF Flattening
    <3>8. ToSet(f[n]) = ToSet(f[n - 1]) \union ToSet(seqs[n]) /\ f[n] \in Seq(S)
      BY <3>3, <3>6, <3>7, ToSetOfConcat
    <3>9. 1..n = (1..n - 1) \union {n}
      BY <3>3
    <3>10. Right(n)
      BY <3>6, <3>8, <3>9
    <3> HIDE DEF Right
    <3> QED
      BY <2>2, <3>10
  <2>4. Right(Len(seqs))
    <3>1. Len(seqs) \in 1..Len(seqs)
      BY <1>2
    <3> HIDE DEF Right
    <3> QED
      BY <2>2, <2>3, <3>1
  <2>5. DOMAIN seqs = 1..Len(seqs)
    OBVIOUS
  <2> QED
    BY <2>1, <2>4, <2>5
<1> QED
  BY <1>1, <1>2

-----------------------------------------------------------------------------
(* find_hwmons_by_name and find_hwmons_by_model *)

\* The entries that filter_subdirs lets through are directories.
LEMMA SubdirsType ==
  ASSUME NEW t, IsTree(t), NEW d \in Dirs
  PROVE  Subdirs(t, d) \in Seq(Dirs)
  BY DEF IsTree, Subdirs

\* What a search by name or model finds below each directory, from what it finds
\* one level deeper.
LabelLevel(next, t, label, value, depth) ==
  [d \in Dirs |->
     IF t[label][d] = value THEN <<d>>
     ELSE IF depth = MaxDepth THEN <<>>
     ELSE LET subs == Subdirs(t, d)
          IN  FlattenSeq([i \in DOMAIN subs |-> next[subs[i]]])]

\* The results of a search by name or model, at all depths.
Labelling(f, t, label, value) ==
  f = [depth \in 1..MaxDepth |-> LabelLevel(f[depth + 1], t, label, value, depth)]

\* There are such results: the deepest level needs no other.
LEMMA LabellingExists ==
  ASSUME NEW t, NEW label, NEW value
  PROVE  \E f : Labelling(f, t, label, value)
<1> DEFINE Level(next, depth) == LabelLevel(next, t, label, value, depth)
           l5 == Level(<<>>, 5)
           l4 == Level(l5, 4)
           l3 == Level(l4, 3)
           l2 == Level(l3, 2)
           f == <<Level(l2, 1), l2, l3, l4, l5>>
<1>1. \A x : Level(x, 5) = l5
  BY DEF LabelLevel, MaxDepth
<1> HIDE DEF Level
<1>2. f = [depth \in 1..5 |-> Level(f[depth + 1], depth)]
  <2>1. ASSUME NEW depth \in 1..5 PROVE f[depth] = Level(f[depth + 1], depth)
    BY <1>1, depth \in {1, 2, 3, 4, 5}
  <2>2. f = [depth \in 1..5 |-> f[depth]]
    OBVIOUS
  <2> HIDE DEF f
  <2> QED
    BY <2>1, <2>2
<1> HIDE DEF f
<1> QED
  BY <1>2 DEF Labelling, MaxDepth, Level

\* find_hwmons_by_name takes them at the first depth.
LEMMA LabelledDef ==
  ASSUME NEW t, NEW label, NEW value, NEW root
  PROVE  \E f : Labelling(f, t, label, value) /\ Labelled(t, label, value, root) = f[1][root]
<1> DEFINE f == CHOOSE f : Labelling(f, t, label, value)
<1>1. Labelling(f, t, label, value)
  BY LabellingExists
<1>2. Labelled(t, label, value, root) = f[1][root]
  BY Zenon DEF Labelled, Labelling, LabelLevel
<1> HIDE DEF f
<1> QED
  BY <1>1, <1>2

\* What it finds level by level.
LevelByLevel(f, t, label, value) ==
  /\ \A n \in 1..MaxDepth : f[n] \in [Dirs -> Seq(Dirs)]
  /\ \A n \in 1..MaxDepth : \A d \in Dirs :
       /\ t[label][d] = value => ToSet(f[n][d]) = {d}
       /\ t[label][d] # value /\ n = MaxDepth => ToSet(f[n][d]) = {}
       /\ t[label][d] # value /\ n # MaxDepth =>
            \A e : e \in ToSet(f[n][d]) <=>
                     \E c \in ToSet(Subdirs(t, d)) : e \in ToSet(f[n + 1][c])

\* At each depth, it finds the directories of which LevelByLevel speaks.
LEMMA LabelledSteps ==
  ASSUME NEW t, IsTree(t), NEW label, NEW value, NEW f, Labelling(f, t, label, value)
  PROVE  LevelByLevel(f, t, label, value)
<1>1. \A n \in 1..MaxDepth : f[n] = LabelLevel(f[n + 1], t, label, value, n)
  BY DEF Labelling
<1>2. ASSUME NEW n \in 1..MaxDepth, n < MaxDepth => f[n + 1] \in [Dirs -> Seq(Dirs)]
      PROVE  /\ f[n] \in [Dirs -> Seq(Dirs)]
             /\ \A d \in Dirs :
                  /\ t[label][d] = value => ToSet(f[n][d]) = {d}
                  /\ t[label][d] # value /\ n = MaxDepth => ToSet(f[n][d]) = {}
                  /\ t[label][d] # value /\ n # MaxDepth =>
                       \A e : e \in ToSet(f[n][d]) <=>
                                \E c \in ToSet(Subdirs(t, d)) : e \in ToSet(f[n + 1][c])
  <2>1. ASSUME NEW d \in Dirs
        PROVE  /\ f[n][d] \in Seq(Dirs)
               /\ t[label][d] = value => ToSet(f[n][d]) = {d}
               /\ t[label][d] # value /\ n = MaxDepth => ToSet(f[n][d]) = {}
               /\ t[label][d] # value /\ n # MaxDepth =>
                    \A e : e \in ToSet(f[n][d]) <=>
                             \E c \in ToSet(Subdirs(t, d)) : e \in ToSet(f[n + 1][c])
    <3> DEFINE subs == Subdirs(t, d)
               below == [i \in DOMAIN subs |-> f[n + 1][subs[i]]]
    <3>1. f[n][d] = IF t[label][d] = value THEN <<d>>
                    ELSE IF n = MaxDepth THEN <<>>
                    ELSE FlattenSeq(below)
      BY <1>1 DEF LabelLevel
    <3>2. CASE t[label][d] = value
      BY <3>1, <3>2 DEF ToSet
    <3>3. CASE t[label][d] # value /\ n = MaxDepth
      <4>1. <<>> \in Seq(Dirs) /\ ToSet(<<>>) = {}
        BY DEF ToSet
      <4> QED
        BY <3>1, <3>3, <4>1
    <3>4. CASE t[label][d] # value /\ n # MaxDepth
      <4>1. subs \in Seq(Dirs) /\ n < MaxDepth
        BY <3>4, SubdirsType DEF MaxDepth
      <4>2. DOMAIN subs = 1..Len(subs) /\ Len(subs) \in Nat
        BY <4>1
      <4>3. \A i \in 1..Len(subs) : below[i] = f[n + 1][subs[i]] /\ below[i] \in Seq(Dirs)
        <5>1. \A i \in 1..Len(subs) : subs[i] \in Dirs
          BY <4>1, <4>2
        <5> QED
          BY <1>2, <4>1, <4>2, <5>1
      <4>4. below \in Seq(Seq(Dirs)) /\ DOMAIN below = DOMAIN subs
        <5>1. below = [i \in 1..Len(subs) |-> below[i]]
          BY <4>2
        <5> HIDE DEF below, subs
        <5> QED
          BY <4>2, <4>3, <5>1
      <4>5. {ToSet(below[i]) : i \in DOMAIN below} = {ToSet(f[n + 1][c]) : c \in ToSet(subs)}
        <5> HIDE DEF below, subs
        <5>1. \A i \in DOMAIN subs : ToSet(below[i]) = ToSet(f[n + 1][subs[i]])
          BY <4>2, <4>3
        <5>2. ToSet(subs) = {subs[i] : i \in DOMAIN subs}
          BY DEF ToSet
        <5> QED
          BY <4>4, <5>1, <5>2
      <4>6. /\ f[n][d] \in Seq(Dirs)
            /\ ToSet(f[n][d]) = UNION {ToSet(below[i]) : i \in DOMAIN below}
        <5> HIDE DEF below
        <5> QED
          BY <3>1, <3>4, <4>4, FlattenSeqProperties
      <4>7. \A e : e \in ToSet(f[n][d]) <=> \E c \in ToSet(subs) : e \in ToSet(f[n + 1][c])
        <5> HIDE DEF below, subs
        <5> QED
          BY <4>5, <4>6
      <4> QED
        BY <3>4, <4>6, <4>7
    <3> QED
      BY <3>2, <3>3, <3>4
  <2>2. f[n] = [d \in Dirs |-> f[n][d]]
    BY <1>1 DEF LabelLevel
  <2> QED
    BY <2>1, <2>2
<1>3. MaxDepth = 5
  BY DEF MaxDepth
<1>4. f[5] \in [Dirs -> Seq(Dirs)]
  BY <1>2, <1>3
<1>5. f[4] \in [Dirs -> Seq(Dirs)]
  BY <1>2, <1>3, <1>4
<1>6. f[3] \in [Dirs -> Seq(Dirs)]
  BY <1>2, <1>3, <1>5
<1>7. f[2] \in [Dirs -> Seq(Dirs)]
  BY <1>2, <1>3, <1>6
<1>8. \A n \in 1..MaxDepth : n < MaxDepth => f[n + 1] \in [Dirs -> Seq(Dirs)]
  <2> SUFFICES ASSUME NEW n \in 1..MaxDepth, n < MaxDepth
               PROVE  f[n + 1] \in [Dirs -> Seq(Dirs)]
    OBVIOUS
  <2>1. n + 1 \in {2, 3, 4, 5}
    BY <1>3
  <2> QED
    BY <1>4, <1>5, <1>6, <1>7, <2>1
<1> QED
  BY <1>2, <1>8 DEF LevelByLevel

\* The directories by the length of the way, from those that are one link nearer.
LEMMA WaysDef ==
  ASSUME NEW t, NEW label, NEW value, NEW root
  PROVE  /\ Ways(t, label, value, root)[0] = {root}
         /\ \A n \in 1..MaxDepth - 1 :
              Ways(t, label, value, root)[n] =
                UNION {ToSet(Subdirs(t, d)) :
                         d \in {c \in Ways(t, label, value, root)[n - 1] : t[label][c] # value}}
<1> DEFINE Next1(s) == UNION {ToSet(Subdirs(t, d)) : d \in {c \in s : t[label][c] # value}}
           Is(f) == f = [n \in 0..MaxDepth - 1 |-> IF n = 0 THEN {root} ELSE Next1(f[n - 1])]
           w1 == Next1({root})
           w2 == Next1(w1)
           w3 == Next1(w2)
           w4 == Next1(w3)
           ws == <<{root}, w1, w2, w3, w4>>
           f == [n \in 0..MaxDepth - 1 |-> ws[n + 1]]
<1> HIDE DEF Next1
<1>1. Is(f)
  <2>1. ASSUME NEW n \in 0..4 PROVE ws[n + 1] = IF n = 0 THEN {root} ELSE Next1(ws[n])
    BY n \in {0, 1, 2, 3, 4}
  <2>2. ASSUME NEW n \in 0..4, n # 0 PROVE f[n - 1] = ws[n]
    BY <2>2 DEF MaxDepth
  <2>3. \A n \in 0..4 : f[n] = IF n = 0 THEN {root} ELSE Next1(f[n - 1])
    <3> HIDE DEF ws
    <3> QED
      BY <2>1, <2>2 DEF MaxDepth
  <2>4. f = [n \in 0..4 |-> f[n]]
    BY DEF MaxDepth
  <2> HIDE DEF f
  <2> QED
    BY <2>3, <2>4 DEF MaxDepth
<1>2. Is(Ways(t, label, value, root))
  <2>1. \E g : Is(g)
    <3> HIDE DEF f, Is
    <3> QED
      BY <1>1
  <2>2. Ways(t, label, value, root) = CHOOSE g : Is(g)
    BY Zenon DEF Ways, Next1
  <2> HIDE DEF Is
  <2> QED
    BY <2>1, <2>2
<1> QED
  BY <1>2 DEF MaxDepth, Next1

\* The ways of a search by name or model lead to directories.
LEMMA WaysType ==
  ASSUME NEW t, IsTree(t), NEW label, NEW value, NEW root \in Dirs
  PROVE  \A n \in 0..MaxDepth - 1 : Ways(t, label, value, root)[n] \subseteq Dirs
<1> DEFINE w == Ways(t, label, value, root)
<1>1. w[0] \subseteq Dirs
  BY WaysDef
<1>2. ASSUME NEW n \in 1..MaxDepth - 1, w[n - 1] \subseteq Dirs
      PROVE  w[n] \subseteq Dirs
  <2>1. \A d \in Dirs : ToSet(Subdirs(t, d)) \subseteq Dirs
    BY SubdirsType DEF ToSet
  <2>2. w[n] = UNION {ToSet(Subdirs(t, d)) : d \in {c \in w[n - 1] : t[label][c] # value}}
    BY WaysDef
  <2> HIDE DEF w
  <2> QED
    BY <1>2, <2>1, <2>2
<1> HIDE DEF w
<1>3. w[1] \subseteq Dirs
  BY <1>1, <1>2 DEF MaxDepth
<1>4. w[2] \subseteq Dirs
  BY <1>2, <1>3 DEF MaxDepth
<1>5. w[3] \subseteq Dirs
  BY <1>2, <1>4 DEF MaxDepth
<1>6. w[4] \subseteq Dirs
  BY <1>2, <1>5 DEF MaxDepth
<1>7. 0..MaxDepth - 1 = {0, 1, 2, 3, 4}
  BY DEF MaxDepth
<1> QED
  BY <1>1, <1>3, <1>4, <1>5, <1>6, <1>7 DEF w

\* find_hwmons_by_name and find_hwmons_by_model are right, in every tree.
LEMMA LabelsSearchRight ==
  ASSUME NEW t, IsTree(t), NEW label, NEW value, NEW root \in Dirs
  PROVE  LabelsRight(t, label, value, root) /\ Labelled(t, label, value, root) \in Seq(Dirs)
<1>1. PICK f : Labelling(f, t, label, value) /\ Labelled(t, label, value, root) = f[1][root]
  BY LabelledDef
<1> DEFINE w == Ways(t, label, value, root)
           Has(d) == t[label][d] = value
           Below(n) == UNION {ToSet(f[n + 1][d]) : d \in w[n]}
           Own(n) == {d \in w[n] : Has(d)}
<1>2. \A n \in 0..4 : w[n] \subseteq Dirs
  BY WaysType DEF MaxDepth
<1> DEFINE got(n, d) == ToSet(f[n][d])
           subs(d) == ToSet(Subdirs(t, d))
<1>a. \A n \in 1..MaxDepth : \A d \in Dirs :
        /\ Has(d) => got(n, d) = {d}
        /\ ~Has(d) /\ n = MaxDepth => got(n, d) = {}
        /\ ~Has(d) /\ n # MaxDepth =>
             \A e : e \in got(n, d) <=> \E c \in subs(d) : e \in got(n + 1, c)
  <2>1. Labelling(f, t, label, value)
    BY <1>1
  <2>2. LevelByLevel(f, t, label, value)
    BY <2>1, LabelledSteps
  <2> QED
    BY <2>2 DEF LevelByLevel
<1>b. /\ \A n \in 0..4 : \A e : e \in Below(n) <=> \E d \in w[n] : e \in got(n + 1, d)
      /\ \A n \in 0..3 : \A e :
           e \in w[n + 1] <=> \E d \in w[n] : ~Has(d) /\ e \in subs(d)
  BY WaysDef DEF MaxDepth
<1>3. ASSUME NEW n \in 0..3 PROVE Below(n) = Own(n) \union Below(n + 1)
  <2> HIDE DEF w, Has, got, subs, Below
  <2>1. \A d \in w[n] : d \in Dirs
    BY <1>2
  <2>2. \A d \in w[n] :
          /\ Has(d) => got(n + 1, d) = {d}
          /\ ~Has(d) => \A e : e \in got(n + 1, d) <=> \E c \in subs(d) : e \in got(n + 2, c)
    <3>1. n + 1 \in 1..MaxDepth /\ n + 1 # MaxDepth /\ n + 1 + 1 = n + 2
      BY DEF MaxDepth
    <3> QED
      BY <1>a, <2>1, <3>1
  <2>3. \A e : e \in Below(n) <=> \E d \in w[n] : e \in got(n + 1, d)
    BY <1>b
  <2>4. \A e : e \in Below(n + 1) <=> \E c \in w[n + 1] : e \in got(n + 2, c)
    BY <1>b, n + 1 \in 0..4, n + 1 + 1 = n + 2
  <2>5. \A e : e \in w[n + 1] <=> \E d \in w[n] : ~Has(d) /\ e \in subs(d)
    BY <1>b
  <2>6. \A e : e \in Below(n) => e \in Own(n) \/ e \in Below(n + 1)
    BY <2>2, <2>3, <2>4, <2>5
  <2>7. \A e : e \in Own(n) => e \in Below(n)
    BY <2>2, <2>3
  <2>8. \A e : e \in Below(n + 1) => e \in Below(n)
    BY <2>2, <2>3, <2>4, <2>5
  <2> HIDE DEF Own
  <2> QED
    BY <2>6, <2>7, <2>8
<1>4. Below(4) = Own(4)
  <2> HIDE DEF w, Has, got, subs, Below
  <2>1. \A d \in w[4] : /\ Has(d) => got(5, d) = {d}
                        /\ ~Has(d) => got(5, d) = {}
    BY <1>2, <1>a DEF MaxDepth
  <2> QED
    BY <1>b, <2>1
<1>5. Below(0) = ToSet(Labelled(t, label, value, root))
  BY <1>1, WaysDef
<1>6. Below(0) = {d \in UNION {w[n] : n \in 0..MaxDepth - 1} : Has(d)}
  <2>1. UNION {w[n] : n \in 0..MaxDepth - 1} =
          w[0] \union w[1] \union w[2] \union w[3] \union w[4]
    <3>1. 0..MaxDepth - 1 = {0, 1, 2, 3, 4}
      BY DEF MaxDepth
    <3> HIDE DEF w
    <3> QED
      BY <3>1
  <2>2. Below(0) = Own(0) \union Own(1) \union Own(2) \union Own(3) \union Own(4)
    <3> HIDE DEF Below, Own
    <3> QED
      BY <1>3, <1>4
  <2> HIDE DEF w, Below, Has
  <2> QED
    BY <2>1, <2>2
<1>7. ToSet(Labelled(t, label, value, root)) = {d \in UNION {w[n] : n \in 0..MaxDepth - 1} : Has(d)}
  BY <1>5, <1>6
<1>8. Labelled(t, label, value, root) \in Seq(Dirs)
  BY <1>1, LabelledSteps DEF LevelByLevel, MaxDepth
<1>9. ASSUME NEW m \in Seq(Dirs), Only(m).is = "found" PROVE ToSet(m) = {Only(m).dir}
  <2>1. Len(m) = 1
    BY <1>9 DEF Only, Throws
  <2> QED
    BY <2>1 DEF Only, Found, ToSet
<1> QED
  BY <1>7, <1>8, <1>9 DEF LabelsRight

-----------------------------------------------------------------------------
(* find_hwmons_by_indices *)

\* What a search by indices finds in each directory, from what it finds one level
\* deeper.
IndexLevel(next, t, indices, depth) ==
  [d \in Dirs |->
     IF HasFiles(t, d, indices) THEN Found(d)
     ELSE IF depth > MaxIndexDepth THEN Throws("DriverInitError")
     ELSE IF ~t.scannable[d] THEN Throws("IOerror")
     ELSE FirstHit([i \in HwmonSubs(t, d) |-> next[t.sub[d][i]]])]

\* Its results at all depths.
Indexing(f, t, indices) ==
  f = [depth \in 0..MaxIndexDepth + 1 |-> IndexLevel(f[depth + 1], t, indices, depth)]

\* There are such results: the deepest level needs no other.
LEMMA IndexingExists ==
  ASSUME NEW t, NEW indices
  PROVE  \E f : Indexing(f, t, indices)
<1> DEFINE Level(next, depth) == IndexLevel(next, t, indices, depth)
           l4 == Level(<<>>, 4)
           l3 == Level(l4, 3)
           l2 == Level(l3, 2)
           l1 == Level(l2, 1)
           ls == <<Level(l1, 0), l1, l2, l3, l4>>
           f == [depth \in 0..4 |-> ls[depth + 1]]
<1>1. \A x : Level(x, 4) = l4
  BY DEF IndexLevel, MaxIndexDepth
<1> HIDE DEF Level
<1>2. f = [depth \in 0..4 |-> Level(f[depth + 1], depth)]
  <2>1. ASSUME NEW depth \in 0..4 PROVE ls[depth + 1] = Level(ls[depth + 2], depth)
    BY <1>1, depth \in {0, 1, 2, 3, 4}
  <2>2. ASSUME NEW depth \in 0..4 PROVE f[depth] = Level(f[depth + 1], depth)
    <3>1. CASE depth = 4
      BY <1>1, <3>1
    <3>2. CASE depth # 4
      <4>1. f[depth + 1] = ls[depth + 2] /\ f[depth] = ls[depth + 1]
        BY <3>2
      <4> HIDE DEF f, ls
      <4> QED
        BY <2>1, <4>1
    <3> QED
      BY <3>1, <3>2
  <2>3. f = [depth \in 0..4 |-> f[depth]]
    OBVIOUS
  <2> HIDE DEF f
  <2> QED
    BY <2>2, <2>3
<1> HIDE DEF f
<1> QED
  BY <1>2 DEF Indexing, MaxIndexDepth, Level

\* find_hwmons_by_indices takes them at depth 0.
LEMMA ByIndicesDef ==
  ASSUME NEW t, NEW indices, NEW root
  PROVE  \E f : Indexing(f, t, indices) /\ ByIndices(t, indices, root) = f[0][root]
<1> DEFINE f == CHOOSE f : Indexing(f, t, indices)
<1>1. Indexing(f, t, indices)
  BY IndexingExists
<1>2. ByIndices(t, indices, root) = f[0][root]
  BY Zenon DEF ByIndices, Indexing, IndexLevel
<1> HIDE DEF f
<1> QED
  BY <1>1, <1>2

\* The directories that are n links away, from those that are n - 1 links away.
LEMMA StepsDef ==
  ASSUME NEW t, NEW root
  PROVE  /\ Steps(t, root)[0] = {root}
         /\ \A n \in 1..MaxIndexDepth + 1 :
              Steps(t, root)[n] =
                UNION {IF t.scannable[d] THEN {t.sub[d][i] : i \in HwmonSubs(t, d)} ELSE {} :
                         d \in Steps(t, root)[n - 1]}
<1> DEFINE Next1(s) ==
             UNION {IF t.scannable[d] THEN {t.sub[d][i] : i \in HwmonSubs(t, d)} ELSE {} : d \in s}
           Is(f) == f = [n \in 0..MaxIndexDepth + 1 |-> IF n = 0 THEN {root} ELSE Next1(f[n - 1])]
           w1 == Next1({root})
           w2 == Next1(w1)
           w3 == Next1(w2)
           w4 == Next1(w3)
           ws == <<{root}, w1, w2, w3, w4>>
           f == [n \in 0..MaxIndexDepth + 1 |-> ws[n + 1]]
<1> HIDE DEF Next1
<1>1. Is(f)
  <2>1. ASSUME NEW n \in 0..4 PROVE ws[n + 1] = IF n = 0 THEN {root} ELSE Next1(ws[n])
    BY n \in {0, 1, 2, 3, 4}
  <2>2. ASSUME NEW n \in 0..4, n # 0 PROVE f[n - 1] = ws[n]
    BY <2>2 DEF MaxIndexDepth
  <2>3. \A n \in 0..4 : f[n] = IF n = 0 THEN {root} ELSE Next1(f[n - 1])
    <3> HIDE DEF ws
    <3> QED
      BY <2>1, <2>2 DEF MaxIndexDepth
  <2>4. f = [n \in 0..4 |-> f[n]]
    BY DEF MaxIndexDepth
  <2> HIDE DEF f
  <2> QED
    BY <2>3, <2>4 DEF MaxIndexDepth
<1>2. Is(Steps(t, root))
  <2>1. \E g : Is(g)
    <3> HIDE DEF f, Is
    <3> QED
      BY <1>1
  <2>2. Steps(t, root) = CHOOSE g : Is(g)
    BY Zenon DEF Steps, Next1
  <2> HIDE DEF Is
  <2> QED
    BY <2>1, <2>2
<1> QED
  BY <1>2 DEF MaxIndexDepth, Next1

\* The first hit is a hit, and when there is none nothing was found anywhere.
LEMMA FirstHitProperties ==
  ASSUME NEW results, DOMAIN results \subseteq Nat
  PROVE  \/ FirstHit(results) = None /\ \A i \in DOMAIN results : results[i].is = "none"
         \/ \E i \in DOMAIN results : FirstHit(results) = results[i] /\ results[i].is # "none"
<1> DEFINE hits == {i \in DOMAIN results : results[i].is # "none"}
<1>1. CASE hits = {}
  BY <1>1 DEF FirstHit
<1>2. CASE hits # {}
  <2>1. \E i \in hits : \A j \in hits : i <= j
    BY <1>2, LeastNatural
  <2>2. PICK i \in hits : FirstHit(results) = results[i]
    BY <1>2, <2>1 DEF FirstHit
  <2> QED
    BY <2>2
<1> QED
  BY <1>1, <1>2

\* The ways of a search by indices lead to directories.
LEMMA StepsType ==
  ASSUME NEW t, IsTree(t), NEW root \in Dirs
  PROVE  \A n \in 0..MaxIndexDepth + 1 : Steps(t, root)[n] \subseteq Dirs
<1> DEFINE w == Steps(t, root)
<1>1. w[0] \subseteq Dirs
  BY StepsDef
<1>2. ASSUME NEW n \in 1..MaxIndexDepth + 1, w[n - 1] \subseteq Dirs
      PROVE  w[n] \subseteq Dirs
  <2>1. \A d \in Dirs : {t.sub[d][i] : i \in HwmonSubs(t, d)} \subseteq Dirs
    <3>1. \A d \in Dirs : \A i \in DOMAIN t.sub[d] : t.sub[d][i] \in Dirs
      BY DEF IsTree
    <3> QED
      BY <3>1 DEF HwmonSubs
  <2>2. w[n] = UNION {IF t.scannable[d] THEN {t.sub[d][i] : i \in HwmonSubs(t, d)} ELSE {} :
                        d \in w[n - 1]}
    BY StepsDef
  <2> HIDE DEF w
  <2>3. \A d \in w[n - 1] :
          (IF t.scannable[d] THEN {t.sub[d][i] : i \in HwmonSubs(t, d)} ELSE {}) \subseteq Dirs
    BY <1>2, <2>1
  <2> QED
    BY <2>2, <2>3
<1> HIDE DEF w
<1>3. w[1] \subseteq Dirs
  BY <1>1, <1>2 DEF MaxIndexDepth
<1>4. w[2] \subseteq Dirs
  BY <1>2, <1>3 DEF MaxIndexDepth
<1>5. w[3] \subseteq Dirs
  BY <1>2, <1>4 DEF MaxIndexDepth
<1>6. w[4] \subseteq Dirs
  BY <1>2, <1>5 DEF MaxIndexDepth
<1>7. 0..MaxIndexDepth + 1 = {0, 1, 2, 3, 4}
  BY DEF MaxIndexDepth
<1> QED
  BY <1>1, <1>3, <1>4, <1>5, <1>6, <1>7 DEF w

\* What the search has found in directory d, n links away from the root, is what
\* there is in d itself or what it has found in one of the entries of d.
Decided(f, t, indices, n, d) ==
  /\ f[n][d].is \in {"found", "none", "DriverInitError", "IOerror"}
  /\ \/ f[n][d] = Found(d) /\ HasFiles(t, d, indices)
     \/ f[n][d].is = "DriverInitError" /\ n = MaxIndexDepth + 1
     \/ f[n][d].is = "IOerror" /\ ~t.scannable[d] /\ n <= MaxIndexDepth
     \/ /\ t.scannable[d] /\ n <= MaxIndexDepth /\ f[n][d].is # "none"
        /\ \E i \in HwmonSubs(t, d) : f[n][d] = f[n + 1][t.sub[d][i]]
     \/ /\ t.scannable[d] /\ n <= MaxIndexDepth /\ f[n][d].is = "none" /\ ~HasFiles(t, d, indices)
        /\ \A i \in HwmonSubs(t, d) : f[n + 1][t.sub[d][i]].is = "none"

\* So it is when the results of the next level are of these kinds.
LEMMA Decides ==
  ASSUME NEW t, IsTree(t), NEW indices, NEW f, Indexing(f, t, indices),
         NEW n \in 0..MaxIndexDepth + 1,
         n <= MaxIndexDepth =>
           \A d \in Dirs : f[n + 1][d].is \in {"found", "none", "DriverInitError", "IOerror"}
  PROVE  \A d \in Dirs : Decided(f, t, indices, n, d)
<1> SUFFICES ASSUME NEW d \in Dirs PROVE Decided(f, t, indices, n, d)
  OBVIOUS
<1> DEFINE results == [i \in HwmonSubs(t, d) |-> f[n + 1][t.sub[d][i]]]
<1>1. f[n][d] = IF HasFiles(t, d, indices) THEN Found(d)
                ELSE IF n > MaxIndexDepth THEN Throws("DriverInitError")
                ELSE IF ~t.scannable[d] THEN Throws("IOerror")
                ELSE FirstHit(results)
  <2>1. f[n] = IndexLevel(f[n + 1], t, indices, n)
    BY DEF Indexing
  <2> QED
    BY <2>1, Zenon DEF IndexLevel
<1>2. t.scannable[d] \in BOOLEAN /\ n \in Nat /\ MaxIndexDepth \in Nat
  BY DEF IsTree, MaxIndexDepth
<1>3. CASE HasFiles(t, d, indices)
  BY <1>1, <1>3 DEF Decided, Found
<1>4. CASE ~HasFiles(t, d, indices) /\ n > MaxIndexDepth
  <2>1. n = MaxIndexDepth + 1
    BY <1>2, <1>4
  <2> QED
    BY <1>1, <1>4, <2>1 DEF Decided, Throws
<1>5. CASE ~HasFiles(t, d, indices) /\ n <= MaxIndexDepth /\ ~t.scannable[d]
  BY <1>1, <1>2, <1>5 DEF Decided, Throws
<1>6. CASE ~HasFiles(t, d, indices) /\ n <= MaxIndexDepth /\ t.scannable[d]
  <2>1. f[n][d] = FirstHit(results)
    BY <1>1, <1>2, <1>6
  <2>2. DOMAIN results = HwmonSubs(t, d) /\ HwmonSubs(t, d) \subseteq Nat
    BY DEF HwmonSubs, IsTree
  <2>3. \A i \in HwmonSubs(t, d) : t.sub[d][i] \in Dirs /\ results[i] = f[n + 1][t.sub[d][i]]
    BY DEF HwmonSubs, IsTree
  <2> HIDE DEF results
  <2>4. \/ FirstHit(results) = None /\ \A i \in DOMAIN results : results[i].is = "none"
        \/ \E i \in DOMAIN results : FirstHit(results) = results[i] /\ results[i].is # "none"
    BY <2>2, FirstHitProperties
  <2>5. CASE FirstHit(results) = None /\ \A i \in DOMAIN results : results[i].is = "none"
    BY <1>6, <2>1, <2>2, <2>3, <2>5 DEF None, Decided
  <2>6. CASE \E i \in DOMAIN results : FirstHit(results) = results[i] /\ results[i].is # "none"
    BY <1>6, <2>1, <2>2, <2>3, <2>6 DEF Decided
  <2> QED
    BY <2>4, <2>5, <2>6
<1> QED
  BY <1>2, <1>3, <1>4, <1>5, <1>6

\* So it is at all depths.
LEMMA AllDecided ==
  ASSUME NEW t, IsTree(t), NEW indices, NEW f, Indexing(f, t, indices)
  PROVE  \A n \in 0..MaxIndexDepth + 1 : \A d \in Dirs : Decided(f, t, indices, n, d)
<1> DEFINE D(n) == \A d \in Dirs : Decided(f, t, indices, n, d)
<1>1. ASSUME NEW n \in 0..3, D(n + 1) PROVE D(n)
  <2>1. \A d \in Dirs : f[n + 1][d].is \in {"found", "none", "DriverInitError", "IOerror"}
    BY <1>1 DEF Decided
  <2> QED
    BY <2>1, Decides, n \in 0..MaxIndexDepth + 1 DEF MaxIndexDepth
<1>2. D(4)
  BY Decides, 4 \in 0..MaxIndexDepth + 1, ~(4 <= MaxIndexDepth) DEF MaxIndexDepth
<1> HIDE DEF D
<1>3. D(3) /\ D(2) /\ D(1) /\ D(0)
  BY <1>1, <1>2
<1>4. \A n \in 0..MaxIndexDepth + 1 : n \in {0, 1, 2, 3, 4}
  BY DEF MaxIndexDepth
<1>5. \A n \in 0..MaxIndexDepth + 1 : D(n)
  BY <1>2, <1>3, <1>4
<1> QED
  BY <1>5 DEF D

\* A way that leads on.
LEMMA StepOn ==
  ASSUME NEW t, NEW root, NEW n \in 0..MaxIndexDepth,
         NEW d \in Steps(t, root)[n], t.scannable[d], NEW i \in HwmonSubs(t, d)
  PROVE  t.sub[d][i] \in Steps(t, root)[n + 1]
<1>1. n + 1 \in 1..MaxIndexDepth + 1 /\ n + 1 - 1 = n
  BY DEF MaxIndexDepth
<1>2. Steps(t, root)[n + 1] =
        UNION {IF t.scannable[c] THEN {t.sub[c][j] : j \in HwmonSubs(t, c)} ELSE {} :
                 c \in Steps(t, root)[n]}
  BY <1>1, StepsDef
<1> QED
  BY <1>2

\* It comes from one that is a link nearer.
LEMMA StepBack ==
  ASSUME NEW t, NEW root, NEW n \in 0..MaxIndexDepth, NEW c \in Steps(t, root)[n + 1]
  PROVE  \E d \in Steps(t, root)[n] :
           t.scannable[d] /\ \E i \in HwmonSubs(t, d) : c = t.sub[d][i]
<1>1. n + 1 \in 1..MaxIndexDepth + 1 /\ n + 1 - 1 = n
  BY DEF MaxIndexDepth
<1>2. Steps(t, root)[n + 1] =
        UNION {IF t.scannable[d] THEN {t.sub[d][j] : j \in HwmonSubs(t, d)} ELSE {} :
                 d \in Steps(t, root)[n]}
  BY <1>1, StepsDef
<1> QED
  BY <1>2

\* find_hwmons_by_indices is right, in every tree.
LEMMA IndexSearchRight ==
  ASSUME NEW t, IsTree(t), NEW indices, NEW root \in Dirs
  PROVE  /\ SearchRight(t, indices, root)
         /\ ByIndices(t, indices, root).is = "found" => ByIndices(t, indices, root).dir \in Dirs
<1>1. PICK f : Indexing(f, t, indices) /\ ByIndices(t, indices, root) = f[0][root]
  BY ByIndicesDef
<1> DEFINE w == Steps(t, root)
           r == f[0][root]
<1>2. \A n \in 0..4 : w[n] \subseteq Dirs
  BY StepsType DEF MaxIndexDepth
<1>3. \A n \in 0..4 : \A d \in w[n] : Decided(f, t, indices, n, d)
  BY <1>1, <1>2, AllDecided DEF MaxIndexDepth
<1>4. root \in w[0]
  BY StepsDef
<1> DEFINE Reached(n) == \E d \in w[n] : r = f[n][d]
           Here(n) == \E d \in w[n] :
                        \/ r = Found(d) /\ HasFiles(t, d, indices)
                        \/ r.is = "DriverInitError" /\ n = 4
                        \/ r.is = "IOerror" /\ ~t.scannable[d] /\ n <= 3
           Nothing(n) == \A d \in w[n] : f[n][d].is = "none"
<1>5. ASSUME NEW n \in 0..4, Reached(n), r.is # "none"
      PROVE  Here(n) \/ (n < 4 /\ Reached(n + 1))
  <2>1. PICK d \in w[n] : r = f[n][d]
    BY <1>5
  <2>2. \/ r = Found(d) /\ HasFiles(t, d, indices)
        \/ r.is = "DriverInitError" /\ n = 4
        \/ r.is = "IOerror" /\ ~t.scannable[d] /\ n <= 3
        \/ /\ t.scannable[d] /\ n <= 3
           /\ \E i \in HwmonSubs(t, d) : r = f[n + 1][t.sub[d][i]]
    BY <1>3, <1>5, <2>1 DEF Decided, MaxIndexDepth
  <2>3. CASE /\ t.scannable[d] /\ n <= 3
             /\ \E i \in HwmonSubs(t, d) : r = f[n + 1][t.sub[d][i]]
    <3>1. \A i \in HwmonSubs(t, d) : t.sub[d][i] \in w[n + 1]
      BY <2>3, StepOn, n \in 0..MaxIndexDepth DEF MaxIndexDepth
    <3> QED
      BY <2>3, <3>1
  <2> HIDE DEF w, r
  <2> QED
    BY <2>1, <2>2, <2>3
<1>6. ASSUME NEW n \in 0..4, Nothing(n)
      PROVE  /\ \A d \in w[n] : ~HasFiles(t, d, indices)
             /\ n < 4 => Nothing(n + 1)
  <2>1. \A d \in w[n] : /\ n <= 3 /\ ~HasFiles(t, d, indices)
                        /\ \A i \in HwmonSubs(t, d) : f[n + 1][t.sub[d][i]].is = "none"
    <3> SUFFICES ASSUME NEW d \in w[n]
                 PROVE  /\ n <= 3 /\ ~HasFiles(t, d, indices)
                        /\ \A i \in HwmonSubs(t, d) : f[n + 1][t.sub[d][i]].is = "none"
      OBVIOUS
    <3>1. f[n][d].is = "none" /\ Decided(f, t, indices, n, d)
      BY <1>3, <1>6
    <3>2. f[n][d] # Found(d)
      BY <3>1 DEF Found
    <3> HIDE DEF w
    <3> QED
      BY <3>1, <3>2 DEF Decided, MaxIndexDepth
  <2>2. ASSUME n < 4, NEW c \in w[n + 1] PROVE f[n + 1][c].is = "none"
    <3>1. n \in 0..MaxIndexDepth
      BY <2>2 DEF MaxIndexDepth
    <3>2. \E d \in w[n] : t.scannable[d] /\ \E i \in HwmonSubs(t, d) : c = t.sub[d][i]
      BY <2>2, <3>1, StepBack
    <3> HIDE DEF w
    <3> QED
      BY <2>1, <3>2
  <2> QED
    BY <2>1, <2>2
<1>7. Reached(0)
  BY <1>4
<1>8. \A d : Found(d).is = "found" /\ Found(d).dir = d
  BY DEF Found
<1>9. r.is \in {"found", "none", "DriverInitError", "IOerror"}
  BY <1>3, <1>4 DEF Decided
<1>10. r.is # "none" => \E n \in 0..4 : Here(n)
  <2> HIDE DEF Reached, Here, r
  <2> QED
    BY <1>5, <1>7
<1>11. r.is = "none" => \A n \in 0..4 : \A d \in w[n] : ~HasFiles(t, d, indices)
  <2> SUFFICES ASSUME r.is = "none" PROVE \A n \in 0..4 : \A d \in w[n] : ~HasFiles(t, d, indices)
    OBVIOUS
  <2>1. Nothing(0)
    BY StepsDef
  <2>2. Nothing(1)
    BY <1>6, <2>1
  <2>3. Nothing(2)
    BY <1>6, <2>1, <2>2
  <2>4. Nothing(3)
    BY <1>6, <2>2, <2>3
  <2>5. Nothing(4)
    BY <1>6, <2>3, <2>4
  <2>6. \A n \in 0..4 : n \in {0, 1, 2, 3, 4}
    OBVIOUS
  <2> HIDE DEF w
  <2> QED
    BY <1>6, <2>1, <2>2, <2>3, <2>4, <2>5, <2>6
<1>12. ByIndices(t, indices, root) = r
  BY <1>1
<1>13. /\ \A d, n : n \in 0..4 /\ d \in w[n] => d \in Within(t, root, MaxIndexDepth + 1)
       /\ \A d \in Within(t, root, MaxIndexDepth + 1) : \E n \in 0..4 : d \in w[n]
       /\ \A d, n : n \in 0..3 /\ d \in w[n] => d \in Within(t, root, MaxIndexDepth)
  BY DEF Within, MaxIndexDepth
<1> HIDE DEF w, r
<1>14. r.is = "found" => /\ r.dir \in Within(t, root, MaxIndexDepth + 1)
                         /\ HasFiles(t, r.dir, indices) /\ r.dir \in Dirs
  BY <1>2, <1>8, <1>10, <1>13
<1>15. r.is = "none" => {d \in Within(t, root, MaxIndexDepth + 1) : HasFiles(t, d, indices)} = {}
  BY <1>11, <1>13
<1>16. r.is = "DriverInitError" => Steps(t, root)[MaxIndexDepth + 1] # {}
  <2>1. r.is = "DriverInitError" => w[4] # {}
    BY <1>8, <1>10
  <2> QED
    BY <2>1 DEF w, MaxIndexDepth
<1>17. r.is = "IOerror" => \E d \in Within(t, root, MaxIndexDepth) : ~t.scannable[d]
  <2>1. r.is = "IOerror" => \E n \in 0..3 : \E d \in w[n] : ~t.scannable[d]
    BY <1>8, <1>10
  <2> QED
    BY <1>13, <2>1
<1> QED
  BY <1>9, <1>12, <1>14, <1>15, <1>16, <1>17, Zenon DEF SearchRight

-----------------------------------------------------------------------------
(* HwmonInterface::lookup *)

\* The only directory with a label is a directory.
LEMMA OnlyInDirs ==
  ASSUME NEW m \in Seq(Dirs), Only(m).is = "found"
  PROVE  Only(m).dir \in Dirs
<1>1. Len(m) = 1
  BY DEF Only, Throws
<1> QED
  BY <1>1 DEF Only, Found

\* What lookup() finds is a directory.
LEMMA SearchInDirs ==
  ASSUME NEW t, IsTree(t), NEW e, e.base \in Dirs, Search(t, e).is = "found"
  PROVE  Search(t, e).dir \in Dirs
<1> DEFINE named == IF e.name = Absent THEN Found(e.base)
                    ELSE Only(ByName(t, e.name, e.base))
           modelled == IF named.is # "found" \/ e.model = Absent THEN named
                       ELSE Only(ByModel(t, e.model, named.dir))
<1>1. Search(t, e) = IF modelled.is # "found" \/ e.indices = Absent THEN modelled
                     ELSE ByIndices(t, ToSet(e.indices), modelled.dir)
  BY Zenon DEF Search
<1>2. named.is = "found" => named.dir \in Dirs
  <2>1. CASE e.name = Absent
    BY <2>1 DEF Found
  <2>2. CASE e.name # Absent
    <3>1. ByName(t, e.name, e.base) \in Seq(Dirs)
      BY LabelsSearchRight DEF ByName
    <3> QED
      BY <2>2, <3>1, OnlyInDirs
  <2> QED
    BY <2>1, <2>2
<1> HIDE DEF named
<1>3. modelled.is = "found" => modelled.dir \in Dirs
  <2>1. CASE named.is # "found" \/ e.model = Absent
    BY <1>2, <2>1
  <2>2. CASE ~(named.is # "found" \/ e.model = Absent)
    <3>1. ByModel(t, e.model, named.dir) \in Seq(Dirs)
      BY <1>2, <2>2, LabelsSearchRight DEF ByModel
    <3> QED
      BY <2>2, <3>1, OnlyInDirs
  <2> QED
    BY <2>1, <2>2
<1> HIDE DEF modelled
<1>4. CASE modelled.is # "found" \/ e.indices = Absent
  BY <1>1, <1>3, <1>4
<1>5. CASE ~(modelled.is # "found" \/ e.indices = Absent)
  BY <1>1, <1>3, <1>5, IndexSearchRight
<1> QED
  BY <1>4, <1>5

-----------------------------------------------------------------------------
(* The inductive invariant of the slots *)

\* The numbers that slots are computed from.
Values ==
  /\ numTemps \in [Ds -> Nat] /\ correction \in [Ds -> Nat]
  /\ base \in [Ds -> Nat] /\ given \in [Ds -> Nat]
  /\ slots \in Nat /\ refd \in Nat
  /\ wrote \in [Ds -> Int]
  /\ at \in Nat \ {0}

\* The references of the drivers before n follow one another.
Placed(n) ==
  /\ refd <= slots
  /\ \A c \in Ds : c < n => base[c] + given[c] <= refd
  /\ \A c, d \in Ds : c < d /\ d < n => base[c] + given[c] <= base[d]

GivenOut ==
  /\ pc \in {"refs", "read", "round"} => DOMAIN holds = 1..slots
  /\ pc = "refs" => Placed(at) /\ at <= Len(Sensors) + 1
  /\ pc \in {"read", "round"} => Placed(Len(Sensors) + 1)

\* What a driver has written is still there.
Kept(d) ==
  \A k \in 1..given[d] :
    k <= wrote[d] /\ k <= correction[d] => holds[base[d] + k] = <<d, k>>

\* So it is for the drivers whose turn is over in this round; the others have
\* not yet written anything.
RightSoFar ==
  /\ pc = "read" => /\ \A d \in Ds : d < at => Kept(d)
                    /\ \A d \in Ds : d >= at => wrote[d] = 0
  /\ pc = "round" => \A d \in Ds : Kept(d)

IInv == Values /\ GivenOut /\ RightSoFar

-----------------------------------------------------------------------------
(* Lemmas *)

\* The sensors have an order.
LEMMA Order == Len(Sensors) \in Nat /\ Ds = 1..Len(Sensors)
  BY SensorsAssumption DEF Ds

\* An exception ends it all.
LEMMA EndKeeps ==
  ASSUME IInv, NEW how \in Ends, End(how)
  PROVE  IInv'
<1>1. pc' \notin {"refs", "read", "round"}
  BY DEF End, Ends
<1>2. Values'
  BY DEF End, IInv, Values, drivers, refs, state
<1> QED
  BY <1>1, <1>2 DEF IInv, GivenOut, RightSoFar

\* init() changes only what is known of its own driver.
LEMMA InitEffect ==
  ASSUME IInv, NEW d \in Ds, NEW n \in Counts, InitSucceeds(d, n)
  PROVE  /\ numTemps' \in [Ds -> Nat] /\ correction' \in [Ds -> Nat]
         /\ \A c \in Ds \ {d} : correction'[c] = correction[c]
<1>1. n \in Nat /\ Kind(d) \in {"hwmon", "tp", "fixed"}
  BY SensorsAssumption
<1>2. numTemps \in [Ds -> Nat] /\ correction \in [Ds -> Nat]
  BY DEF IInv, Values
<1>3. \/ SetNumTemps(d, 1)
      \/ SetNumTemps(d, n)
      \/ UNCHANGED <<numTemps, correction>>
  BY <1>1 DEF InitSucceeds, InitHwmon, InitTp, InitFixed
<1> QED
  BY <1>1, <1>2, <1>3 DEF SetNumTemps

\* A try to initialise the driver whose turn it is, forgiven or not.
LEMMA TryKeeps ==
  ASSUME IInv, at \in Ds, pc \in {"init", "read"},
         \/ \E n \in Counts : InitSucceeds(at, n)
         \/ UNCHANGED <<numTemps, correction>>,
         Calm, UNCHANGED pc, at' \in {at, at + 1},
         pc = "read" /\ at' = at + 1 => UNCHANGED correction
  PROVE  IInv'
<1>1. /\ numTemps' \in [Ds -> Nat] /\ correction' \in [Ds -> Nat]
      /\ \A c \in Ds \ {at} : correction'[c] = correction[c]
  BY InitEffect DEF IInv, Values
<1>2. UNCHANGED <<slots, refd, base, given, holds, wrote>>
  BY DEF Calm, refs, state
<1>3. Values'
  BY <1>1, <1>2 DEF IInv, Values
<1>4. GivenOut'
  BY <1>2 DEF IInv, GivenOut, Placed
<1>5. at \in Nat /\ Ds \subseteq Nat
  BY Order DEF IInv, Values
<1>6. ASSUME pc = "read" PROVE RightSoFar'
  <2>1. \A d \in Ds : d < at => Kept(d)'
    <3> SUFFICES ASSUME NEW d \in Ds, d < at PROVE Kept(d)'
      OBVIOUS
    <3>1. Kept(d) /\ d # at
      BY <1>5, <1>6 DEF IInv, RightSoFar
    <3> QED
      BY <1>1, <1>2, <3>1 DEF Kept
  <2>2. \A d \in Ds : d >= at => wrote'[d] = 0
    BY <1>2, <1>6 DEF IInv, RightSoFar
  <2>3. \A d \in Ds : d = at => Kept(d)'
    <3> SUFFICES ASSUME NEW d \in Ds, d = at PROVE Kept(d)'
      OBVIOUS
    <3>1. wrote'[d] = 0
      BY <1>5, <2>2
    <3> QED
      BY <3>1 DEF Kept
  <2>4. \A d \in Ds : (d < at' => d <= at) /\ (d >= at' => d >= at)
    BY <1>5
  <2>5. \A d \in Ds : d <= at => d < at \/ d = at
    BY <1>5
  <2>6. \A d \in Ds : d < at' => Kept(d)'
    BY <2>1, <2>3, <2>4, <2>5
  <2> QED
    BY <1>6, <2>2, <2>4, <2>6 DEF RightSoFar
<1>7. RightSoFar'
  BY <1>6 DEF RightSoFar
<1> QED
  BY <1>3, <1>4, <1>7 DEF IInv

\* A slot of a driver lies before the slots of the drivers after it.
LEMMA SlotsBefore ==
  ASSUME NEW b \in Nat, NEW g \in Nat, NEW later \in Nat, NEW max \in Nat, NEW n \in Int,
         b + g <= later, b + g <= max, NEW k \in 1..g
  PROVE  b + k \in 1..max /\ (b + k) - later \notin 1..n
  OBVIOUS

\* A driver that writes n temperatures writes them to its own slots and behind
\* them, and not to those of the drivers before it.
LEMMA FilledKeeps ==
  ASSUME IInv, pc = "read", at \in Ds, NEW n \in Int,
         holds' = Filled(at, n),
         wrote' = [wrote EXCEPT ![at] = n] \/ wrote' = wrote,
         at' = at + 1,
         UNCHANGED <<pc, numTemps, correction, base, given, slots, refd>>
  PROVE  IInv'
<1>1. at \in Nat /\ Ds \subseteq Nat /\ at <= Len(Sensors) /\ Len(Sensors) \in Nat
  BY Order DEF IInv, Values
<1>2. /\ base \in [Ds -> Nat] /\ given \in [Ds -> Nat] /\ correction \in [Ds -> Nat]
      /\ refd \in Nat /\ slots \in Nat
      /\ wrote \in [Ds -> Int]
  BY DEF IInv, Values
<1>3. DOMAIN holds = 1..slots /\ Placed(Len(Sensors) + 1)
  BY DEF IInv, GivenOut
<1>4. Values' /\ GivenOut'
  <2>1. Values'
    BY <1>1 DEF IInv, Values
  <2>2. DOMAIN holds' = 1..slots' /\ Placed(Len(Sensors) + 1)'
    BY <1>3 DEF Placed, Filled
  <2> QED
    BY <2>1, <2>2 DEF GivenOut
<1>5. \A d \in Ds : base[d] + given[d] <= slots
  <2>1. \A d \in Ds : base[d] + given[d] <= refd
    BY <1>1, <1>3, Order DEF Placed
  <2>2. refd <= slots
    BY <1>3 DEF Placed
  <2>3. \A d \in Ds : base[d] \in Nat /\ given[d] \in Nat
    BY <1>2
  <2> QED
    BY <1>2, <2>1, <2>2, <2>3
<1>6. ASSUME NEW d \in Ds, d < at PROVE Kept(d)'
  <2>1. Kept(d) /\ base[d] + given[d] <= base[at] /\ base[d] + given[d] <= slots
    BY <1>1, <1>3, <1>5, <1>6, Order DEF IInv, RightSoFar, Placed
  <2>2. ASSUME NEW k \in 1..given[d], k <= wrote'[d], k <= correction'[d]
        PROVE  holds'[base'[d] + k] = <<d, k>>
    <3>1. k <= wrote[d] /\ k <= correction[d]
      BY <1>1, <1>2, <1>6, <2>2
    <3>2. base[d] \in Nat /\ given[d] \in Nat /\ base[at] \in Nat
      BY <1>2
    <3>3. base[d] + k \in 1..slots /\ (base[d] + k) - base[at] \notin 1..n
      BY <1>2, <2>1, <3>2, SlotsBefore
    <3>4. holds'[base[d] + k] = holds[base[d] + k]
      BY <1>3, <3>3 DEF Filled
    <3> QED
      BY <2>1, <3>1, <3>4 DEF Kept
  <2> QED
    BY <2>2 DEF Kept
<1>7. ASSUME NEW d \in Ds, d = at PROVE Kept(d)'
  <2>1. ASSUME NEW k \in 1..given[d], k <= wrote'[d], k <= correction'[d]
        PROVE  holds'[base'[d] + k] = <<d, k>>
    <3>1. wrote[d] = 0
      BY <1>1, <1>7 DEF IInv, RightSoFar
    <3>2. k \in Nat \ {0} /\ k <= n
      <4>1. k \in Nat \ {0}
        BY <1>2
      <4>2. CASE wrote' = wrote
        BY <2>1, <3>1, <4>1, <4>2
      <4>3. CASE wrote' = [wrote EXCEPT ![at] = n] /\ wrote'[d] = n
        BY <2>1, <4>1, <4>3
      <4>4. CASE wrote' = [wrote EXCEPT ![at] = n] /\ wrote'[d] # n
        BY <1>7, <3>1, <4>4, <2>1, <4>1
      <4> QED
        BY <4>1, <4>2, <4>3, <4>4
    <3>3. /\ base[d] + k \in 1..slots /\ (base[d] + k) - base[at] = k
          /\ k \in 1..n /\ k <= correction[d]
      BY <1>2, <1>5, <1>7, <2>1, <3>2
    <3> QED
      BY <1>3, <1>7, <3>3 DEF Filled
  <2> QED
    BY <2>1 DEF Kept
<1>8. \A d \in Ds : (d < at' => d < at \/ d = at) /\ (d >= at' => d >= at /\ d # at)
  BY <1>1
<1>9. \A d \in Ds : d < at' => Kept(d)'
  BY <1>6, <1>7, <1>8
<1>10. \A d \in Ds : d >= at' => wrote'[d] = 0
  BY <1>2, <1>8 DEF IInv, RightSoFar
<1>11. RightSoFar'
  BY <1>9, <1>10 DEF RightSoFar
<1> QED
  BY <1>4, <1>11 DEF IInv

\* What a driver may write is a number of temperatures.
LEMMA WritesNumbers ==
  ASSUME Values, NEW d \in Ds
  PROVE  Writes(d) \subseteq Int
  BY DEF Writes, Values

-----------------------------------------------------------------------------
(* The steps *)

\* Config::init's and robust_io's try to initialise a driver.
LEMMA InitStepKeeps ==
  ASSUME IInv, InitSensor \/ RetrySensor
  PROVE  IInv'
<1>1. at \in Ds /\ pc \in {"init", "read"}
  BY DEF InitSensor, RetrySensor
<1>2. at \in Nat
  BY DEF IInv, Values
<1>3. CASE TryThrows(at)
  BY <1>3, EndKeeps DEF TryThrows, LookupThrows, Ends
<1>4. CASE /\ \E n \in Counts : InitSucceeds(at, n)
           /\ Calm /\ UNCHANGED pc /\ at' \in {at, at + 1}
           /\ pc = "read" => at' = at
  BY <1>1, <1>2, <1>4, TryKeeps
<1>5. CASE /\ UNCHANGED <<numTemps, correction>>
           /\ Calm /\ UNCHANGED pc /\ at' \in {at, at + 1}
  BY <1>1, <1>5, TryKeeps
<1> QED
  BY <1>3, <1>4, <1>5
     DEF InitSensor, RetrySensor, TrySucceeds, TryForgiven, ToNext, TurnOver

\* A step that gives no slots and writes none, into a phase that asks nothing.
LEMMA PhaseKeeps ==
  ASSUME IInv, pc' \notin {"refs", "read", "round"},
         UNCHANGED <<numTemps, correction, refd, base, given, wrote>>,
         slots' \in Nat, at' \in Nat \ {0}
  PROVE  IInv'
  BY DEF IInv, Values, GivenOut, RightSoFar

\* Counting the temperatures.
LEMMA CountKeeps ==
  ASSUME IInv, SensorsDone \/ Count
  PROVE  IInv'
<1>1. /\ UNCHANGED <<numTemps, correction, refd, base, given, wrote>>
      /\ pc' \notin {"refs", "read", "round"}
  BY DEF SensorsDone, Count, drivers, refs, state, Phase, ToNext
<1>2. slots' \in Nat /\ at' \in Nat \ {0}
  <2>1. CASE SensorsDone
    BY <2>1 DEF SensorsDone, Phase
  <2>2. CASE Count
    <3>1. slots \in Nat /\ at \in Nat \ {0} /\ numTemps[at] \in Nat
      BY <2>2 DEF Count, IInv, Values
    <3> QED
      BY <2>2, <3>1 DEF Count, ToNext
  <2> QED
    BY <2>1, <2>2
<1> QED
  BY <1>1, <1>2, PhaseKeeps

\* A new TemperatureState.
LEMMA ConsistencyKeeps ==
  ASSUME IInv, Consistency
  PROVE  IInv'
<1>1. CASE End("ConfigError")
  BY <1>1, EndKeeps DEF Ends
<1>2. CASE /\ Phase("refs")
           /\ refd' = 0 /\ holds' = [s \in 1..slots |-> Nobody]
           /\ UNCHANGED <<tree, found, it, drivers, slots, base, given, wrote>>
  <2>1. Values'
    BY <1>2 DEF IInv, Values, Phase, drivers
  <2>2. \A c \in Ds : ~(c < 1)
    BY Order
  <2>3. Placed(1)'
    BY <1>2, <2>2 DEF Placed, IInv, Values
  <2>4. GivenOut'
    BY <1>2, <2>3, Order DEF GivenOut, Phase, Placed
  <2>5. RightSoFar'
    BY <1>2 DEF RightSoFar, Phase
  <2> QED
    BY <2>1, <2>4, <2>5 DEF IInv
<1> QED
  BY <1>1, <1>2 DEF Consistency

\* The next reference begins where the last one ends.
LEMMA RefKeeps ==
  ASSUME IInv, InitRef
  PROVE  IInv'
<1>1. pc = "refs" /\ at \in Ds /\ at \in Nat /\ Ds \subseteq Nat /\ at <= Len(Sensors)
  BY Order DEF InitRef
<1>2. CASE End("Bug")
  BY <1>2, EndKeeps DEF Ends
<1>3. CASE Ref(at) /\ ToNext /\ UNCHANGED <<tree, found, it, drivers, slots, state>>
  <2>1. /\ base \in [Ds -> Nat] /\ given \in [Ds -> Nat] /\ numTemps \in [Ds -> Nat]
        /\ refd \in Nat /\ slots \in Nat
    BY DEF IInv, Values
  <2>2. /\ base' = [base EXCEPT ![at] = refd] /\ given' = [given EXCEPT ![at] = numTemps[at]]
        /\ refd' = refd + numTemps[at] /\ refd' <= slots
        /\ at' = at + 1 /\ pc' = "refs"
        /\ UNCHANGED <<numTemps, correction, slots, holds, wrote>>
    BY <1>1, <1>3 DEF Ref, ToNext, drivers, state
  <2>3. Values'
    <3>1. /\ correction \in [Ds -> Nat] /\ wrote \in [Ds -> Int]
          /\ refd' \in Nat /\ at' \in Nat \ {0}
      BY <1>1, <2>1, <2>2 DEF IInv, Values
    <3>2. base' \in [Ds -> Nat] /\ given' \in [Ds -> Nat]
      BY <1>1, <2>1, <2>2
    <3> QED
      BY <2>1, <2>2, <3>1, <3>2 DEF Values
  <2>4. \A c \in Ds : c < at => base'[c] = base[c] /\ given'[c] = given[c]
    BY <1>1, <2>1, <2>2
  <2>5. \A c \in Ds : c < at => base[c] + given[c] <= refd
    BY <1>1 DEF IInv, GivenOut, Placed
  <2>6. \A c \in Ds : c < at' => base'[c] + given'[c] <= refd'
    <3> SUFFICES ASSUME NEW c \in Ds, c < at' PROVE base'[c] + given'[c] <= refd'
      OBVIOUS
    <3>1. CASE c = at
      BY <1>1, <2>1, <2>2, <3>1
    <3>2. CASE c < at
      BY <1>1, <2>1, <2>2, <2>4, <2>5, <3>2
    <3> QED
      BY <1>1, <2>2, <3>1, <3>2
  <2>7. \A c, d \in Ds : c < d /\ d < at' => base'[c] + given'[c] <= base'[d]
    <3> SUFFICES ASSUME NEW c \in Ds, NEW d \in Ds, c < d, d < at'
                 PROVE  base'[c] + given'[c] <= base'[d]
      OBVIOUS
    <3>1. c < at /\ (d < at \/ d = at)
      BY <1>1, <2>2
    <3>2. CASE d = at
      BY <2>1, <2>2, <2>4, <2>5, <3>1, <3>2
    <3>3. CASE d < at
      BY <1>1, <2>4, <3>1, <3>3 DEF IInv, GivenOut, Placed
    <3> QED
      BY <3>1, <3>2, <3>3
  <2>8. Placed(at)'
    BY <2>2, <2>6, <2>7 DEF Placed
  <2>9. DOMAIN holds' = 1..slots' /\ at' <= Len(Sensors) + 1
    BY <1>1, <2>2, Order DEF IInv, GivenOut
  <2> QED
    BY <2>2, <2>3, <2>8, <2>9 DEF IInv, GivenOut, RightSoFar
<1> QED
  BY <1>2, <1>3 DEF InitRef

\* run() begins to read the sensors.
LEMMA RoundKeeps ==
  ASSUME IInv, NewRound
  PROVE  IInv'
<1>1. /\ pc' = "read" /\ at' = 1 /\ wrote' = [d \in Ds |-> 0]
      /\ UNCHANGED <<numTemps, correction, slots, refd, base, given, holds>>
  BY DEF NewRound, Phase, drivers, refs
<1>2. Values'
  BY <1>1 DEF IInv, Values
<1>3. DOMAIN holds = 1..slots /\ Placed(Len(Sensors) + 1)
  <2>1. CASE pc = "refs" /\ at \notin Ds
    <3>1. at = Len(Sensors) + 1
      BY <2>1, Order DEF IInv, Values, GivenOut
    <3> QED
      BY <2>1, <3>1 DEF IInv, GivenOut
  <2>2. CASE pc = "round"
    BY <2>2 DEF IInv, GivenOut
  <2> QED
    BY <2>1, <2>2 DEF NewRound
<1>4. GivenOut'
  BY <1>1, <1>3 DEF GivenOut, Placed
<1>5. RightSoFar'
  BY <1>1, Order DEF RightSoFar
<1> QED
  BY <1>2, <1>4, <1>5 DEF IInv

\* One driver is read, or fails.
LEMMA ReadKeeps ==
  ASSUME IInv, ReadSucceeds \/ ReadFails
  PROVE  IInv'
<1>1. at \in Ds /\ pc = "read" /\ Writes(at) \subseteq Int
  BY WritesNumbers DEF ReadSucceeds, ReadFails, IInv
<1>2. CASE End("crash") \/ End("error")
  BY <1>2, EndKeeps DEF Ends
<1>3. CASE \E n \in Writes(at) :
             /\ holds' = Filled(at, n) /\ wrote' = [wrote EXCEPT ![at] = n]
             /\ ToNext
             /\ UNCHANGED <<tree, found, it, drivers, slots, refs>>
  <2>1. PICK n \in Int :
          /\ holds' = Filled(at, n) /\ wrote' = [wrote EXCEPT ![at] = n]
          /\ at' = at + 1
          /\ UNCHANGED <<pc, numTemps, correction, base, given, slots, refd>>
    BY <1>1, <1>3 DEF ToNext, drivers, refs
  <2> QED
    BY <1>1, <2>1, FilledKeeps
<1>4. CASE \E n \in Int :
             /\ holds' = Filled(at, n) /\ ToNext
             /\ UNCHANGED <<tree, found, it, drivers, slots, refs, wrote>>
  <2>1. PICK n \in Int :
          /\ holds' = Filled(at, n) /\ wrote' = wrote /\ at' = at + 1
          /\ UNCHANGED <<pc, numTemps, correction, base, given, slots, refd>>
    BY <1>4 DEF ToNext, drivers, refs
  <2> QED
    BY <1>1, <2>1, FilledKeeps
<1>5. ASSUME ReadFails
      PROVE  \/ End("crash") \/ End("error")
             \/ \E n \in Int :
                  /\ holds' = Filled(at, n) /\ ToNext
                  /\ UNCHANGED <<tree, found, it, drivers, slots, refs, wrote>>
  <2>1. ASSUME NEW n \in UNION {0..m : m \in Writes(at)} PROVE n \in Int /\ n + 1 \in Int
    <3>1. PICK m \in Writes(at) : n \in 0..m
      OBVIOUS
    <3> QED
      BY <3>1
  <2> QED
    BY <1>5, <2>1 DEF ReadFails
<1> QED
  BY <1>2, <1>3, <1>4, <1>5 DEF ReadSucceeds

\* The round is over.
LEMMA EndRoundKeeps ==
  ASSUME IInv, EndRound
  PROVE  IInv'
<1>1. /\ pc = "read" /\ pc' = "round" /\ at' = 1 /\ at \notin Ds
      /\ UNCHANGED <<numTemps, correction, slots, refd, base, given, holds, wrote>>
  BY DEF EndRound, Phase, drivers, refs, state
<1>2. Values' /\ GivenOut'
  BY <1>1 DEF IInv, Values, GivenOut, Placed
<1>3. \A d \in Ds : d < at \/ d >= at
  BY Order DEF IInv, Values
<1>4. \A d \in Ds : Kept(d)
  <2> SUFFICES ASSUME NEW d \in Ds PROVE Kept(d)
    OBVIOUS
  <2>1. CASE d < at
    BY <1>1, <2>1 DEF IInv, RightSoFar
  <2>2. CASE d >= at
    BY <1>1, <2>2 DEF IInv, RightSoFar, Kept
  <2> QED
    BY <1>3, <2>1, <2>2
<1>5. RightSoFar'
  BY <1>1, <1>4 DEF RightSoFar, Kept
<1> QED
  BY <1>2, <1>5 DEF IInv

\* Config::init begins again.
LEMMA ReinitKeeps ==
  ASSUME IInv, Reinit
  PROVE  IInv'
<1>1. /\ pc' = "init" /\ at' = 1
      /\ UNCHANGED <<numTemps, correction, slots, refd, base, given, wrote>>
  BY DEF Reinit, Phase, drivers, refs, state
<1> QED
  BY <1>1, PhaseKeeps DEF IInv, Values

\* No slot has been given yet.
LEMMA InitHolds == Init => IInv
<1> SUFFICES ASSUME Init PROVE IInv
  OBVIOUS
<1>1. \A d \in Ds : Configured(d) \in Nat /\ Sensors[d].correction \in Nat
  BY SensorsAssumption DEF Configured
<1>2. Values
  BY <1>1 DEF Init, Values
<1> QED
  BY <1>2 DEF Init, IInv, GivenOut, RightSoFar

\* The inductive invariant is one.
LEMMA Invariance == Spec => []IInv
<1>1. IInv /\ [Next]_vars => IInv'
  <2> SUFFICES ASSUME IInv, Plug \/ UNCHANGED vars PROVE IInv'
    BY InitStepKeeps, CountKeeps, ConsistencyKeeps, RefKeeps, RoundKeeps, ReadKeeps,
       EndRoundKeeps, ReinitKeeps DEF Next
  <2>1. UNCHANGED <<numTemps, correction, base, given, slots, refd, wrote, holds, at, pc>>
    BY DEF Plug, vars, drivers, refs, state
  <2>2. Values' /\ GivenOut'
    BY <2>1 DEF IInv, Values, GivenOut, Placed
  <2>3. RightSoFar'
    BY <2>1 DEF IInv, RightSoFar, Kept
  <2> QED
    BY <2>2, <2>3 DEF IInv
<1> QED
  BY <1>1, InitHolds, PTL DEF Spec

-----------------------------------------------------------------------------
(* The inductive invariant of the drivers *)

\* What a driver knows of its device.
DriverTypes ==
  /\ tree \in Trees
  /\ found \in [DOMAIN Entries -> Dirs \union {Absent}]
  /\ it \in [DOMAIN Entries -> Nat]
  /\ path \in [Ds -> {NoPath} \union (Dirs \union {Absent}) \X Nat]
  /\ initialized \in [Ds -> BOOLEAN]
  /\ inUse \in [Ds -> Seq(BOOLEAN)]
  /\ \A d \in Ds : initialized[d] => path[d] # NoPath

\* The drivers of an entry that have their file.
Took(e) == {d \in Users(e) : path[d] # NoPath}

\* They have taken the first files of the entry's directory, each another one.
Shared(e) ==
  /\ it[e] = IF Took(e) = {} THEN 0 ELSE Cardinality(Took(e)) + 1
  /\ \A d \in Took(e) : path[d][1] = found[e] /\ path[d][2] \in 1 .. Cardinality(Took(e))
  /\ \A c, d \in Took(e) : c # d => path[c][2] # path[d][2]

Files == \A e \in DOMAIN Entries : Shared(e)

\* Drivers that are not optional have taken them in their order.
InPlace ==
  \A e \in DOMAIN Entries : \A d \in Took(e) :
    ~Optional(d) => path[d][2] = PlaceInEntry(d)

\* All that are not optional have been found.
AllFound == \A d \in Ds : ~Optional(d) => path[d] # NoPath

\* Config::init waits for each of these before it goes on to the next driver;
\* when it is called again, they have all been found.
FoundInTurn ==
  \A d \in Ds : /\ d > at => path[d] = NoPath
                /\ d < at /\ ~Optional(d) => path[d] # NoPath
Waited ==
  /\ pc = "init" => FoundInTurn \/ AllFound
  /\ pc \in {"count", "refs", "read", "round"} => AllFound

LookedUp == DriverTypes /\ Files /\ InPlace

\* A path has two parts.
LEMMA PathType ==
  ASSUME NEW S, NEW p \in S \X Nat
  PROVE  p # NoPath
  BY DEF NoPath

\* An entry has finitely many drivers.
LEMMA UsersFinite ==
  ASSUME NEW e
  PROVE  IsFiniteSet(Users(e)) /\ Users(e) \subseteq Ds
<1>1. IsFiniteSet(Ds)
  BY Order, FS_Interval
<1>2. Users(e) \subseteq Ds
  BY DEF Users
<1> QED
  BY <1>1, <1>2, FS_Subset

\* No more drivers have a file than there are files.
LEMMA TookCount ==
  ASSUME NEW e \in DOMAIN Entries
  PROVE  /\ IsFiniteSet(Took(e)) /\ Cardinality(Took(e)) \in Nat
         /\ Cardinality(Took(e)) <= FilesOf(e) /\ FilesOf(e) \in Nat
         /\ \A d \in Users(e) : d \notin Took(e) => Cardinality(Took(e)) + 1 <= FilesOf(e)
<1>1. IsFiniteSet(Users(e)) /\ Took(e) \subseteq Users(e)
  BY UsersFinite DEF Took
<1>2. /\ IsFiniteSet(Took(e)) /\ Cardinality(Took(e)) <= Cardinality(Users(e))
      /\ Cardinality(Took(e)) \in Nat /\ Cardinality(Users(e)) \in Nat
  BY <1>1, FS_Subset, FS_CardinalityType
<1>3. FilesOf(e) \in Nat /\ Cardinality(Users(e)) <= FilesOf(e)
  BY EntriesAssumption DEF FilesOf
<1>4. ASSUME NEW d \in Users(e), d \notin Took(e)
      PROVE  Cardinality(Took(e)) + 1 <= FilesOf(e)
  <2>1. /\ Took(e) \union {d} \subseteq Users(e)
        /\ Cardinality(Took(e) \union {d}) = Cardinality(Took(e)) + 1
    BY <1>1, <1>2, <1>4, FS_AddElement
  <2>2. Cardinality(Took(e) \union {d}) <= Cardinality(Users(e))
    BY <1>1, <2>1, FS_Subset
  <2> QED
    BY <1>2, <1>3, <2>1, <2>2
<1> QED
  BY <1>2, <1>3, <1>4

\* The iterator is never behind the last file when a driver of the entry still
\* has none.
LEMMA FileLeft ==
  ASSUME Files, NEW d \in Ds, Kind(d) = "hwmon", Looks(d)
  PROVE  it[EntryOf(d)] <= FilesOf(EntryOf(d))
<1> DEFINE e == EntryOf(d)
<1>1. e \in DOMAIN Entries /\ d \in Users(e) /\ d \notin Took(e)
  BY SensorsAssumption DEF Users, Took, Looks, EntryOf
<1> HIDE DEF e
<1>2. it[e] = IF Took(e) = {} THEN 0 ELSE Cardinality(Took(e)) + 1
  BY <1>1 DEF Files, Shared
<1> QED
  BY <1>1, <1>2, TookCount DEF e

\* When the turn is at a driver that is not optional and has no path yet, the
\* drivers of its entry before it have theirs and the others have none.
LEMMA WaitedPlace ==
  ASSUME Values, Waited, pc \in {"init", "read"}, at \in Ds, Kind(at) = "hwmon", Looks(at),
         ~Optional(at)
  PROVE  Cardinality(Took(EntryOf(at))) + 1 = PlaceInEntry(at)
<1> DEFINE e == EntryOf(at)
<1>1. pc = "init" /\ Ds \subseteq Nat /\ path[at] = NoPath /\ FoundInTurn
  BY Order DEF Waited, AllFound, Looks
<1>2. e \in DOMAIN Entries /\ at \in Users(e) /\ at \notin Took(e)
  BY <1>1, SensorsAssumption DEF Users, Took, EntryOf
<1>3. \A c \in Users(e) : ~Optional(c) /\ c \in Ds
  BY <1>2, EntriesAssumption DEF Users
<1>4. \A c \in Users(e) : c <= at <=> c = at \/ c \in Took(e)
  <2> SUFFICES ASSUME NEW c \in Users(e) PROVE c <= at <=> c = at \/ c \in Took(e)
    OBVIOUS
  <2>1. c \in Ds /\ c \in Nat /\ at \in Nat /\ ~Optional(c)
    BY <1>1, <1>3
  <2>2. (c > at => path[c] = NoPath) /\ (c < at => path[c] # NoPath)
    BY <1>1, <2>1 DEF FoundInTurn
  <2>3. c \in Took(e) <=> path[c] # NoPath
    BY DEF Took
  <2> QED
    BY <1>1, <2>1, <2>2, <2>3
<1>5. {c \in Users(e) : c <= at} = Took(e) \union {at}
  <2>1. Took(e) \subseteq Users(e)
    BY DEF Took
  <2> HIDE DEF e
  <2> QED
    BY <1>2, <1>4, <2>1
<1> QED
  BY <1>2, <1>5, TookCount, FS_AddElement DEF PlaceInEntry

\* A driver takes the next file of its entry.
LEMMA TakesNextKeeps ==
  ASSUME Values, LookedUp, Waited, pc \in {"init", "read"}, NEW d \in Ds, d = at,
         NEW e, e = EntryOf(d), Looks(d), Kind(d) = "hwmon", TakesNext(d)
  PROVE  /\ path' \in [Ds -> {NoPath} \union (Dirs \union {Absent}) \X Nat]
         /\ found' \in [DOMAIN Entries -> Dirs \union {Absent}] /\ it' \in [DOMAIN Entries -> Nat]
         /\ path'[d] # NoPath /\ \A b \in Ds \ {d} : path'[b] = path[b]
         /\ Files' /\ InPlace'
<1> DEFINE k == Cardinality(Took(e)) + 1
           dir == IF it[e] # 0 THEN found[e] ELSE Search(tree, Entries[e]).dir
<1>1. e \in DOMAIN Entries /\ d \in Users(e) /\ d \notin Took(e) /\ path[d] = NoPath
  BY SensorsAssumption DEF Users, Took, EntryOf, Looks
<1>2. /\ it[e] = IF Took(e) = {} THEN 0 ELSE k
      /\ Cardinality(Took(e)) \in Nat /\ IsFiniteSet(Took(e))
      /\ Took(e) = {} => k = 1
  BY <1>1, TookCount, FS_EmptySet DEF LookedUp, Files, Shared
<1>3. it[e] = 0 <=> Took(e) = {}
  BY <1>2
<1>4. /\ path' = [path EXCEPT ![d] = <<dir, k>>]
      /\ found' = [found EXCEPT ![e] = dir]
      /\ it' = [it EXCEPT ![e] = k + 1]
  <2>1. it[e] # 0 => found = [found EXCEPT ![e] = found[e]]
    BY <1>1 DEF LookedUp, DriverTypes
  <2> QED
    BY <1>2, <2>1 DEF TakesNext, EntryOf
<1>5. dir \in Dirs \union {Absent}
  <2>1. CASE it[e] # 0
    BY <1>1, <2>1 DEF LookedUp, DriverTypes
  <2>2. CASE it[e] = 0
    <3>1. Search(tree, Entries[e]).is = "found" /\ IsTree(tree) /\ Entries[e].base \in Dirs
      BY <1>1, <2>2, TreesAssumption, EntriesAssumption
         DEF TakesNext, EntryOf, LookedUp, DriverTypes
    <3> QED
      BY <2>2, <3>1, SearchInDirs
  <2> QED
    BY <2>1, <2>2
<1> HIDE DEF dir
<1>6. /\ path' \in [Ds -> {NoPath} \union (Dirs \union {Absent}) \X Nat]
      /\ found' \in [DOMAIN Entries -> Dirs \union {Absent}] /\ it' \in [DOMAIN Entries -> Nat]
      /\ path'[d] = <<dir, k>> /\ \A b \in Ds \ {d} : path'[b] = path[b]
  BY <1>1, <1>2, <1>4, <1>5 DEF LookedUp, DriverTypes
<1>7. path'[d] # NoPath
  BY <1>6 DEF NoPath
<1>8. Took(e)' = Took(e) \union {d}
  BY <1>1, <1>6, <1>7 DEF Took, Users
<1>9. \A o \in DOMAIN Entries \ {e} : Took(o)' = Took(o)
  <2>1. \A o : o # e => d \notin Users(o)
    BY DEF Users
  <2> QED
    BY <1>6, <2>1 DEF Took, Users
<1>10. Cardinality(Took(e)') = k
  <2>1. Cardinality(Took(e) \union {d}) = Cardinality(Took(e)) + 1
    BY <1>1, <1>2, FS_AddElement
  <2> QED
    BY <1>8, <2>1
<1>11. Files'
  <2>1. ASSUME NEW o \in DOMAIN Entries, o # e PROVE Shared(o)'
    <3>1. it'[o] = it[o] /\ found'[o] = found[o] /\ Took(o)' = Took(o)
      BY <1>4, <1>9, <2>1 DEF LookedUp, DriverTypes
    <3>2. \A b \in Took(o) : path'[b] = path[b]
      BY <1>6, <2>1 DEF Took, Users
    <3> QED
      BY <3>1, <3>2 DEF LookedUp, Files, Shared
  <2>2. Shared(e)'
    <3>1. it'[e] = k + 1 /\ found'[e] = dir
      BY <1>1, <1>4 DEF LookedUp, DriverTypes
    <3>2. \A b \in Took(e) : /\ path'[b] = path[b] /\ path[b][2] \in 1 .. k - 1
                             /\ path[b][1] = found[e] /\ found[e] = dir
      <4>1. \A b \in Took(e) : b \in Ds /\ b # d
        BY <1>1 DEF Took, Users
      <4>2. Took(e) # {} => found[e] = dir
        BY <1>3 DEF dir
      <4> QED
        BY <1>1, <1>2, <1>6, <4>1, <4>2 DEF LookedUp, Files, Shared
    <3>3. \A c, b \in Took(e) : c # b => path[c][2] # path[b][2]
      BY <1>1 DEF LookedUp, Files, Shared
    <3>4. path'[d][1] = dir /\ path'[d][2] = k /\ k \in Nat \ {0}
      BY <1>2, <1>6
    <3> HIDE DEF k
    <3>5. \A b \in Took(e)' : path'[b][1] = found'[e] /\ path'[b][2] \in 1 .. k
      BY <1>8, <3>1, <3>2, <3>4
    <3>6. \A c, b \in Took(e)' : c # b => path'[c][2] # path'[b][2]
      <4>1. \A b \in Took(e) : path'[b][2] # path'[d][2]
        BY <3>2, <3>4
      <4> QED
        BY <1>8, <3>2, <3>3, <4>1
    <3>7. Took(e)' # {}
      BY <1>8
    <3> QED
      BY <1>10, <3>1, <3>5, <3>6, <3>7 DEF Shared
  <2> QED
    BY <2>1, <2>2 DEF Files
<1>12. InPlace'
  <2>1. ~Optional(d) => k = PlaceInEntry(d)
    <3> SUFFICES ASSUME ~Optional(d) PROVE k = PlaceInEntry(d)
      OBVIOUS
    <3> QED
      BY WaitedPlace
  <2>2. ASSUME NEW o \in DOMAIN Entries, NEW b \in Took(o)', ~Optional(b)
        PROVE  path'[b][2] = PlaceInEntry(b)
    <3>1. CASE b = d
      BY <1>2, <1>6, <2>1, <2>2, <3>1
    <3>2. CASE b # d
      <4>1. b \in Took(o) /\ b \in Ds /\ path'[b] = path[b]
        BY <1>1, <1>6, <1>8, <1>9, <2>2, <3>2 DEF Took, Users
      <4> QED
        BY <2>2, <4>1 DEF LookedUp, InPlace
    <3> QED
      BY <3>1, <3>2
  <2> QED
    BY <2>2 DEF InPlace, PlaceInEntry, Users
<1> QED
  BY <1>6, <1>7, <1>11, <1>12

\* The slots, and where Config::init() and run() are: no Bug has been thrown.
SlotTypes ==
  /\ holds \in [DOMAIN holds -> {Nobody} \union Ds \X Nat]
  /\ wrote \in [Ds -> Nat]
  /\ pc \in {"init", "count", "refs", "read", "round"} \union (Ends \ {"Bug"})

\* s[d] is how many temperatures the drivers up to d have, for those before n.
Adds(s, n) ==
  /\ s \in [0..Len(Sensors) -> Nat]
  /\ s[0] = 0 /\ \A d \in Ds : d < n => s[d] = s[d - 1] + numTemps[d]

\* The references are counted as the slots were.
Counted ==
  /\ pc = "count" => /\ at <= Len(Sensors) + 1
                     /\ \E s : Adds(s, at) /\ slots = s[at - 1]
  /\ pc = "refs" => \E s : /\ Adds(s, Len(Sensors) + 1)
                           /\ slots = s[Len(Sensors)] /\ refd = s[at - 1]

DInv == LookedUp /\ Waited /\ SlotTypes /\ Counted

\* What a driver that has found its device knows of it.
LEMMA LookupKeeps ==
  ASSUME Values, LookedUp, Waited, pc \in {"init", "read"}, NEW d \in Ds, d = at,
         NEW n \in Counts, LookupSucceeds(d, n)
  PROVE  /\ path' \in [Ds -> {NoPath} \union (Dirs \union {Absent}) \X Nat]
         /\ found' \in [DOMAIN Entries -> Dirs \union {Absent}] /\ it' \in [DOMAIN Entries -> Nat]
         /\ path'[d] # NoPath /\ \A b \in Ds \ {d} : path'[b] = path[b]
         /\ Files' /\ InPlace'
<1>1. CASE ~Looks(d)
  <2>1. UNCHANGED <<found, it, path>> /\ path[d] # NoPath
    BY <1>1 DEF LookupSucceeds, Looks
  <2>2. \A e : Took(e)' = Took(e)
    BY <2>1 DEF Took, Users
  <2> QED
    BY <2>1, <2>2 DEF LookedUp, DriverTypes, Files, Shared, InPlace, PlaceInEntry, Users
<1>2. CASE Looks(d) /\ Kind(d) = "hwmon"
  <2>1. TakesNext(d)
    BY <1>2 DEF LookupSucceeds
  <2> QED
    BY <1>2, <2>1, TakesNextKeeps
<1>3. CASE Looks(d) /\ Kind(d) # "hwmon"
  <2>1. path' = [path EXCEPT ![d] = Given] /\ UNCHANGED <<found, it>>
    BY <1>3, SensorsAssumption DEF LookupSucceeds
  <2>2. Given \in (Dirs \union {Absent}) \X Nat /\ Given # NoPath
    BY DEF Given, NoPath
  <2>3. /\ path' \in [Ds -> {NoPath} \union (Dirs \union {Absent}) \X Nat]
        /\ path'[d] # NoPath /\ \A b \in Ds \ {d} : path'[b] = path[b]
    BY <2>1, <2>2 DEF LookedUp, DriverTypes
  <2>4. \A e : \A b \in Users(e) : b \in Ds \ {d}
    BY <1>3 DEF Users
  <2>5. \A e : Took(e)' = Took(e) /\ \A b \in Took(e) : path'[b] = path[b]
    BY <2>3, <2>4 DEF Took
  <2> QED
    BY <2>1, <2>3, <2>5 DEF LookedUp, DriverTypes, Files, Shared, InPlace, PlaceInEntry, Users
<1> QED
  BY <1>1, <1>2, <1>3

\* The sensors stay as they are, whatever sysfs becomes.
LEMMA SameDrivers ==
  ASSUME LookedUp, tree' \in Trees, UNCHANGED <<found, it, path, initialized, inUse>>
  PROVE  LookedUp'
<1>1. \A e : Took(e)' = Took(e)
  BY DEF Took, Users
<1>2. DriverTypes'
  BY DEF LookedUp, DriverTypes
<1>3. Files' /\ InPlace'
  BY <1>1 DEF LookedUp, Files, Shared, InPlace, PlaceInEntry, Users
<1> QED
  BY <1>2, <1>3 DEF LookedUp

\* An exception that is no Bug.
LEMMA EndIsNoBug ==
  ASSUME DInv, NEW how \in Ends \ {"Bug"}, End(how)
  PROVE  DInv'
<1>1. UNCHANGED <<tree, found, it, path, initialized, inUse, holds, wrote>> /\ pc' = how
  BY DEF End, drivers, state
<1>2. tree \in Trees
  BY DEF DInv, LookedUp, DriverTypes
<1>3. pc' \notin {"init", "count", "refs", "read", "round"}
  BY <1>1 DEF Ends
<1>4. LookedUp'
  BY <1>1, <1>2, SameDrivers DEF DInv
<1>5. SlotTypes'
  BY <1>1 DEF DInv, SlotTypes
<1> QED
  BY <1>3, <1>4, <1>5 DEF DInv, Waited, Counted

\* Which temperatures are in use.
LEMMA InUseType ==
  ASSUME NEW d \in Ds, NEW n \in Nat
  PROVE  InUse(d, n) \in Seq(BOOLEAN)
<1>1. \A i \in 1..n : (Sensors[d].entry = Absent \/ i - 1 \in ToSet(Sensors[d].entry)) \in BOOLEAN
  OBVIOUS
<1> QED
  BY <1>1 DEF InUse

\* A try to initialise a driver: it is looked up, and then initialised or not.
LEMMA TrySteps ==
  ASSUME Values, DInv, pc \in {"init", "read"}, NEW d \in Ds, d = at, Calm, UNCHANGED pc,
         \/ (\E n \in Counts : LookupSucceeds(d, n))
         \/ UNCHANGED <<found, it, path>> /\ (at' = at \/ Optional(d) \/ path[d] # NoPath),
         \/ UNCHANGED <<initialized, inUse>>
         \/ (\E n \in Counts : LookupSucceeds(d, n) /\ InitSucceeds(d, n)),
         at' \in {at, at + 1}
  PROVE  DInv'
<1>1. UNCHANGED <<tree, holds, wrote>> /\ Ds \subseteq Nat
  BY Order DEF Calm, state
<1>2. /\ path' \in [Ds -> {NoPath} \union (Dirs \union {Absent}) \X Nat]
      /\ found' \in [DOMAIN Entries -> Dirs \union {Absent}] /\ it' \in [DOMAIN Entries -> Nat]
      /\ path[d] # NoPath => path'[d] # NoPath
      /\ ~Optional(d) /\ at' # at => path'[d] # NoPath
      /\ \A b \in Ds \ {d} : path'[b] = path[b]
      /\ Files' /\ InPlace'
  <2>1. CASE \E n \in Counts : LookupSucceeds(d, n)
    BY <2>1, LookupKeeps DEF DInv
  <2>2. CASE UNCHANGED <<found, it, path>> /\ (at' = at \/ Optional(d) \/ path[d] # NoPath)
    <3>1. \A e : Took(e)' = Took(e)
      BY <2>2 DEF Took, Users
    <3>2. Files' /\ InPlace'
      BY <2>2, <3>1 DEF DInv, LookedUp, Files, Shared, InPlace, PlaceInEntry, Users
    <3> QED
      BY <2>2, <3>2 DEF DInv, LookedUp, DriverTypes
  <2> QED
    BY <2>1, <2>2
<1>3. /\ initialized' \in [Ds -> BOOLEAN] /\ inUse' \in [Ds -> Seq(BOOLEAN)]
      /\ \A b \in Ds : initialized'[b] => path'[b] # NoPath
  <2>1. CASE UNCHANGED <<initialized, inUse>>
    BY <1>2, <2>1 DEF DInv, LookedUp, DriverTypes
  <2>2. CASE \E n \in Counts : LookupSucceeds(d, n) /\ InitSucceeds(d, n)
    <3>1. PICK n \in Counts : LookupSucceeds(d, n) /\ InitSucceeds(d, n)
      BY <2>2
    <3>2. InUse(d, n) \in Seq(BOOLEAN)
      BY SensorsAssumption, InUseType
    <3>3. path'[d] # NoPath
      BY <3>1, LookupKeeps DEF DInv
    <3>4. initialized' = [initialized EXCEPT ![d] = TRUE]
      BY <3>1 DEF InitSucceeds
    <3>5. inUse' = inUse \/ inUse' = [inUse EXCEPT ![d] = InUse(d, n)]
      BY <3>1 DEF InitSucceeds, InitHwmon, InitTp, InitFixed
    <3> QED
      BY <1>2, <3>2, <3>3, <3>4, <3>5 DEF DInv, LookedUp, DriverTypes
  <2> QED
    BY <2>1, <2>2
<1>4. LookedUp'
  BY <1>1, <1>2, <1>3 DEF DInv, LookedUp, DriverTypes
<1>5. Waited'
  <2>1. at \in Nat
    BY DEF Values
  <2>2. CASE pc = "init"
    <3>1. \A b \in Ds : b > at' => b > at /\ b # d
      BY <1>1, <2>1
    <3>2. \A b \in Ds : b < at' => (b < at /\ b # d) \/ (b = d /\ at' # at)
      BY <1>1, <2>1
    <3>3. AllFound => AllFound'
      BY <1>2 DEF AllFound
    <3>4. FoundInTurn => FoundInTurn'
      BY <1>2, <3>1, <3>2 DEF FoundInTurn
    <3> QED
      BY <2>2, <3>3, <3>4 DEF DInv, Waited
  <2>3. CASE pc = "read"
    BY <1>2, <2>3 DEF DInv, Waited, AllFound
  <2> QED
    BY <2>2, <2>3
<1> QED
  BY <1>1, <1>4, <1>5 DEF DInv, SlotTypes, Counted

\* Config::init's and robust_io's try.
LEMMA TryIsNoBug ==
  ASSUME IInv, DInv, InitSensor \/ RetrySensor
  PROVE  DInv'
<1>1. at \in Ds /\ at \in Nat /\ pc \in {"init", "read"} /\ Values /\ Optional(at) \in BOOLEAN
  BY SensorsAssumption DEF InitSensor, RetrySensor, IInv, Values
<1>2. CASE TryThrows(at)
  <2>1. ~(Looks(at) /\ Kind(at) = "hwmon" /\ it[Sensors[at].entry] > FilesOf(Sensors[at].entry))
    <3> SUFFICES ASSUME Looks(at), Kind(at) = "hwmon"
                 PROVE  ~(it[Sensors[at].entry] > FilesOf(Sensors[at].entry))
      OBVIOUS
    <3>1. it[EntryOf(at)] <= FilesOf(EntryOf(at))
      BY <1>1, FileLeft DEF DInv, LookedUp
    <3>2. EntryOf(at) \in DOMAIN Entries
      BY <1>1, SensorsAssumption DEF EntryOf
    <3>3. it[EntryOf(at)] \in Nat /\ FilesOf(EntryOf(at)) \in Nat
      BY <3>2, TookCount DEF DInv, LookedUp, DriverTypes
    <3> QED
      BY <3>1, <3>3 DEF EntryOf
  <2>2. End("error") \/ End("bad_optional_access") \/ End("ConfigError")
    BY <1>2, <2>1 DEF TryThrows, LookupThrows
  <2> QED
    BY <2>2, EndIsNoBug DEF Ends
<1>3. \A d \in Ds : (pc = "init" => (TurnOver(d) => UNCHANGED pc /\ at' \in {at, at + 1}))
  BY DEF TurnOver, ToNext
<1>4. CASE \/ TrySucceeds(at, ToNext) \/ TrySucceeds(at, UNCHANGED <<pc, at>>)
  <2>1. PICK n \in Counts : LookupSucceeds(at, n) /\ InitSucceeds(at, n) /\ Calm
    BY <1>4 DEF TrySucceeds
  <2>2. UNCHANGED pc /\ at' \in {at, at + 1}
    BY <1>4 DEF TrySucceeds, ToNext
  <2> QED
    BY <1>1, <2>1, <2>2, TrySteps
<1>5. CASE \/ pc = "init" /\ TryForgiven(at, TurnOver(at))
           \/ pc = "read" /\ TryForgiven(at, ToNext)
  <2>1. /\ UNCHANGED <<initialized, inUse>> /\ Calm /\ UNCHANGED pc /\ at' \in {at, at + 1}
        /\ pc = "init" /\ ~Optional(at) /\ ~initialized[at] => at' = at
    BY <1>5 DEF TryForgiven, TurnOver, ToNext
  <2>2. CASE \E n \in Counts : LookupSucceeds(at, n)
    BY <1>1, <2>1, <2>2, TrySteps
  <2>3. CASE UNCHANGED <<found, it, path>>
    <3>1. at' = at \/ Optional(at) \/ path[at] # NoPath
      BY <1>1, <1>5, <2>1 DEF DInv, Waited, AllFound, LookedUp, DriverTypes
    <3> QED
      BY <1>1, <2>1, <2>3, <3>1, TrySteps
  <2> QED
    BY <1>5, <2>2, <2>3 DEF TryForgiven
<1> QED
  BY <1>2, <1>4, <1>5 DEF InitSensor, RetrySensor

\* The temperatures of more drivers are more temperatures.
LEMMA SumsGrow ==
  ASSUME Values, NEW s, Adds(s, Len(Sensors) + 1), NEW d \in Ds
  PROVE  s[d] = s[d - 1] + numTemps[d] /\ s[d] <= s[Len(Sensors)]
<1> DEFINE N == Len(Sensors)
           Less == {n \in d..N : s[n] < s[d]}
<1>1. N \in Nat /\ d \in 1..N /\ s \in [0..N -> Nat] /\ numTemps \in [Ds -> Nat] /\ Ds = 1..N
  BY Order DEF Adds, Values
<1>2. \A n \in Ds : s[n] = s[n - 1] + numTemps[n]
  BY <1>1 DEF Adds
<1>3. Less = {}
  <2> SUFFICES ASSUME Less # {} PROVE FALSE
    OBVIOUS
  <2>1. Less \in SUBSET Nat
    BY <1>1
  <2>2. PICK n \in Less : \A m \in Less : n <= m
    BY <2>1, LeastNatural
  <2>3. n \in d..N /\ s[n] < s[d] /\ n # d
    BY <1>1
  <2>4. n - 1 \in d..N /\ n - 1 \notin Less
    BY <1>1, <2>2, <2>3
  <2>5. n \in Ds /\ n - 1 \in 0..N /\ n \in 0..N /\ d \in 0..N
    BY <1>1, <2>3, <2>4
  <2>6. s[n] \in Nat /\ s[n - 1] \in Nat /\ s[d] \in Nat /\ numTemps[n] \in Nat
    BY <1>1, <2>5
  <2>7. s[n] = s[n - 1] + numTemps[n]
    BY <1>2, <2>5
  <2>8. ~(s[n - 1] < s[d])
    BY <2>4
  <2> QED
    BY <2>3, <2>6, <2>7, <2>8
<1>4. N \notin Less /\ N \in d..N
  BY <1>1, <1>3
<1> QED
  BY <1>1, <1>2, <1>4

\* Config::num_temps.
LEMMA CountIsNoBug ==
  ASSUME IInv, DInv, SensorsDone \/ Count
  PROVE  DInv'
<1>1. /\ UNCHANGED <<tree, found, it, path, initialized, inUse, numTemps, holds, wrote>>
      /\ tree \in Trees
  BY DEF SensorsDone, Count, drivers, state, DInv, LookedUp, DriverTypes
<1>2. LookedUp'
  BY <1>1, SameDrivers DEF DInv
<1>3. pc' = "count"
  BY DEF SensorsDone, Count, Phase, ToNext
<1>4. SlotTypes'
  BY <1>1, <1>3 DEF DInv, SlotTypes
<1>5. Len(Sensors) \in Nat /\ Ds = 1..Len(Sensors) /\ at \in Nat \ {0} /\ slots \in Nat
      /\ numTemps \in [Ds -> Nat]
  BY Order DEF IInv, Values
<1>6. CASE SensorsDone
  <2>1. pc = "init" /\ at' = 1 /\ slots' = 0 /\ \A d \in Ds : d < at
    BY <1>5, <1>6 DEF SensorsDone, Phase
  <2>2. Waited'
    BY <1>1, <1>3, <2>1 DEF DInv, Waited, FoundInTurn, AllFound
  <2>3. PICK s : s = [d \in 0..Len(Sensors) |-> 0]
    OBVIOUS
  <2>4. at' <= Len(Sensors) + 1 /\ slots' = s[at' - 1]
    BY <1>5, <2>1, <2>3
  <2>5. Adds(s, at)'
    BY <1>5, <2>1, <2>3 DEF Adds
  <2> QED
    BY <1>2, <1>3, <1>4, <2>2, <2>4, <2>5 DEF DInv, Counted
<1>7. CASE Count
  <2>1. /\ pc = "count" /\ at \in Ds /\ at' = at + 1 /\ slots' = slots + numTemps[at]
    BY <1>7 DEF Count, ToNext
  <2>2. Waited'
    BY <1>1, <1>3, <2>1 DEF DInv, Waited, AllFound
  <2>3. PICK s : Adds(s, at) /\ slots = s[at - 1]
    BY <2>1 DEF DInv, Counted
  <2>0. PICK r : r = [s EXCEPT ![at] = slots + numTemps[at]]
    OBVIOUS
  <2>4. /\ r \in [0..Len(Sensors) -> Nat] /\ r[at] = slots + numTemps[at]
        /\ \A d \in 0..Len(Sensors) : d # at => r[d] = s[d]
    BY <1>5, <2>0, <2>1, <2>3 DEF Adds
  <2>5. \A d \in Ds : d < at + 1 => r[d] = r[d - 1] + numTemps[d]
    <3> SUFFICES ASSUME NEW d \in Ds, d < at + 1 PROVE r[d] = r[d - 1] + numTemps[d]
      OBVIOUS
    <3>1. d - 1 \in 0..Len(Sensors) /\ d - 1 # at /\ r[d - 1] = s[d - 1]
      BY <1>5, <2>1, <2>4
    <3>2. CASE d = at
      BY <2>3, <2>4, <3>1, <3>2
    <3>3. CASE d # at
      <4>1. d < at /\ r[d] = s[d]
        BY <1>5, <2>1, <2>4, <3>3
      <4> QED
        BY <2>3, <3>1, <4>1 DEF Adds
    <3> QED
      BY <3>2, <3>3
  <2>6. r[0] = 0
    BY <1>5, <2>1, <2>3, <2>4 DEF Adds
  <2>7. Adds(r, at + 1) /\ at + 1 <= Len(Sensors) + 1 /\ slots' = r[at' - 1]
    BY <1>5, <2>1, <2>4, <2>5, <2>6 DEF Adds
  <2>8. Adds(r, at)'
    BY <1>1, <2>1, <2>7 DEF Adds
  <2> QED
    BY <1>2, <1>3, <1>4, <2>1, <2>2, <2>7, <2>8 DEF DInv, Counted
<1> QED
  BY <1>6, <1>7

\* The new TemperatureState, and the references to it.
LEMMA RefsAreNoBug ==
  ASSUME IInv, DInv, Consistency \/ InitRef
  PROVE  DInv'
<1>1. Len(Sensors) \in Nat /\ Ds = 1..Len(Sensors) /\ at \in Nat \ {0} /\ slots \in Nat
      /\ numTemps \in [Ds -> Nat] /\ tree \in Trees
  BY Order DEF IInv, Values, DInv, LookedUp, DriverTypes
<1>2. CASE Consistency
  <2>1. CASE End("ConfigError")
    BY <2>1, EndIsNoBug DEF Ends
  <2>2. CASE /\ Phase("refs") /\ pc = "count" /\ at \notin Ds
             /\ refd' = 0 /\ holds' = [i \in 1..slots |-> Nobody]
             /\ UNCHANGED <<tree, found, it, drivers, slots, base, given, wrote>>
    <3>1. /\ UNCHANGED <<tree, found, it, path, initialized, inUse, numTemps, wrote, slots>>
          /\ pc' = "refs" /\ at' = 1
      BY <2>2 DEF Phase, drivers
    <3>2. LookedUp'
      BY <1>1, <3>1, SameDrivers DEF DInv
    <3>3. Waited'
      BY <2>2, <3>1 DEF DInv, Waited, AllFound
    <3>4. SlotTypes'
      BY <2>2, <3>1 DEF DInv, SlotTypes
    <3>5. at = Len(Sensors) + 1
      BY <1>1, <2>2 DEF DInv, Counted
    <3>6. PICK s : Adds(s, at) /\ slots = s[at - 1]
      BY <2>2 DEF DInv, Counted
    <3>7. Adds(s, Len(Sensors) + 1)' /\ slots' = s[Len(Sensors)] /\ refd' = s[at' - 1]
      BY <1>1, <2>2, <3>1, <3>5, <3>6 DEF Adds
    <3> QED
      BY <3>1, <3>2, <3>3, <3>4, <3>7 DEF DInv, Counted
  <2> QED
    BY <1>2, <2>1, <2>2 DEF Consistency
<1>3. CASE InitRef
  <2>1. PICK s : /\ Adds(s, Len(Sensors) + 1)
                 /\ slots = s[Len(Sensors)] /\ refd = s[at - 1]
    BY <1>3 DEF DInv, Counted, InitRef
  <2>2. at \in Ds /\ s[at] = s[at - 1] + numTemps[at] /\ s[at] <= s[Len(Sensors)]
    BY <1>3, <2>1, SumsGrow DEF InitRef, IInv
  <2>3. /\ refd' = s[at] /\ at' = at + 1 /\ pc = "refs"
        /\ UNCHANGED <<pc, tree, found, it, path, initialized, inUse, numTemps, slots>>
        /\ UNCHANGED <<holds, wrote>>
    BY <1>3, <2>1, <2>2 DEF InitRef, Ref, ToNext, drivers, state
  <2>4. LookedUp'
    BY <1>1, <2>3, SameDrivers DEF DInv
  <2>5. Waited' /\ SlotTypes'
    BY <2>3 DEF DInv, Waited, AllFound, SlotTypes
  <2>6. Adds(s, Len(Sensors) + 1)' /\ slots' = s[Len(Sensors)] /\ refd' = s[at' - 1]
    BY <1>1, <2>1, <2>3 DEF Adds
  <2> QED
    BY <2>3, <2>4, <2>5, <2>6 DEF DInv, Counted
<1> QED
  BY <1>2, <1>3

\* How many temperatures a driver writes.
LEMMA WritesNaturals ==
  ASSUME Values, DriverTypes, NEW d \in Ds
  PROVE  Writes(d) \subseteq Nat
<1>1. CASE Kind(d) # "tp"
  BY <1>1 DEF Writes, Values
<1>2. CASE Kind(d) = "tp"
  <2>1. ASSUME NEW n \in Counts
        PROVE  Known(d, n) .. Known(d, n) + Behind(d, n) \subseteq Nat
    <3>1. inUse[d] \in Seq(BOOLEAN) /\ n \in Nat
      BY SensorsAssumption DEF DriverTypes
    <3>2. IsFiniteSet(DOMAIN inUse[d])
      BY <3>1, FS_Interval
    <3>3. IsFiniteSet({i \in DOMAIN inUse[d] : i <= n /\ inUse[d][i]})
      BY <3>2, FS_Subset
    <3>4. Known(d, n) \in Nat
      BY <3>3, FS_CardinalityType DEF Known
    <3>5. Behind(d, n) \in Nat
      BY <3>1 DEF Behind
    <3> QED
      BY <3>4, <3>5
  <2> QED
    BY <1>2, <2>1 DEF Writes
<1> QED
  BY <1>1, <1>2

\* A round of readings: the drivers stay what they are.
LEMMA ReadIsNoBug ==
  ASSUME IInv, DInv, NewRound \/ ReadSucceeds \/ ReadFails \/ EndRound
  PROVE  DInv'
<1>1. CASE End("crash") \/ End("error")
  BY <1>1, EndIsNoBug DEF Ends
<1>2. ASSUME NEW n \in Int, at \in Ds, holds' = Filled(at, n)
      PROVE  holds' \in [DOMAIN holds' -> {Nobody} \union Ds \X Nat]
  <2>1. holds \in [DOMAIN holds -> {Nobody} \union Ds \X Nat]
    BY DEF DInv, SlotTypes
  <2>2. \A i \in DOMAIN holds : i - base[at] \in 1..n => <<at, i - base[at]>> \in Ds \X Nat
    BY <1>2
  <2> QED
    BY <1>2, <2>1, <2>2 DEF Filled
<1>3. CASE /\ UNCHANGED <<tree, found, it, path, initialized, inUse, slots>>
           /\ pc \in {"refs", "read", "round"} /\ pc' \in {"read", "round"}
           /\ holds' \in [DOMAIN holds' -> {Nobody} \union Ds \X Nat]
           /\ wrote' \in [Ds -> Nat]
  <2>1. LookedUp'
    BY <1>3, SameDrivers DEF DInv, LookedUp, DriverTypes
  <2> QED
    BY <1>3, <2>1 DEF DInv, Waited, AllFound, SlotTypes, Counted
<1>4. holds \in [DOMAIN holds -> {Nobody} \union Ds \X Nat] /\ wrote \in [Ds -> Nat]
  BY DEF DInv, SlotTypes
<1>5. CASE NewRound \/ EndRound
  BY <1>3, <1>4, <1>5 DEF NewRound, EndRound, Phase, drivers, refs, state
<1>6. CASE ReadSucceeds \/ ReadFails
  <2>1. at \in Ds /\ pc = "read" /\ Writes(at) \subseteq Nat
    BY <1>6, WritesNaturals DEF ReadSucceeds, ReadFails, IInv, DInv, LookedUp
  <2>2. CASE ReadSucceeds /\ ~End("crash")
    <3>1. PICK n \in Writes(at) : /\ holds' = Filled(at, n)
                                  /\ wrote' = [wrote EXCEPT ![at] = n]
                                  /\ ToNext
                                  /\ UNCHANGED <<tree, found, it, drivers, slots, refs>>
      BY <2>2 DEF ReadSucceeds
    <3>2. holds' \in [DOMAIN holds' -> {Nobody} \union Ds \X Nat] /\ wrote' \in [Ds -> Nat]
      BY <1>2, <1>4, <2>1, <3>1
    <3> QED
      BY <1>3, <2>1, <3>1, <3>2 DEF ToNext, drivers
  <2>3. CASE ReadFails /\ ~End("crash") /\ ~End("error")
    <3>1. ASSUME NEW n \in UNION {0..m : m \in Writes(at)} PROVE n \in Int /\ n + 1 \in Int
      <4>1. PICK m \in Writes(at) : n \in 0..m
        OBVIOUS
      <4> QED
        BY <4>1
    <3>2. PICK n \in Int : /\ holds' = Filled(at, n)
                           /\ ToNext
                           /\ UNCHANGED <<tree, found, it, drivers, slots, refs, wrote>>
      BY <2>3, <3>1 DEF ReadFails
    <3>3. holds' \in [DOMAIN holds' -> {Nobody} \union Ds \X Nat]
      BY <1>2, <2>1, <3>2
    <3> QED
      BY <1>3, <1>4, <2>1, <3>2, <3>3 DEF ToNext, drivers
  <2> QED
    BY <1>1, <1>6, <2>2, <2>3
<1> QED
  BY <1>5, <1>6

\* No driver has been looked up yet.
LEMMA DriversInit == Init => DInv
<1> SUFFICES ASSUME Init PROVE DInv
  OBVIOUS
<1>1. DriverTypes
  BY DEF Init, DriverTypes
<1>2. \A e \in DOMAIN Entries : Took(e) = {}
  BY DEF Init, Took, Users
<1>3. Files /\ InPlace
  BY <1>2 DEF Init, Files, Shared, InPlace
<1>4. Waited
  BY Order DEF Init, Waited, FoundInTurn
<1>5. SlotTypes
  BY DEF Init, SlotTypes
<1> QED
  BY <1>1, <1>3, <1>4, <1>5 DEF Init, DInv, LookedUp, Counted

\* The second part of the inductive invariant is kept by every step.
LEMMA DriversStep == IInv /\ DInv /\ [Next]_vars => DInv'
<1> SUFFICES ASSUME IInv, DInv, [Next]_vars PROVE DInv'
  OBVIOUS
<1>1. CASE Plug
  <2>1. /\ tree' \in Trees
        /\ UNCHANGED <<found, it, path, initialized, inUse, numTemps, slots, refd, pc, at>>
        /\ UNCHANGED <<holds, wrote>>
    BY <1>1 DEF Plug, drivers, refs, state
  <2>2. LookedUp'
    BY <2>1, SameDrivers DEF DInv
  <2> QED
    BY <2>1, <2>2 DEF DInv, Waited, FoundInTurn, AllFound, SlotTypes, Counted, Adds
<1>2. CASE Reinit
  <2>1. /\ pc' = "init" /\ pc = "round"
        /\ tree \in Trees /\ UNCHANGED <<tree, found, it, path, initialized, inUse, holds, wrote>>
    BY <1>2 DEF Reinit, Phase, drivers, state, DInv, LookedUp, DriverTypes
  <2>2. LookedUp'
    BY <2>1, SameDrivers DEF DInv
  <2> QED
    BY <2>1, <2>2 DEF DInv, Waited, AllFound, SlotTypes, Counted
<1>3. CASE UNCHANGED vars
  <2>1. /\ tree' \in Trees
        /\ UNCHANGED <<found, it, path, initialized, inUse, numTemps, slots, refd, pc, at>>
        /\ UNCHANGED <<holds, wrote>>
    BY <1>3 DEF vars, drivers, refs, state, DInv, LookedUp, DriverTypes
  <2>2. LookedUp'
    BY <2>1, SameDrivers DEF DInv
  <2> QED
    BY <2>1, <2>2 DEF DInv, Waited, FoundInTurn, AllFound, SlotTypes, Counted, Adds
<1> QED
  BY <1>1, <1>2, <1>3, TryIsNoBug, CountIsNoBug, RefsAreNoBug, ReadIsNoBug DEF Next

\* It holds always.
LEMMA DriversInvariance == Spec => []DInv
  BY Invariance, DriversInit, DriversStep, PTL DEF Spec

-----------------------------------------------------------------------------
(* The theorems *)

\* After a round each slot holds what the driver has written to it that it was
\* given to, whatever devices come late, fail or show too much.
THEOREM SlotsRightTheorem == Spec => []SlotsRight
<1>1. IInv => SlotsRight
  BY DEF IInv, RightSoFar, Kept, SlotsRight
<1> QED
  BY <1>1, Invariance, PTL

\* The exceptions that only an error in thinkfan could cause are never thrown
\* (hwmon.cpp:269, temperature_state.cpp:123): there are no more lookups than files
\* and no more references than temperatures.
THEOREM NoBugTheorem == Spec => []NoBug
<1>1. DInv => NoBug
  BY DEF DInv, SlotTypes, NoBug, Ends
<1> QED
  BY <1>1, DriversInvariance, PTL

\* Each driver of an entry has a file of its own, and in the order of the indices if
\* the entry is not optional (hwmon.cpp:271).
THEOREM OwnFilesTheorem == Spec => []OwnFiles
<1>1. DInv => OwnFiles
  <2> SUFFICES ASSUME DInv, NEW c \in Ds, NEW d \in Ds,
                      Kind(c) = "hwmon", Kind(d) = "hwmon", path[c] # NoPath, path[d] # NoPath
               PROVE  /\ EntryOf(c) = EntryOf(d) /\ c # d =>
                           path[c][1] = path[d][1] /\ path[c][2] # path[d][2]
                      /\ ~Optional(d) => path[d][2] = PlaceInEntry(d)
    BY DEF OwnFiles
  <2>1. EntryOf(c) \in DOMAIN Entries /\ EntryOf(d) \in DOMAIN Entries
    BY SensorsAssumption DEF EntryOf
  <2>2. c \in Took(EntryOf(c)) /\ d \in Took(EntryOf(d))
    BY DEF Took, Users
  <2> QED
    BY <2>1, <2>2 DEF DInv, LookedUp, Files, Shared, InPlace
<1> QED
  BY <1>1, DriversInvariance, PTL

\* The state has the shape that TypeOK describes.
THEOREM TypeCorrect == Spec => []TypeOK
<1>1. IInv /\ DInv => TypeOK
  <2> SUFFICES ASSUME IInv, DInv PROVE TypeOK
    OBVIOUS
  <2>1. ASSUME NEW e \in DOMAIN Entries PROVE it[e] \in 0..FilesOf(e) + 1
    <3>1. Cardinality(Took(e)) \in Nat /\ FilesOf(e) \in Nat /\ Cardinality(Took(e)) <= FilesOf(e)
      BY TookCount
    <3> QED
      BY <3>1 DEF DInv, LookedUp, Files, Shared
  <2> QED
    BY <2>1 DEF TypeOK, IInv, Values, GivenOut, DInv, LookedUp, DriverTypes, SlotTypes
<1> QED
  BY <1>1, Invariance, DriversInvariance, PTL

\* The searches of hwmon.cpp are right about what they return, in every tree,
\* cyclic ones too (hwmon.cpp:89-214).
THEOREM SearchesRightTheorem == Spec => []SearchesRight
<1>1. DInv => SearchesRight
  <2> SUFFICES ASSUME DInv, NEW e \in DOMAIN Entries
               PROVE  LET E == Entries[e] IN
                      /\ E.indices # Absent => SearchRight(tree, ToSet(E.indices), E.base)
                      /\ E.name # Absent => LabelsRight(tree, "name", E.name, E.base)
                      /\ E.model # Absent => LabelsRight(tree, "model", E.model, E.base)
    BY DEF SearchesRight
  <2>1. IsTree(tree) /\ Entries[e].base \in Dirs
    BY TreesAssumption, EntriesAssumption DEF DInv, LookedUp, DriverTypes
  <2> QED
    BY <2>1, IndexSearchRight, LabelsSearchRight
<1> QED
  BY <1>1, DriversInvariance, PTL
=============================================================================
