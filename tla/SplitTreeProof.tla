-------------------------- MODULE SplitTreeProof --------------------------
(***************************************************************************)
(* What TLAPS proves of SplitTree.  The positions of a tree come first,    *)
(* then what it takes for a rearranged tree to be one (Fits), recursion    *)
(* over a tree and over the steps of a loop, the sizes, the numbering of   *)
(* the leaves, the pass that removes panes, the steps, and at last how a   *)
(* tiled tab stays tiled: split, with panes removed, and made larger.      *)
(***************************************************************************)
EXTENDS SplitTree, SequenceTheorems, FiniteSetTheorems, TLAPS

(* Induction over data: a set of natural numbers has a smallest one, so a  *)
(* set that holds 0 and the successors of what it holds holds them all.    *)
LEMMA Smallest ==
  ASSUME NEW T, T \subseteq Nat, T # {}
  PROVE  \E m \in T : \A k \in T : m <= k
<1> DEFINE C == {T \cap 0..n : n \in T}
           R == StrictSubsetOrdering(Nat)
<1>1. C \subseteq FiniteSubsetsOf(Nat)
  <2>1. ASSUME NEW n \in T PROVE IsFiniteSet(T \cap 0..n)
    <3>1. IsFiniteSet(0..n)
      BY FS_Interval
    <3> QED BY <3>1, FS_Subset
  <2> QED BY <2>1 DEF FiniteSubsetsOf
<1>2. C # {}
  OBVIOUS
<1>3. IsWellFoundedOn(R, FiniteSubsetsOf(Nat))
  BY FS_StrictSubsetOrderingWellFounded
<1>4. PICK x \in C : \A y \in C : ~(<<y, x>> \in R)
  <2> HIDE DEF C, R
  <2> QED BY <1>1, <1>2, <1>3, WFMin
<1>5. PICK m \in T : x = T \cap 0..m
  OBVIOUS
<1>6. ASSUME NEW k \in T, k < m PROVE FALSE
  <2>1. T \cap 0..k \in C /\ T \cap 0..k \subseteq x /\ m \in x /\ m \notin T \cap 0..k
    BY <1>5, <1>6
  <2>2. <<T \cap 0..k, x>> \in R
    BY <2>1, <1>5 DEF StrictSubsetOrdering
  <2> QED BY <2>1, <2>2, <1>4
<1> QED BY <1>6

LEMMA InductionOnSet ==
  ASSUME NEW S, 0 \in S, \A n \in Nat : n \in S => n + 1 \in S
  PROVE  Nat \subseteq S
<1> SUFFICES ASSUME Nat \ S # {} PROVE FALSE
  OBVIOUS
<1>1. PICK m \in Nat \ S : \A k \in Nat \ S : m <= k
  BY Smallest
<1>2. m # 0 /\ m - 1 \in Nat /\ m - 1 \in S
  BY <1>1
<1>3. (m - 1) + 1 \in S
  BY <1>2
<1> QED BY <1>3

(* RemoveAt takes one element out and moves up those behind it. *)
LEMMA RemoveAtElements ==
  ASSUME NEW S, NEW s \in Seq(S), NEW i \in 1..Len(s)
  PROVE  /\ RemoveAt(s, i) \in Seq(S)
         /\ Len(RemoveAt(s, i)) = Len(s) - 1
         /\ \A k \in 1..(Len(s) - 1) : RemoveAt(s, i)[k] = IF k < i THEN s[k] ELSE s[k + 1]
<1> DEFINE a == SubSeq(s, 1, i - 1)
           b == SubSeq(s, i + 1, Len(s))
<1>1. a \in Seq(S) /\ Len(a) = i - 1 /\ \A k \in 1..(i - 1) : a[k] = s[k]
  BY SubSeqProperties
<1>2. b \in Seq(S) /\ Len(b) = Len(s) - i /\ \A k \in 1..(Len(s) - i) : b[k] = s[i + k]
  BY SubSeqProperties
<1>3. /\ a \o b \in Seq(S)
      /\ Len(a \o b) = Len(a) + Len(b)
      /\ \A k \in 1..(Len(a) + Len(b)) : (a \o b)[k] = IF k <= Len(a) THEN a[k] ELSE b[k - Len(a)]
  <2> HIDE DEF a, b
  <2> QED BY <1>1, <1>2, ConcatProperties
<1>4. RemoveAt(s, i) = a \o b
  BY DEF RemoveAt
<1>5. Len(s) \in Nat
  OBVIOUS
<1> HIDE DEF a, b
<1>6. Len(a \o b) = Len(s) - 1 /\ Len(a) + Len(b) = Len(s) - 1
  BY <1>1, <1>2, <1>3, <1>5
<1>7. ASSUME NEW k \in 1..(Len(s) - 1)
      PROVE  (a \o b)[k] = IF k < i THEN s[k] ELSE s[k + 1]
  <2>0. (a \o b)[k] = IF k <= i - 1 THEN a[k] ELSE b[k - (i - 1)]
    BY <1>1, <1>3, <1>6
  <2>1. CASE k < i
    <3>1. k \in 1..(i - 1) /\ k <= i - 1
      BY <1>5, <2>1
    <3> QED BY <1>1, <2>0, <2>1, <3>1
  <2>2. CASE ~(k < i)
    <3>1. k - (i - 1) \in 1..(Len(s) - i) /\ i + (k - (i - 1)) = k + 1 /\ ~(k <= i - 1)
      BY <1>5, <2>2
    <3>2. b[k - (i - 1)] = s[k + 1]
      BY <1>2, <3>1
    <3> QED BY <2>0, <2>2, <3>1, <3>2
  <2> QED BY <2>1, <2>2
<1>8. a \o b \in Seq(S)
  BY <1>3
<1> QED
  BY <1>4, <1>6, <1>7, <1>8

(* InsertAt moves down the elements from the position on. *)
LEMMA InsertAtElements ==
  ASSUME NEW S, NEW s \in Seq(S), NEW e \in S, NEW i \in 1..(Len(s) + 1)
  PROVE  /\ InsertAt(s, i, e) \in Seq(S)
         /\ Len(InsertAt(s, i, e)) = Len(s) + 1
         /\ \A k \in 1..(Len(s) + 1) :
              InsertAt(s, i, e)[k] = IF k < i THEN s[k] ELSE IF k = i THEN e ELSE s[k - 1]
<1> DEFINE a == SubSeq(s, 1, i - 1)
           b == SubSeq(s, i, Len(s))
<1>1. a \in Seq(S) /\ Len(a) = i - 1 /\ \A k \in 1..(i - 1) : a[k] = s[k]
  BY SubSeqProperties
<1>2. b \in Seq(S) /\ Len(b) = Len(s) + 1 - i /\ \A k \in 1..(Len(s) + 1 - i) : b[k] = s[i + k - 1]
  BY SubSeqProperties
<1>3. /\ a \o <<e>> \in Seq(S)
      /\ Len(a \o <<e>>) = i
      /\ \A k \in 1..i : (a \o <<e>>)[k] = IF k < i THEN s[k] ELSE e
  <2>1. <<e>> \in Seq(S) /\ Len(<<e>>) = 1 /\ <<e>>[1] = e
    OBVIOUS
  <2> HIDE DEF a, b
  <2>2. a \o <<e>> \in Seq(S) /\ Len(a \o <<e>>) = Len(a) + 1
        /\ \A k \in 1..(Len(a) + 1) : (a \o <<e>>)[k] = IF k <= Len(a) THEN a[k] ELSE <<e>>[k - Len(a)]
    BY <1>1, <2>1, ConcatProperties
  <2> QED BY <1>1, <2>1, <2>2
<1>4. /\ (a \o <<e>>) \o b \in Seq(S)
      /\ Len((a \o <<e>>) \o b) = Len(s) + 1
      /\ \A k \in 1..(Len(s) + 1) :
           ((a \o <<e>>) \o b)[k] = IF k <= i THEN (a \o <<e>>)[k] ELSE b[k - i]
  <2> DEFINE c == a \o <<e>>
  <2>1. c \in Seq(S) /\ Len(c) = i
    BY <1>3
  <2> HIDE DEF a, b, c
  <2>2. c \o b \in Seq(S) /\ Len(c \o b) = Len(c) + Len(b)
        /\ \A k \in 1..(Len(c) + Len(b)) : (c \o b)[k] = IF k <= Len(c) THEN c[k] ELSE b[k - Len(c)]
    BY <1>2, <2>1, ConcatProperties
  <2>3. c \o b \in Seq(S) /\ Len(c \o b) = Len(s) + 1
        /\ \A k \in 1..(Len(s) + 1) : (c \o b)[k] = IF k <= i THEN c[k] ELSE b[k - i]
    BY <1>2, <2>1, <2>2
  <2> QED BY <2>3 DEF c
<1>5. InsertAt(s, i, e) = (a \o <<e>>) \o b
  BY DEF InsertAt
<1> HIDE DEF a, b
<1> QED
  BY <1>1, <1>2, <1>3, <1>4, <1>5

-----------------------------------------------------------------------------
(* Positions. *)
Pos == Seq(Bit)

LEMMA PrefixIs ==
  ASSUME NEW p \in Pos, NEW q \in Pos
  PROVE  IsPrefix(p, q) <=> Len(p) <= Len(q) /\ \A i \in 1..Len(p) : p[i] = q[i]
<1>1. Len(p) \in Nat /\ Len(q) \in Nat /\ p \in [1..Len(p) -> Bit] /\ q \in [1..Len(q) -> Bit]
  BY DEF Pos
<1>2. ASSUME Len(p) <= Len(q)
      PROVE  /\ SubSeq(p, 1, Len(p)) = [i \in 1..Len(p) |-> p[i]]
             /\ SubSeq(q, 1, Len(p)) = [i \in 1..Len(p) |-> q[i]]
  BY <1>1, <1>2 DEF Pos
<1>3. ASSUME Len(p) <= Len(q)
      PROVE  SubSeq(p, 1, Len(p)) = SubSeq(q, 1, Len(p)) <=> \A i \in 1..Len(p) : p[i] = q[i]
  BY <1>2, <1>3
<1> QED BY <1>3 DEF IsPrefix

LEMMA ChildIs ==
  ASSUME NEW p \in Pos, NEW b \in Bit
  PROVE  /\ Append(p, b) \in Pos /\ Append(p, b) # <<>>
         /\ Len(Append(p, b)) = Len(p) + 1 /\ Len(p) \in Nat
         /\ \A i \in 1..Len(p) : Append(p, b)[i] = p[i]
         /\ Append(p, b)[Len(p) + 1] = b
         /\ Front(Append(p, b)) = p /\ Last(Append(p, b)) = b
<1>1. /\ Append(p, b) \in Pos /\ Append(p, b) # <<>>
      /\ Len(Append(p, b)) = Len(p) + 1 /\ Len(p) \in Nat
      /\ \A i \in 1..Len(p) : Append(p, b)[i] = p[i]
      /\ Append(p, b)[Len(p) + 1] = b
  BY DEF Pos
<1>2. Last(Append(p, b)) = b
  BY <1>1 DEF Last
<1>3. Front(Append(p, b)) = SubSeq(Append(p, b), 1, Len(p))
  BY <1>1 DEF Front
<1>4. SubSeq(Append(p, b), 1, Len(p)) = p
  BY AppendProperties DEF Pos
<1> QED BY <1>1, <1>2, <1>3, <1>4

LEMMA ChildrenDiffer ==
  ASSUME NEW p \in Pos, NEW q \in Pos, NEW b \in Bit, NEW c \in Bit, Append(p, b) = Append(q, c)
  PROVE  p = q /\ b = c
<1>1. Front(Append(p, b)) = p /\ Last(Append(p, b)) = b
  BY ChildIs
<1>2. Front(Append(q, c)) = q /\ Last(Append(q, c)) = c
  BY ChildIs
<1> QED BY <1>1, <1>2

LEMMA ParentIs ==
  ASSUME NEW p \in Pos, p # <<>>
  PROVE  /\ Front(p) \in Pos /\ Last(p) \in Bit /\ p = Append(Front(p), Last(p))
         /\ Len(p) \in Nat /\ Len(p) # 0 /\ Len(Front(p)) = Len(p) - 1
         /\ \A i \in 1..Len(p) - 1 : Front(p)[i] = p[i]
<1>0. Len(p) \in Nat /\ Len(p) # 0 /\ Last(p) \in Bit /\ p \in Seq(Bit)
  BY DEF Last, Pos
<1>1. /\ Front(p) \in Seq(Bit) /\ Len(Front(p)) = Len(p) - 1
      /\ \A i \in 1..Len(p) - 1 : Front(p)[i] = p[i]
  <2>1. Len(p) - 1 \in 0..Len(p) /\ 1 \in 1..(Len(p) - 1) + 1
    BY <1>0
  <2>2. /\ SubSeq(p, 1, Len(p) - 1) \in Seq(Bit)
        /\ Len(SubSeq(p, 1, Len(p) - 1)) = Len(p) - 1
        /\ \A i \in 1..Len(p) - 1 : SubSeq(p, 1, Len(p) - 1)[i] = p[i]
    BY <1>0
  <2> QED BY <2>2 DEF Front
<1>2. /\ Append(Front(p), Last(p)) \in Seq(Bit)
      /\ Len(Append(Front(p), Last(p))) = Len(p)
      /\ \A i \in 1..Len(p) : Append(Front(p), Last(p))[i] = p[i]
  <2>1. ASSUME NEW f \in Seq(Bit), NEW b \in Bit, Len(f) = Len(p) - 1, b = p[Len(p)],
               \A i \in 1..Len(p) - 1 : f[i] = p[i]
        PROVE  /\ Append(f, b) \in Seq(Bit)
               /\ Len(Append(f, b)) = Len(p)
               /\ \A i \in 1..Len(p) : Append(f, b)[i] = p[i]
    BY <1>0, <2>1
  <2> QED BY <2>1, <1>1, <1>0 DEF Last
<1>3. p = Append(Front(p), Last(p))
  BY <1>0, <1>2, SeqEqual
<1> QED BY <1>0, <1>1, <1>3 DEF Pos

(* Two positions with the same turns are one. *)
LEMMA SamePosition ==
  ASSUME NEW p \in Pos, NEW q \in Pos, Len(p) = Len(q), \A i \in 1..Len(p) : p[i] = q[i]
  PROVE  p = q
BY SeqEqual DEF Pos

-----------------------------------------------------------------------------
(* Trees. *)
LEMMA TreeIs ==
  ASSUME NEW t, TreeOK(t)
  PROVE  /\ Nodes(t) \subseteq Pos /\ IsFiniteSet(Nodes(t))
         /\ \A p \in DOMAIN t.split : p \in Pos /\ p \in Nodes(t) /\ p \notin DOMAIN t.leaf
         /\ \A p \in DOMAIN t.leaf : p \in Pos /\ p \in Nodes(t) /\ p \notin DOMAIN t.split
         /\ \A p \in DOMAIN t.split, b \in Bit : Append(p, b) \in Nodes(t)
         /\ \A p \in Nodes(t) : p # <<>> => Front(p) \in DOMAIN t.split /\ Last(p) \in Bit
                                            /\ p = Append(Front(p), Last(p))
<1>1. /\ Nodes(t) \subseteq Pos /\ IsFiniteSet(Nodes(t))
      /\ \A p \in DOMAIN t.split : p \in Pos /\ p \in Nodes(t) /\ p \notin DOMAIN t.leaf
      /\ \A p \in DOMAIN t.leaf : p \in Pos /\ p \in Nodes(t) /\ p \notin DOMAIN t.split
  BY DEF TreeOK, Nodes, Pos
<1>2. Nodes(t) \ {<<>>} = Children(DOMAIN t.split)
  BY DEF TreeOK
<1>3. \A p \in DOMAIN t.split, b \in Bit : Append(p, b) \in Nodes(t)
  <2> SUFFICES ASSUME NEW p \in DOMAIN t.split, NEW b \in Bit PROVE Append(p, b) \in Nodes(t) \ {<<>>}
    OBVIOUS
  <2>1. Append(p, b) \in Children(DOMAIN t.split)
    BY DEF Children
  <2> QED BY <1>2, <2>1
<1>4. ASSUME NEW p \in Nodes(t), p # <<>>
      PROVE  Front(p) \in DOMAIN t.split /\ Last(p) \in Bit /\ p = Append(Front(p), Last(p))
  <2>1. PICK q \in DOMAIN t.split, b \in Bit : p = Append(q, b)
    <3>1. p \in Children(DOMAIN t.split)
      BY <1>2, <1>4
    <3> QED BY <3>1 DEF Children
  <2>2. Front(p) = q /\ Last(p) = b
    BY <1>1, <2>1, ChildIs
  <2> QED BY <2>1, <2>2
<1> QED BY <1>1, <1>3, <1>4

(* Finitely many positions are of bounded length. *)
LEMMA LengthsAreBounded ==
  ASSUME NEW D \in SUBSET Pos, IsFiniteSet(D)
  PROVE  \E n \in Nat : \A p \in D : Len(p) <= n
<1> DEFINE Bounded(U) == \E n \in Nat : \A p \in U : Len(p) <= n
           C == {U \in SUBSET D : ~Bounded(U)}
           R == StrictSubsetOrdering(D)
<1> SUFFICES ASSUME C # {} PROVE FALSE
  OBVIOUS
<1>1. C \subseteq FiniteSubsetsOf(D)
  BY FS_Subset DEF FiniteSubsetsOf
<1>2. IsWellFoundedOn(R, FiniteSubsetsOf(D))
  BY FS_StrictSubsetOrderingWellFounded
<1>3. PICK x \in C : \A y \in C : ~(<<y, x>> \in R)
  <2> HIDE DEF C, R
  <2> QED BY <1>1, <1>2, WFMin
<1>4. x \subseteq D /\ ~Bounded(x)
  BY <1>3
<1>5. x # {}
  BY <1>4
<1>6. PICK e : e \in x
  BY <1>5
<1>7. <<x \ {e}, x>> \in R
  BY <1>4, <1>6 DEF StrictSubsetOrdering
<1>8. Bounded(x \ {e})
  BY <1>3, <1>4, <1>7
<1>9. PICK n \in Nat : \A p \in x \ {e} : Len(p) <= n
  BY <1>8
<1>10. Len(e) \in Nat /\ \A p \in x : Len(p) \in Nat
  <2>1. \A p \in D : Len(p) \in Nat
    BY DEF Pos
  <2> QED BY <1>4, <1>6, <2>1
<1>11. \A p \in x : Len(p) <= n + Len(e)
  <2> SUFFICES ASSUME NEW p \in x PROVE Len(p) <= n + Len(e)
    OBVIOUS
  <2>1. CASE p = e
    BY <1>10, <2>1
  <2>2. CASE p # e
    <3>1. Len(p) <= n
      BY <1>9, <2>2
    <3> QED BY <1>10, <3>1
  <2> QED BY <2>1, <2>2
<1>12. n + Len(e) \in Nat
  BY <1>10
<1> QED BY <1>4, <1>11, <1>12

(* What comes before what in a tree. *)
LEMMA PrefixOrder ==
  /\ \A p \in Pos : IsPrefix(p, p) /\ IsPrefix(<<>>, p) /\ (IsPrefix(p, <<>>) => p = <<>>)
  /\ \A p, q \in Pos : IsPrefix(p, q) /\ IsPrefix(q, p) => p = q
  /\ \A p, q, r \in Pos : IsPrefix(p, q) /\ IsPrefix(q, r) => IsPrefix(p, r)
  /\ \A p, q, r \in Pos : IsPrefix(p, r) /\ IsPrefix(q, r) /\ Len(p) <= Len(q) => IsPrefix(p, q)
  /\ \A p, q \in Pos : IsPrefix(p, q) => Len(p) <= Len(q)
<1>0. <<>> \in Pos /\ Len(<<>>) = 0 /\ \A p \in Pos : Len(p) \in Nat
  BY DEF Pos
<1>1. ASSUME NEW p \in Pos PROVE IsPrefix(p, p) /\ IsPrefix(<<>>, p) /\ (IsPrefix(p, <<>>) => p = <<>>)
  <2>1. Len(p) = 0 => p = <<>>
    BY DEF Pos
  <2> QED BY <1>0, <2>1, PrefixIs
<1>2. ASSUME NEW p \in Pos, NEW q \in Pos, IsPrefix(p, q), IsPrefix(q, p) PROVE p = q
  <2>1. Len(p) <= Len(q) /\ Len(q) <= Len(p) /\ \A i \in 1..Len(p) : p[i] = q[i]
    BY <1>2, PrefixIs
  <2> QED BY <1>0, <2>1, SamePosition
<1>3. ASSUME NEW p \in Pos, NEW q \in Pos, NEW r \in Pos, IsPrefix(p, q), IsPrefix(q, r) PROVE IsPrefix(p, r)
  <2>1. Len(p) <= Len(q) /\ Len(q) <= Len(r) /\ (\A i \in 1..Len(p) : p[i] = q[i]) /\ \A i \in 1..Len(q) : q[i] = r[i]
    BY <1>3, PrefixIs
  <2>2. Len(p) <= Len(r) /\ \A i \in 1..Len(p) : p[i] = r[i]
    BY <1>0, <2>1
  <2> QED BY <2>2, PrefixIs
<1>4. ASSUME NEW p \in Pos, NEW q \in Pos, NEW r \in Pos, IsPrefix(p, r), IsPrefix(q, r), Len(p) <= Len(q)
      PROVE  IsPrefix(p, q)
  <2>1. (\A i \in 1..Len(p) : p[i] = r[i]) /\ \A i \in 1..Len(q) : q[i] = r[i]
    BY <1>4, PrefixIs
  <2>2. \A i \in 1..Len(p) : p[i] = q[i]
    BY <1>0, <1>4, <2>1
  <2> QED BY <1>4, <2>2, PrefixIs
<1>5. \A p, q \in Pos : IsPrefix(p, q) => Len(p) <= Len(q)
  BY PrefixIs
<1> QED BY <1>1, <1>2, <1>3, <1>4, <1>5

LEMMA PrefixOfChild ==
  ASSUME NEW p \in Pos, NEW r \in Pos, NEW c \in Bit
  PROVE  /\ IsPrefix(r, Append(r, c))
         /\ IsPrefix(p, Append(r, c)) <=> p = Append(r, c) \/ IsPrefix(p, r)
         /\ IsPrefix(Append(r, c), p) => IsPrefix(r, p)
<1>0. /\ Append(r, c) \in Pos /\ Len(Append(r, c)) = Len(r) + 1 /\ Len(r) \in Nat /\ Len(p) \in Nat
      /\ \A i \in 1..Len(r) : Append(r, c)[i] = r[i]
  BY ChildIs DEF Pos
<1>1. IsPrefix(r, Append(r, c))
  <2>1. Len(r) <= Len(Append(r, c)) /\ \A i \in 1..Len(r) : r[i] = Append(r, c)[i]
    BY <1>0
  <2> QED BY <1>0, <2>1, PrefixIs
<1>2. IsPrefix(Append(r, c), p) => IsPrefix(r, p)
  BY <1>0, <1>1, PrefixOrder
<1>3. p = Append(r, c) \/ IsPrefix(p, r) => IsPrefix(p, Append(r, c))
  BY <1>0, <1>1, PrefixOrder
<1>4. ASSUME IsPrefix(p, Append(r, c)), p # Append(r, c) PROVE IsPrefix(p, r)
  <2>1. Len(p) <= Len(r) + 1 /\ \A i \in 1..Len(p) : p[i] = Append(r, c)[i]
    BY <1>0, <1>4, PrefixIs
  <2>2. Len(p) # Len(r) + 1
    BY <1>0, <1>4, <2>1, SamePosition
  <2>3. Len(p) <= Len(r) /\ \A i \in 1..Len(p) : p[i] = r[i]
    BY <1>0, <2>1, <2>2
  <2> QED BY <2>3, PrefixIs
<1> QED BY <1>1, <1>2, <1>3, <1>4

(* A position above a node of a tree is one of its splits. *)
LEMMA AboveIsSplit ==
  ASSUME NEW t, TreeOK(t), NEW r \in Nodes(t), NEW q \in Pos, IsPrefix(q, r), q # r
  PROVE  q \in DOMAIN t.split
<1> DEFINE S == {k \in Nat : \A v \in Nodes(t) : Len(v) = Len(q) + k + 1 /\ IsPrefix(q, v) => q \in DOMAIN t.split}
<1>0. \A v \in Nodes(t) : v \in Pos /\ Len(v) \in Nat /\ Len(q) \in Nat
  BY TreeIs DEF Pos
<1>a. ASSUME NEW v \in Nodes(t), NEW k \in Nat, Len(v) = Len(q) + k + 1, IsPrefix(q, v)
      PROVE  Front(v) \in DOMAIN t.split /\ Front(v) \in Pos /\ Len(Front(v)) = Len(q) + k /\ IsPrefix(q, Front(v))
  <2>1. v # <<>>
    BY <1>0, <1>a
  <2>2. Front(v) \in DOMAIN t.split /\ Last(v) \in Bit /\ v = Append(Front(v), Last(v))
    BY <2>1, TreeIs
  <2>3. Front(v) \in Pos /\ Len(Front(v)) = Len(v) - 1
    BY <1>0, <2>1, ParentIs
  <2>4. q # v
    BY <1>0, <1>a
  <2>5. IsPrefix(q, Front(v))
    <3>1. IsPrefix(q, Append(Front(v), Last(v))) <=> q = Append(Front(v), Last(v)) \/ IsPrefix(q, Front(v))
      BY <2>2, <2>3, PrefixOfChild
    <3> QED BY <1>a, <2>2, <2>4, <3>1
  <2> QED BY <1>0, <1>a, <2>2, <2>3, <2>5
<1>1. 0 \in S
  <2> SUFFICES ASSUME NEW v \in Nodes(t), Len(v) = Len(q) + 0 + 1, IsPrefix(q, v) PROVE q \in DOMAIN t.split
    OBVIOUS
  <2>1. Front(v) \in DOMAIN t.split /\ Front(v) \in Pos /\ Len(Front(v)) = Len(q) + 0 /\ IsPrefix(q, Front(v))
    BY <1>a
  <2>2. Len(Front(v)) = Len(q) /\ \A i \in 1..Len(q) : q[i] = Front(v)[i]
    BY <1>0, <2>1, PrefixIs
  <2> QED BY <2>1, <2>2, SamePosition
<1>2. ASSUME NEW k \in Nat, k \in S PROVE k + 1 \in S
  <2> SUFFICES ASSUME NEW v \in Nodes(t), Len(v) = Len(q) + (k + 1) + 1, IsPrefix(q, v) PROVE q \in DOMAIN t.split
    OBVIOUS
  <2>0. k + 1 \in Nat
    OBVIOUS
  <2>1. Front(v) \in DOMAIN t.split /\ Front(v) \in Pos /\ Len(Front(v)) = Len(q) + (k + 1) /\ IsPrefix(q, Front(v))
    BY <1>a, <2>0
  <2>2. Front(v) \in Nodes(t) /\ Len(Front(v)) = Len(q) + k + 1
    BY <1>0, <2>1, TreeIs
  <2> QED BY <1>2, <2>1, <2>2
<1>3. Nat \subseteq S
  <2> HIDE DEF S
  <2> QED BY <1>1, <1>2, InductionOnSet
<1>4. Len(q) # Len(r)
  <2>1. \A i \in 1..Len(q) : q[i] = r[i]
    BY <1>0, PrefixIs
  <2> QED BY <1>0, <2>1, SamePosition
<1>5. Len(r) - Len(q) - 1 \in Nat
  BY <1>0, <1>4, PrefixIs
<1>6. Len(r) = Len(q) + (Len(r) - Len(q) - 1) + 1
  BY <1>0
<1> QED BY <1>3, <1>5, <1>6

LEMMA RootIsNode ==
  ASSUME NEW t, TreeOK(t), Nodes(t) # {}
  PROVE  <<>> \in Nodes(t)
<1>1. PICK r \in Nodes(t) : TRUE
  OBVIOUS
<1>2. r \in Pos /\ <<>> \in Pos
  BY TreeIs DEF Pos
<1>3. IsPrefix(<<>>, r)
  BY <1>2, PrefixOrder
<1>4. CASE r = <<>>
  BY <1>4
<1>5. CASE r # <<>>
  <2>1. <<>> \in DOMAIN t.split
    BY <1>2, <1>3, <1>5, AboveIsSplit
  <2> QED BY <2>1, TreeIs
<1> QED BY <1>4, <1>5

-----------------------------------------------------------------------------
(* Moving nodes. *)
Onto(f, at) == {at[r] : r \in DOMAIN f \cap DOMAIN at}

LEMMA MovedIs ==
  ASSUME NEW f, NEW at, IsInjective(at)
  PROVE  /\ DOMAIN Moved(f, at) = Onto(f, at)
         /\ Moved(f, at) \in [Onto(f, at) -> Range(f)]
         /\ \A r \in DOMAIN f \cap DOMAIN at : at[r] \in Onto(f, at) /\ Moved(f, at)[at[r]] = f[r]
         /\ \A p \in Onto(f, at) : \E r \in DOMAIN f \cap DOMAIN at : p = at[r]
<1> DEFINE kept == DOMAIN f \cap DOMAIN at
           from(p) == CHOOSE r \in kept : at[r] = p
<1>0. Onto(f, at) = {at[r] : r \in kept}
  BY DEF Onto
<1>1. Moved(f, at) = [p \in Onto(f, at) |-> f[from(p)]]
  BY <1>0 DEF Moved
<1>2. \A r \in kept : at[r] \in Onto(f, at) /\ from(at[r]) = r
  BY <1>0 DEF IsInjective
<1>3. \A p \in Onto(f, at) : from(p) \in kept /\ at[from(p)] = p
  BY <1>0
<1>4. \A r \in kept : r \in DOMAIN f /\ f[r] \in Range(f)
  BY DEF Range
<1> HIDE DEF from, kept
<1>5. DOMAIN Moved(f, at) = Onto(f, at)
  BY <1>1
<1>6. \A r \in kept : Moved(f, at)[at[r]] = f[r]
  BY <1>1, <1>2
<1>7. Moved(f, at) \in [Onto(f, at) -> Range(f)]
  <2>1. \A p \in Onto(f, at) : f[from(p)] \in Range(f)
    BY <1>3, <1>4
  <2> QED BY <1>1, <2>1
<1> QED BY <1>2, <1>3, <1>5, <1>6, <1>7 DEF kept

(* One turn out of a position, and one into it. *)
LEMMA CutIs ==
  ASSUME NEW q \in Pos, NEW b \in Bit, NEW r \in Pos, IsPrefix(Append(q, b), r)
  PROVE  LET c == RemoveAt(r, Len(q) + 1) IN
         /\ c \in Pos /\ Len(c) = Len(r) - 1 /\ Len(q) \in Nat /\ Len(q) < Len(r) /\ Len(r) \in Nat
         /\ \A i \in 1..Len(q) : r[i] = q[i] /\ c[i] = q[i]
         /\ r[Len(q) + 1] = b
         /\ \A i \in 1..Len(r) - 1 : c[i] = IF i <= Len(q) THEN r[i] ELSE r[i + 1]
         /\ IsPrefix(q, c)
<1> DEFINE n == Len(q)
           c == RemoveAt(r, n + 1)
<1>1. /\ Append(q, b) \in Pos /\ Len(Append(q, b)) = n + 1 /\ n \in Nat
      /\ \A i \in 1..n : Append(q, b)[i] = q[i]
      /\ Append(q, b)[n + 1] = b
  BY ChildIs
<1>2. n + 1 <= Len(r) /\ Len(r) \in Nat /\ \A i \in 1..n + 1 : Append(q, b)[i] = r[i]
  <2>1. Len(Append(q, b)) <= Len(r) /\ \A i \in 1..Len(Append(q, b)) : Append(q, b)[i] = r[i]
    BY <1>1, PrefixIs
  <2> QED BY <1>1, <2>1 DEF Pos
<1>3. (\A i \in 1..n : r[i] = q[i]) /\ r[n + 1] = b
  BY <1>1, <1>2
<1>4. n + 1 \in 1..Len(r)
  BY <1>1, <1>2
<1>5. /\ c \in Seq(Bit) /\ Len(c) = Len(r) - 1
      /\ \A k \in 1..Len(r) - 1 : c[k] = IF k < n + 1 THEN r[k] ELSE r[k + 1]
  BY <1>4, RemoveAtElements DEF Pos
<1> HIDE DEF c, n
<1>6. \A i \in 1..Len(r) - 1 : c[i] = IF i <= n THEN r[i] ELSE r[i + 1]
  BY <1>1, <1>5
<1>7. \A i \in 1..n : r[i] = q[i] /\ c[i] = q[i]
  <2> SUFFICES ASSUME NEW i \in 1..n PROVE r[i] = q[i] /\ c[i] = q[i]
    OBVIOUS
  <2>1. i \in 1..Len(r) - 1 /\ i <= n
    BY <1>1, <1>2
  <2> QED BY <1>3, <1>6, <2>1
<1>8. c \in Pos /\ n <= Len(c) /\ n < Len(r)
  BY <1>1, <1>2, <1>5 DEF Pos
<1>9. IsPrefix(q, c)
  BY <1>7, <1>8, PrefixIs DEF n
<1> QED BY <1>1, <1>2, <1>3, <1>5, <1>6, <1>7, <1>8, <1>9 DEF c, n

CutFrom(q, b, r, c) ==
  /\ Len(c) = Len(r) - 1 /\ Len(q) < Len(r) /\ r[Len(q) + 1] = b
  /\ \A i \in 1..Len(q) : r[i] = q[i] /\ c[i] = q[i]
  /\ \A i \in 1..Len(r) - 1 : c[i] = IF i <= Len(q) THEN r[i] ELSE r[i + 1]

LEMMA CutElements ==
  ASSUME NEW q \in Pos, NEW b \in Bit, NEW r \in Pos, IsPrefix(Append(q, b), r),
         NEW c, c = RemoveAt(r, Len(q) + 1)
  PROVE  CutFrom(q, b, r, c)
<1>1. LET d == RemoveAt(r, Len(q) + 1) IN
         /\ d \in Pos /\ Len(d) = Len(r) - 1 /\ Len(q) \in Nat /\ Len(q) < Len(r) /\ Len(r) \in Nat
         /\ \A i \in 1..Len(q) : r[i] = q[i] /\ d[i] = q[i]
         /\ r[Len(q) + 1] = b
         /\ \A i \in 1..Len(r) - 1 : d[i] = IF i <= Len(q) THEN r[i] ELSE r[i + 1]
         /\ IsPrefix(q, d)
  BY CutIs
<1> QED BY <1>1 DEF CutFrom

LEMMA CutKeeps ==
  ASSUME NEW q \in Pos, NEW b \in Bit
  PROVE  /\ RemoveAt(Append(q, b), Len(q) + 1) = q
         /\ \A r, s \in Pos : /\ IsPrefix(Append(q, b), r) /\ IsPrefix(Append(q, b), s)
                              /\ RemoveAt(r, Len(q) + 1) = RemoveAt(s, Len(q) + 1)
                              => r = s
         /\ \A r \in Pos, c \in Bit : IsPrefix(Append(q, b), r) =>
              RemoveAt(Append(r, c), Len(q) + 1) = Append(RemoveAt(r, Len(q) + 1), c)
<1> DEFINE n == Len(q)
           cut(r) == RemoveAt(r, n + 1)
<1>0. Append(q, b) \in Pos /\ Len(Append(q, b)) = n + 1 /\ n \in Nat
  BY ChildIs
<1>1. cut(Append(q, b)) = q
  <2>1. IsPrefix(Append(q, b), Append(q, b))
    BY <1>0, PrefixOrder
  <2>2. /\ cut(Append(q, b)) \in Pos /\ Len(cut(Append(q, b))) = Len(Append(q, b)) - 1
        /\ \A i \in 1..Len(q) : cut(Append(q, b))[i] = q[i]
    <3> DEFINE y == Append(q, b)
    <3>1. y \in Pos /\ IsPrefix(Append(q, b), y)
      BY <1>0, <2>1
    <3> HIDE DEF y
    <3>2. cut(y) \in Pos /\ Len(cut(y)) = Len(y) - 1 /\ \A i \in 1..Len(q) : cut(y)[i] = q[i]
      BY <3>1, CutIs
    <3> QED BY <3>2 DEF y
  <2> HIDE DEF cut
  <2>3. cut(Append(q, b)) \in Pos /\ Len(cut(Append(q, b))) = Len(q)
        /\ \A i \in 1..Len(q) : cut(Append(q, b))[i] = q[i]
    BY <1>0, <2>2
  <2>4. cut(Append(q, b)) = q
    BY <2>3, SamePosition
  <2> QED BY <2>4
<1>2. ASSUME NEW r \in Pos, NEW s \in Pos, IsPrefix(Append(q, b), r), IsPrefix(Append(q, b), s), cut(r) = cut(s)
      PROVE  r = s
  <2>1. /\ Len(cut(r)) = Len(r) - 1 /\ n < Len(r) /\ Len(r) \in Nat
        /\ \A i \in 1..n : r[i] = q[i]
        /\ r[n + 1] = b
        /\ \A i \in 1..Len(r) - 1 : cut(r)[i] = IF i <= n THEN r[i] ELSE r[i + 1]
    BY <1>2, CutIs
  <2>2. /\ Len(cut(s)) = Len(s) - 1 /\ n < Len(s) /\ Len(s) \in Nat
        /\ \A i \in 1..n : s[i] = q[i]
        /\ s[n + 1] = b
        /\ \A i \in 1..Len(s) - 1 : cut(s)[i] = IF i <= n THEN s[i] ELSE s[i + 1]
    BY <1>2, CutIs
  <2>c. cut(r) = cut(s)
    BY <1>2
  <2> HIDE DEF cut, n
  <2>3. Len(r) = Len(s)
    BY <2>1, <2>2, <2>c
  <2>4. ASSUME NEW i \in 1..Len(r) PROVE r[i] = s[i]
    <3>1. CASE i <= n
      BY <3>1, <2>1, <2>2, <1>0
    <3>2. CASE i = n + 1
      BY <3>2, <2>1, <2>2
    <3>3. CASE i > n + 1
      <4>1. i - 1 \in 1..Len(r) - 1 /\ ~(i - 1 <= n) /\ (i - 1) + 1 = i /\ i - 1 \in 1..Len(s) - 1
        BY <3>3, <2>1, <2>3, <1>0
      <4>2. cut(r)[i - 1] = r[i] /\ cut(s)[i - 1] = s[i]
        BY <4>1, <2>1, <2>2
      <4> QED BY <4>2, <2>c
    <3> QED BY <3>1, <3>2, <3>3, <1>0, <2>1
  <2> QED BY <2>3, <2>4, SamePosition
<1>3. ASSUME NEW r \in Pos, NEW c \in Bit, IsPrefix(Append(q, b), r)
      PROVE  cut(Append(r, c)) = Append(cut(r), c)
  <2>0. /\ Append(r, c) \in Pos /\ Len(Append(r, c)) = Len(r) + 1 /\ Len(r) \in Nat
        /\ (\A i \in 1..Len(r) : Append(r, c)[i] = r[i]) /\ Append(r, c)[Len(r) + 1] = c
    BY ChildIs
  <2>1. /\ cut(r) \in Pos /\ Len(cut(r)) = Len(r) - 1 /\ n < Len(r)
        /\ \A i \in 1..Len(r) - 1 : cut(r)[i] = IF i <= n THEN r[i] ELSE r[i + 1]
    BY <1>3, CutIs
  <2>2. IsPrefix(Append(q, b), Append(r, c))
    BY <1>0, <1>3, PrefixOfChild
  <2>3. /\ cut(Append(r, c)) \in Pos /\ Len(cut(Append(r, c))) = Len(Append(r, c)) - 1
        /\ \A i \in 1..Len(Append(r, c)) - 1 :
             cut(Append(r, c))[i] = IF i <= n THEN Append(r, c)[i] ELSE Append(r, c)[i + 1]
    <3> DEFINE y == Append(r, c)
    <3>1. y \in Pos /\ IsPrefix(Append(q, b), y)
      BY <2>0, <2>2
    <3> HIDE DEF y
    <3>2. /\ cut(y) \in Pos /\ Len(cut(y)) = Len(y) - 1
          /\ \A i \in 1..Len(y) - 1 : cut(y)[i] = IF i <= n THEN y[i] ELSE y[i + 1]
      BY <3>1, CutIs
    <3> QED BY <3>2 DEF y
  <2>4. /\ Append(cut(r), c) \in Pos /\ Len(Append(cut(r), c)) = Len(cut(r)) + 1
        /\ (\A i \in 1..Len(cut(r)) : Append(cut(r), c)[i] = cut(r)[i])
        /\ Append(cut(r), c)[Len(cut(r)) + 1] = c
    BY <2>1, ChildIs
  <2> DEFINE u == cut(Append(r, c))
             v == Append(cut(r), c)
             w == cut(r)
             x == Append(r, c)
  <2>5. Len(u) = Len(r) /\ Len(v) = Len(r) /\ u \in Pos /\ v \in Pos
    BY <2>0, <2>1, <2>3, <2>4
  <2>6. ASSUME NEW i \in 1..Len(r) PROVE u[i] = v[i]
    <3>1. u[i] = IF i <= n THEN x[i] ELSE x[i + 1]
      BY <2>0, <2>3
    <3>2. (\A j \in 1..Len(r) : x[j] = r[j]) /\ x[Len(r) + 1] = c
      BY <2>0
    <3>3. (\A j \in 1..Len(r) - 1 : v[j] = w[j]) /\ v[Len(r)] = c
      BY <2>0, <2>1, <2>4
    <3>4. \A j \in 1..Len(r) - 1 : w[j] = IF j <= n THEN r[j] ELSE r[j + 1]
      BY <2>1
    <3>5. n < Len(r) /\ n \in Nat /\ Len(r) \in Nat
      BY <1>0, <2>0, <2>1
    <3> HIDE DEF u, v, w, x, n
    <3>6. CASE i = Len(r)
      BY <3>1, <3>2, <3>3, <3>5, <3>6
    <3>7. CASE i # Len(r)
      <4>1. i \in 1..Len(r) - 1 /\ i + 1 \in 1..Len(r)
        BY <3>5, <3>7
      <4> QED BY <3>1, <3>2, <3>3, <3>4, <4>1
    <3> QED BY <3>6, <3>7
  <2> HIDE DEF u, v
  <2>7. u = v
    BY <2>5, <2>6, SamePosition
  <2> QED BY <2>7 DEF u, v
<1> QED BY <1>1, <1>2, <1>3

LEMMA GrowIs ==
  ASSUME NEW q \in Pos, NEW b \in Bit, NEW r \in Pos, IsPrefix(q, r)
  PROVE  /\ InsertAt(r, Len(q) + 1, b) \in Pos
         /\ IsPrefix(Append(q, b), InsertAt(r, Len(q) + 1, b))
         /\ RemoveAt(InsertAt(r, Len(q) + 1, b), Len(q) + 1) = r
<1> DEFINE n == Len(q)
           g == InsertAt(r, n + 1, b)
<1>1. n <= Len(r) /\ Len(r) \in Nat /\ n \in Nat /\ \A i \in 1..n : q[i] = r[i]
  <2>1. Len(q) <= Len(r) /\ \A i \in 1..Len(q) : q[i] = r[i]
    BY PrefixIs
  <2> QED BY <2>1 DEF Pos
<1>2. n + 1 \in 1..(Len(r) + 1)
  BY <1>1
<1>3. /\ g \in Seq(Bit) /\ Len(g) = Len(r) + 1
      /\ \A k \in 1..(Len(r) + 1) : g[k] = IF k < n + 1 THEN r[k] ELSE IF k = n + 1 THEN b ELSE r[k - 1]
  <2>1. \A i \in 1..(Len(r) + 1) :
          /\ InsertAt(r, i, b) \in Seq(Bit) /\ Len(InsertAt(r, i, b)) = Len(r) + 1
          /\ \A k \in 1..(Len(r) + 1) :
               InsertAt(r, i, b)[k] = IF k < i THEN r[k] ELSE IF k = i THEN b ELSE r[k - 1]
    <3>1. r \in Seq(Bit)
      BY DEF Pos
    <3> SUFFICES ASSUME NEW i \in 1..(Len(r) + 1)
                 PROVE  /\ InsertAt(r, i, b) \in Seq(Bit) /\ Len(InsertAt(r, i, b)) = Len(r) + 1
                        /\ \A k \in 1..(Len(r) + 1) :
                             InsertAt(r, i, b)[k] = IF k < i THEN r[k] ELSE IF k = i THEN b ELSE r[k - 1]
      OBVIOUS
    <3>2. InsertAt(r, i, b) \in Seq(Bit) /\ Len(InsertAt(r, i, b)) = Len(r) + 1
      BY <3>1, InsertAtElements
    <3>3. \A k \in 1..(Len(r) + 1) : InsertAt(r, i, b)[k] = IF k < i THEN r[k] ELSE IF k = i THEN b ELSE r[k - 1]
      BY <3>1, InsertAtElements
    <3> QED BY <3>2, <3>3
  <2> QED BY <1>2, <2>1
<1> HIDE DEF g
<1>4. /\ Append(q, b) \in Pos /\ Len(Append(q, b)) = n + 1
      /\ \A i \in 1..n : Append(q, b)[i] = q[i]
      /\ Append(q, b)[n + 1] = b
  BY ChildIs
<1>5. g \in Pos
  BY <1>3 DEF Pos
<1>6. IsPrefix(Append(q, b), g)
  <2>1. ASSUME NEW i \in 1..n + 1 PROVE Append(q, b)[i] = g[i]
    <3>1. g[i] = IF i < n + 1 THEN r[i] ELSE IF i = n + 1 THEN b ELSE r[i - 1]
      BY <1>1, <1>3
    <3>2. CASE i = n + 1
      BY <1>4, <3>1, <3>2
    <3>3. CASE i # n + 1
      <4>1. i < n + 1 /\ i \in 1..n
        BY <1>1, <3>3
      <4> QED BY <1>1, <1>4, <3>1, <4>1
    <3> QED BY <3>2, <3>3
  <2>2. Len(Append(q, b)) <= Len(g) /\ \A i \in 1..Len(Append(q, b)) : Append(q, b)[i] = g[i]
    BY <1>1, <1>3, <1>4, <2>1
  <2> QED BY <1>4, <1>5, <2>2, PrefixIs
<1>7. /\ RemoveAt(g, n + 1) \in Pos /\ Len(RemoveAt(g, n + 1)) = Len(g) - 1
      /\ \A i \in 1..Len(g) - 1 : RemoveAt(g, n + 1)[i] = IF i <= n THEN g[i] ELSE g[i + 1]
  BY <1>5, <1>6, CutIs
<1>8. ASSUME NEW i \in 1..Len(r) PROVE RemoveAt(g, n + 1)[i] = r[i]
  <2>1. RemoveAt(g, n + 1)[i] = IF i <= n THEN g[i] ELSE g[i + 1]
    BY <1>1, <1>3, <1>7
  <2>2. CASE i <= n
    <3>1. i \in 1..(Len(r) + 1) /\ i < n + 1
      BY <1>1, <2>2
    <3> QED BY <1>3, <2>1, <2>2, <3>1
  <2>3. CASE ~(i <= n)
    <3>1. i + 1 \in 1..(Len(r) + 1) /\ ~(i + 1 < n + 1) /\ i + 1 # n + 1 /\ (i + 1) - 1 = i
      BY <1>1, <2>3
    <3> QED BY <1>3, <2>1, <2>3, <3>1
  <2> QED BY <2>2, <2>3
<1>9. Len(RemoveAt(g, n + 1)) = Len(r)
  BY <1>1, <1>3, <1>7
<1>10. RemoveAt(g, n + 1) = r
  BY <1>7, <1>8, <1>9, SamePosition
<1> QED BY <1>5, <1>6, <1>10 DEF g

LEMMA GrowKeeps ==
  ASSUME NEW q \in Pos, NEW b \in Bit
  PROVE  /\ InsertAt(q, Len(q) + 1, b) = Append(q, b)
         /\ \A r, s \in Pos : /\ IsPrefix(q, r) /\ IsPrefix(q, s)
                              /\ InsertAt(r, Len(q) + 1, b) = InsertAt(s, Len(q) + 1, b)
                              => r = s
         /\ \A r \in Pos, c \in Bit : IsPrefix(q, r) =>
              InsertAt(Append(r, c), Len(q) + 1, b) = Append(InsertAt(r, Len(q) + 1, b), c)
<1> DEFINE n == Len(q) + 1
<1>0. Append(q, b) \in Pos /\ IsPrefix(Append(q, b), Append(q, b)) /\ IsPrefix(q, q)
  BY ChildIs, PrefixOrder
<1>a. \A r \in Pos : IsPrefix(q, r) => /\ InsertAt(r, n, b) \in Pos
                                       /\ IsPrefix(Append(q, b), InsertAt(r, n, b))
                                       /\ RemoveAt(InsertAt(r, n, b), n) = r
  BY GrowIs
<1>b. /\ RemoveAt(Append(q, b), n) = q
      /\ \A r, s \in Pos : /\ IsPrefix(Append(q, b), r) /\ IsPrefix(Append(q, b), s)
                           /\ RemoveAt(r, n) = RemoveAt(s, n)
                           => r = s
      /\ \A r \in Pos, c \in Bit : IsPrefix(Append(q, b), r) =>
           RemoveAt(Append(r, c), n) = Append(RemoveAt(r, n), c)
  BY CutKeeps
<1> HIDE DEF n
<1>1. InsertAt(q, n, b) = Append(q, b)
  BY <1>0, <1>a, <1>b
<1>2. \A r, s \in Pos : IsPrefix(q, r) /\ IsPrefix(q, s) /\ InsertAt(r, n, b) = InsertAt(s, n, b) => r = s
  BY <1>a
<1>3. ASSUME NEW r \in Pos, NEW c \in Bit, IsPrefix(q, r)
      PROVE  InsertAt(Append(r, c), n, b) = Append(InsertAt(r, n, b), c)
  <2> DEFINE g == InsertAt(r, n, b)
  <2>1. g \in Pos /\ IsPrefix(Append(q, b), g) /\ RemoveAt(g, n) = r
    BY <1>a, <1>3
  <2> HIDE DEF g
  <2>2. Append(g, c) \in Pos /\ IsPrefix(Append(q, b), Append(g, c))
    BY <1>0, <2>1, ChildIs, PrefixOfChild
  <2>3. RemoveAt(Append(g, c), n) = Append(r, c)
    BY <1>b, <2>1
  <2>4. Append(r, c) \in Pos /\ IsPrefix(q, Append(r, c))
    BY <1>3, ChildIs, PrefixOfChild
  <2>5. InsertAt(Append(r, c), n, b) = Append(g, c)
    BY <1>a, <1>b, <2>2, <2>3, <2>4
  <2> QED BY <2>5 DEF g
<1> QED BY <1>1, <1>2, <1>3 DEF n

-----------------------------------------------------------------------------
(* Before is a strict total order.  Two positions part behind a number of  *)
(* turns they have in common.                                              *)
Parts(p, q, k) ==
  /\ k \in Nat /\ k <= Len(p) /\ k < Len(q) /\ \A j \in 1..k : p[j] = q[j]
  /\ k = Len(p) \/ p[k + 1] < q[k + 1]

LEMMA BeforeIs ==
  ASSUME NEW p \in Pos, NEW q \in Pos
  PROVE  Before(p, q) <=> \E k \in Nat : Parts(p, q, k)
<1>n. Len(p) \in Nat /\ Len(q) \in Nat
  BY DEF Pos
<1>0. Len(p) \in Nat /\ Len(q) \in Nat /\ DOMAIN p = 1..Len(p) /\ DOMAIN q = 1..Len(q)
  BY DEF Pos
<1>1. ASSUME p # q, IsPrefix(p, q) PROVE Parts(p, q, Len(p))
  <2>1. Len(p) <= Len(q) /\ \A i \in 1..Len(p) : p[i] = q[i]
    BY <1>1, PrefixIs
  <2>2. Len(p) # Len(q)
    BY <1>1, <2>1, SamePosition
  <2>3. Len(p) < Len(q)
    BY <1>n, <2>1, <2>2
  <2> QED BY <1>0, <2>1, <2>3 DEF Parts
<1>2. ASSUME NEW i \in DOMAIN p \cap DOMAIN q, p[i] < q[i], \A j \in 1..i - 1 : p[j] = q[j]
      PROVE  Parts(p, q, i - 1) /\ i - 1 \in Nat
  <2>1. i - 1 \in Nat /\ i - 1 <= Len(p) /\ i - 1 < Len(q) /\ (i - 1) + 1 = i
    BY <1>0
  <2> QED BY <1>2, <2>1 DEF Parts
<1>3. ASSUME NEW k \in Nat, Parts(p, q, k) PROVE Before(p, q)
  <2>1. k <= Len(p) /\ k < Len(q) /\ \A j \in 1..k : p[j] = q[j]
    BY <1>3 DEF Parts
  <2>2. CASE k = Len(p)
    <3>1. IsPrefix(p, q)
      BY <1>0, <2>1, <2>2, PrefixIs
    <3>2. p # q
      BY <2>1, <2>2, <1>0
    <3> QED BY <3>1, <3>2 DEF Before
  <2>3. CASE k # Len(p)
    <3>1. p[k + 1] < q[k + 1]
      BY <1>3, <2>3 DEF Parts
    <3>2. k + 1 \in DOMAIN p \cap DOMAIN q /\ (k + 1) - 1 = k
      <4>1. k + 1 \in 1..Len(p) /\ k + 1 \in 1..Len(q) /\ (k + 1) - 1 = k
        BY <1>n, <2>1, <2>3
      <4> QED BY <1>0, <4>1
    <3>3. \A j \in 1..(k + 1) - 1 : p[j] = q[j]
      BY <2>1, <3>2
    <3> QED BY <3>1, <3>2, <3>3 DEF Before
  <2> QED BY <2>2, <2>3
<1>4. ASSUME Before(p, q) PROVE \E k \in Nat : Parts(p, q, k)
  <2>1. CASE p # q /\ IsPrefix(p, q)
    BY <1>0, <1>1, <2>1
  <2>2. CASE \E i \in DOMAIN p \cap DOMAIN q : p[i] < q[i] /\ \A j \in 1..i - 1 : p[j] = q[j]
    BY <1>2, <2>2
  <2> QED BY <1>4, <2>1, <2>2 DEF Before
<1> QED BY <1>3, <1>4

LEMMA BeforeIsOrder ==
  /\ \A p \in Pos : ~Before(p, p)
  /\ \A p, q, r \in Pos : Before(p, q) /\ Before(q, r) => Before(p, r)
  /\ \A p, q \in Pos : p # q => Before(p, q) \/ Before(q, p)
  /\ \A p, q \in Pos : ~(Before(p, q) /\ Before(q, p))
<1>0. \A p \in Pos : Len(p) \in Nat /\ \A i \in 1..Len(p) : p[i] \in {0, 1}
  BY DEF Pos, Bit
<1>1. ASSUME NEW p \in Pos, Before(p, p) PROVE FALSE
  <2>1. PICK k \in Nat : Parts(p, p, k)
    BY <1>1, BeforeIs
  <2>2. k < Len(p) /\ p[k + 1] < p[k + 1] /\ k + 1 \in 1..Len(p)
    BY <1>0, <2>1 DEF Parts
  <2> QED BY <1>0, <2>2
<1>2. ASSUME NEW p \in Pos, NEW q \in Pos, NEW r \in Pos, Before(p, q), Before(q, r) PROVE Before(p, r)
  <2>1. PICK k \in Nat : Parts(p, q, k)
    BY <1>2, BeforeIs
  <2>2. PICK m \in Nat : Parts(q, r, m)
    BY <1>2, BeforeIs
  <2>3. /\ k <= Len(p) /\ k < Len(q) /\ (\A j \in 1..k : p[j] = q[j]) /\ (k = Len(p) \/ p[k + 1] < q[k + 1])
        /\ m <= Len(q) /\ m < Len(r) /\ (\A j \in 1..m : q[j] = r[j]) /\ (m = Len(q) \/ q[m + 1] < r[m + 1])
    BY <2>1, <2>2 DEF Parts
  <2>4. CASE k < m
    <3>1. \A j \in 1..k : p[j] = r[j]
      BY <2>3, <2>4
    <3>2. k < Len(r) /\ q[k + 1] = r[k + 1]
      BY <2>3, <2>4, <1>0
    <3>3. Parts(p, r, k)
      BY <2>3, <3>1, <3>2 DEF Parts
    <3> QED BY <3>3, BeforeIs
  <2>5. CASE m < k
    <3>1. \A j \in 1..m : p[j] = r[j]
      BY <2>3, <2>5
    <3>2. m <= Len(p) /\ m < Len(p) /\ m # Len(q) /\ q[m + 1] = p[m + 1]
      BY <2>3, <2>5, <1>0
    <3>3. Parts(p, r, m)
      BY <2>3, <3>1, <3>2 DEF Parts
    <3> QED BY <3>3, BeforeIs
  <2>6. CASE k = m
    <3>1. \A j \in 1..k : p[j] = r[j]
      BY <2>3, <2>6
    <3>2. k # Len(q) /\ q[k + 1] < r[k + 1] /\ k + 1 \in 1..Len(q) /\ k + 1 \in 1..Len(r)
      BY <2>3, <2>6, <1>0
    <3>3. k = Len(p) \/ p[k + 1] < r[k + 1]
      <4> SUFFICES ASSUME k # Len(p) PROVE p[k + 1] < r[k + 1]
        OBVIOUS
      <4>1. p[k + 1] < q[k + 1] /\ k + 1 \in 1..Len(p)
        BY <2>3, <1>0
      <4> QED BY <3>2, <4>1, <1>0
    <3>4. Parts(p, r, k)
      BY <2>3, <2>6, <3>1, <3>3 DEF Parts
    <3> QED BY <3>4, BeforeIs
  <2> QED BY <2>4, <2>5, <2>6
<1>3. ASSUME NEW p \in Pos, NEW q \in Pos, p # q PROVE Before(p, q) \/ Before(q, p)
  <2> DEFINE T == {i \in Nat : ~(i + 1 \in 1..Len(p) /\ i + 1 \in 1..Len(q) /\ p[i + 1] = q[i + 1])}
  <2>1. Len(p) \in T
    BY <1>0
  <2>2. PICK m \in T : \A k \in T : m <= k
    <3>1. T \subseteq Nat /\ T # {}
      BY <2>1
    <3> HIDE DEF T
    <3> QED BY <3>1, Smallest
  <2>3. \A j \in Nat : j < m => j + 1 \in 1..Len(p) /\ j + 1 \in 1..Len(q) /\ p[j + 1] = q[j + 1]
    BY <2>2
  <2>4. ASSUME NEW j \in 1..m PROVE p[j] = q[j] /\ j <= Len(p) /\ j <= Len(q)
    <3>1. j - 1 \in Nat /\ j - 1 < m /\ (j - 1) + 1 = j
      OBVIOUS
    <3> QED BY <1>0, <2>3, <3>1
  <2>5. m \in Nat /\ m <= Len(p) /\ m <= Len(q)
    <3>1. CASE m = 0
      BY <1>0, <3>1
    <3>2. CASE m # 0
      <4>1. m \in 1..m
        BY <3>2
      <4> QED BY <2>4, <4>1
    <3> QED BY <3>1, <3>2
  <2>6. ~(m + 1 \in 1..Len(p) /\ m + 1 \in 1..Len(q) /\ p[m + 1] = q[m + 1])
    BY <2>2
  <2>7. CASE m = Len(p) /\ m = Len(q)
    BY <1>3, <2>4, <2>7, SamePosition
  <2>8. CASE m = Len(p) /\ m # Len(q)
    <3>1. Parts(p, q, m)
      BY <1>0, <2>4, <2>5, <2>8 DEF Parts
    <3> QED BY <2>5, <3>1, BeforeIs
  <2>9. CASE m # Len(p) /\ m = Len(q)
    <3>1. Parts(q, p, m)
      BY <1>0, <2>4, <2>5, <2>9 DEF Parts
    <3> QED BY <2>5, <3>1, BeforeIs
  <2>10. CASE m # Len(p) /\ m # Len(q)
    <3>1. m + 1 \in 1..Len(p) /\ m + 1 \in 1..Len(q) /\ m < Len(p) /\ m < Len(q)
      BY <1>0, <2>5, <2>10
    <3>2. p[m + 1] \in {0, 1} /\ q[m + 1] \in {0, 1} /\ p[m + 1] # q[m + 1]
      BY <1>0, <2>6, <3>1
    <3>3. p[m + 1] < q[m + 1] \/ q[m + 1] < p[m + 1]
      BY <3>2
    <3>4. p[m + 1] < q[m + 1] => Parts(p, q, m)
      BY <2>4, <2>5, <3>1 DEF Parts
    <3>5. q[m + 1] < p[m + 1] => Parts(q, p, m)
      BY <2>4, <2>5, <3>1 DEF Parts
    <3> QED BY <2>5, <3>3, <3>4, <3>5, BeforeIs
  <2> QED BY <2>7, <2>8, <2>9, <2>10
<1>4. \A p, q \in Pos : ~(Before(p, q) /\ Before(q, p))
  BY <1>1, <1>2
<1> QED BY <1>1, <1>2, <1>3, <1>4

(* The image of a finite set. *)
LEMMA ImageIsFinite ==
  ASSUME NEW f, IsFiniteSet(DOMAIN f)
  PROVE  IsFiniteSet(Range(f))
<1> DEFINE g == [x \in DOMAIN f |-> f[x]]
<1>1. g \in Surjection(DOMAIN f, Range(f))
  BY DEF Surjection, Range
<1> QED BY <1>1, FS_Surjection

(* The nodes that at maps are moved without being torn apart. *)
Fits(t, at) ==
  /\ DOMAIN at \subseteq Nodes(t)
  /\ IsInjective(at)
  /\ \A r \in DOMAIN at : at[r] \in Pos
  /\ \A r \in DOMAIN at, c \in Bit : r \in DOMAIN t.split =>
       \E s \in DOMAIN at : at[s] = Append(at[r], c)
  /\ \A r \in DOMAIN at : at[r] # <<>> =>
       \E p \in DOMAIN at, c \in Bit : p \in DOMAIN t.split /\ at[r] = Append(at[p], c)

LEMMA RelocatedIs ==
  ASSUME NEW t, TreeOK(t), NEW at, IsInjective(at), NEW u, u = Relocated(t, at)
  PROVE  /\ u = [split |-> u.split, leaf |-> u.leaf]
         /\ DOMAIN u.split = Onto(t.split, at) /\ DOMAIN u.leaf = Onto(t.leaf, at)
         /\ u.split \in [DOMAIN u.split -> SplitType] /\ u.leaf \in [DOMAIN u.leaf -> Panes]
         /\ \A r \in DOMAIN at : r \in DOMAIN t.split => at[r] \in DOMAIN u.split /\ u.split[at[r]] = t.split[r]
         /\ \A r \in DOMAIN at : r \in DOMAIN t.leaf => at[r] \in DOMAIN u.leaf /\ u.leaf[at[r]] = t.leaf[r]
         /\ \A p \in DOMAIN u.split : \E r \in DOMAIN at : r \in DOMAIN t.split /\ p = at[r]
         /\ \A p \in DOMAIN u.leaf : \E r \in DOMAIN at : r \in DOMAIN t.leaf /\ p = at[r]
<1>1. u = [split |-> Moved(t.split, at), leaf |-> Moved(t.leaf, at)]
  BY DEF Relocated
<1>2. u.split = Moved(t.split, at) /\ u.leaf = Moved(t.leaf, at)
  BY <1>1
<1>3. /\ DOMAIN u.split = Onto(t.split, at)
      /\ u.split \in [Onto(t.split, at) -> Range(t.split)]
      /\ \A r \in DOMAIN t.split \cap DOMAIN at : at[r] \in Onto(t.split, at) /\ u.split[at[r]] = t.split[r]
      /\ \A p \in Onto(t.split, at) : \E r \in DOMAIN t.split \cap DOMAIN at : p = at[r]
  BY <1>2, MovedIs
<1>4. /\ DOMAIN u.leaf = Onto(t.leaf, at)
      /\ u.leaf \in [Onto(t.leaf, at) -> Range(t.leaf)]
      /\ \A r \in DOMAIN t.leaf \cap DOMAIN at : at[r] \in Onto(t.leaf, at) /\ u.leaf[at[r]] = t.leaf[r]
      /\ \A p \in Onto(t.leaf, at) : \E r \in DOMAIN t.leaf \cap DOMAIN at : p = at[r]
  BY <1>2, MovedIs
<1>5. Range(t.split) \subseteq SplitType /\ Range(t.leaf) \subseteq Panes
  <2>1. t.split \in [DOMAIN t.split -> SplitType] /\ t.leaf \in [DOMAIN t.leaf -> Panes]
    BY DEF TreeOK
  <2> QED BY <2>1 DEF Range
<1>6. u.split \in [DOMAIN u.split -> SplitType] /\ u.leaf \in [DOMAIN u.leaf -> Panes]
  BY <1>3, <1>4, <1>5
<1>7. u = [split |-> u.split, leaf |-> u.leaf]
  BY <1>1
<1> QED BY <1>3, <1>4, <1>6, <1>7

LEMMA ChildrenAre ==
  ASSUME NEW D, NEW N,
         \A v \in N : v # <<>> => \E p \in D, c \in Bit : v = Append(p, c),
         \A p \in D, c \in Bit : Append(p, c) \in N /\ Append(p, c) # <<>>
  PROVE  N \ {<<>>} = Children(D)
<1>1. \A v : v \in Children(D) <=> \E p \in D, c \in Bit : v = Append(p, c)
  BY DEF Children
<1>2. \A v \in Children(D) : v \in N /\ v # <<>>
  BY <1>1
<1>3. \A v \in N : v # <<>> => v \in Children(D)
  BY <1>1
<1> QED BY <1>2, <1>3

LEMMA RelocatedIsTree ==
  ASSUME NEW t, TreeOK(t), NEW at, Fits(t, at), NEW u, u = Relocated(t, at)
  PROVE  TreeOK(u) /\ Nodes(u) = Range(at)
<1>0. /\ \A r \in DOMAIN at : r \in Nodes(t) /\ r \in Pos /\ at[r] \in Pos
      /\ \A r, s \in DOMAIN at : at[r] = at[s] => r = s
  BY TreeIs DEF Fits, IsInjective
<1>1. /\ u = [split |-> u.split, leaf |-> u.leaf]
      /\ u.split \in [DOMAIN u.split -> SplitType] /\ u.leaf \in [DOMAIN u.leaf -> Panes]
      /\ \A r \in DOMAIN at : r \in DOMAIN t.split => at[r] \in DOMAIN u.split /\ u.split[at[r]] = t.split[r]
      /\ \A r \in DOMAIN at : r \in DOMAIN t.leaf => at[r] \in DOMAIN u.leaf /\ u.leaf[at[r]] = t.leaf[r]
      /\ \A p \in DOMAIN u.split : \E r \in DOMAIN at : r \in DOMAIN t.split /\ p = at[r]
      /\ \A p \in DOMAIN u.leaf : \E r \in DOMAIN at : r \in DOMAIN t.leaf /\ p = at[r]
  BY RelocatedIs DEF Fits
<1>2. Nodes(u) = Range(at)
  <2>1. \A p \in DOMAIN u.split \cup DOMAIN u.leaf : \E r \in DOMAIN at : p = at[r]
    BY <1>1
  <2>2. \A r \in DOMAIN at : at[r] \in DOMAIN u.split \cup DOMAIN u.leaf
    BY <1>0, <1>1 DEF Nodes
  <2> QED BY <2>1, <2>2 DEF Nodes, Range
<1>3. IsInjective(u.leaf)
  <2> SUFFICES ASSUME NEW v \in DOMAIN u.leaf, NEW w \in DOMAIN u.leaf, u.leaf[v] = u.leaf[w] PROVE v = w
    BY DEF IsInjective
  <2>1. PICK r \in DOMAIN at : r \in DOMAIN t.leaf /\ v = at[r]
    BY <1>1
  <2>2. PICK s \in DOMAIN at : s \in DOMAIN t.leaf /\ w = at[s]
    BY <1>1
  <2>3. t.leaf[r] = t.leaf[s]
    BY <1>1, <2>1, <2>2
  <2>4. r = s
    BY <2>1, <2>2, <2>3 DEF TreeOK, IsInjective
  <2> QED BY <2>1, <2>2, <2>4
<1>4. Nodes(u) \subseteq Seq(Bit) /\ IsFiniteSet(Nodes(u))
  <2>1. IsFiniteSet(DOMAIN at)
    BY FS_Subset, TreeIs DEF Fits
  <2>2. IsFiniteSet(Range(at))
    BY <2>1, ImageIsFinite
  <2>3. Range(at) \subseteq Pos
    BY <1>0 DEF Range
  <2> QED BY <1>2, <2>2, <2>3 DEF Pos
<1>5. DOMAIN u.split \cap DOMAIN u.leaf = {}
  <2> SUFFICES ASSUME NEW v \in DOMAIN u.split, v \in DOMAIN u.leaf PROVE FALSE
    OBVIOUS
  <2>1. PICK r \in DOMAIN at : r \in DOMAIN t.split /\ v = at[r]
    BY <1>1
  <2>2. PICK s \in DOMAIN at : s \in DOMAIN t.leaf /\ v = at[s]
    BY <1>1
  <2>3. r = s
    BY <1>0, <2>1, <2>2
  <2> QED BY <2>1, <2>2, <2>3, TreeIs
<1>6. Nodes(u) \ {<<>>} = Children(DOMAIN u.split)
  <2>1. ASSUME NEW v \in Nodes(u), v # <<>> PROVE \E p \in DOMAIN u.split, c \in Bit : v = Append(p, c)
    <3>1. PICK r \in DOMAIN at : v = at[r]
      BY <1>2 DEF Range
    <3>2. PICK p \in DOMAIN at, c \in Bit : p \in DOMAIN t.split /\ v = Append(at[p], c)
      BY <2>1, <3>1 DEF Fits
    <3>3. at[p] \in DOMAIN u.split
      BY <1>1, <3>2
    <3> QED BY <3>2, <3>3
  <2>2. ASSUME NEW p \in DOMAIN u.split, NEW c \in Bit PROVE Append(p, c) \in Nodes(u) /\ Append(p, c) # <<>>
    <3>1. PICK r \in DOMAIN at : r \in DOMAIN t.split /\ p = at[r]
      BY <1>1
    <3>2. PICK s \in DOMAIN at : at[s] = Append(at[r], c)
      BY <3>1 DEF Fits
    <3>3. Append(p, c) # <<>>
      BY <1>0, <3>1, ChildIs
    <3>4. Append(p, c) \in Range(at)
      BY <3>1, <3>2 DEF Range
    <3> QED BY <1>2, <3>3, <3>4
  <2> QED BY <2>1, <2>2, ChildrenAre
<1> QED BY <1>1, <1>2, <1>3, <1>4, <1>5, <1>6 DEF TreeOK, Pos

-----------------------------------------------------------------------------
(* Unsplitting. *)
CutMap(t, q, b) ==
  [r \in {r \in Nodes(t) : IsPrefix(q, r) => IsPrefix(Append(q, b), r)} |->
     IF IsPrefix(q, r) THEN RemoveAt(r, Len(q) + 1) ELSE r]

LEMMA CutMapIs ==
  ASSUME NEW t, TreeOK(t), NEW q \in DOMAIN t.split, NEW b \in Bit, NEW at, at = CutMap(t, q, b)
  PROVE  /\ DOMAIN at \subseteq Nodes(t) /\ q \notin DOMAIN at /\ q \in Pos
         /\ \A r \in DOMAIN at :
              /\ r \in Pos /\ at[r] \in Pos
              /\ ~IsPrefix(q, r) => at[r] = r
              /\ IsPrefix(q, r) => /\ IsPrefix(Append(q, b), r) /\ IsPrefix(q, at[r])
                                   /\ at[r] = RemoveAt(r, Len(q) + 1)
         /\ \A r \in Nodes(t) \ DOMAIN at : IsPrefix(q, r) /\ ~IsPrefix(Append(q, b), r)
<1>1. /\ DOMAIN at = {r \in Nodes(t) : IsPrefix(q, r) => IsPrefix(Append(q, b), r)}
      /\ \A r \in DOMAIN at : at[r] = IF IsPrefix(q, r) THEN RemoveAt(r, Len(q) + 1) ELSE r
  BY DEF CutMap
<1>2. q \in Pos /\ q \in Nodes(t) /\ \A r \in Nodes(t) : r \in Pos
  BY TreeIs
<1>3. Append(q, b) \in Pos /\ IsPrefix(q, q) /\ ~IsPrefix(Append(q, b), q)
  <2>1. Append(q, b) \in Pos /\ Len(Append(q, b)) = Len(q) + 1 /\ Len(q) \in Nat
    BY <1>2, ChildIs
  <2>2. ~(Len(Append(q, b)) <= Len(q))
    BY <2>1
  <2> QED BY <1>2, <2>1, <2>2, PrefixOrder
<1>4. q \notin DOMAIN at
  BY <1>1, <1>2, <1>3
<1>5. ASSUME NEW r \in DOMAIN at
      PROVE  /\ r \in Pos /\ at[r] \in Pos
             /\ ~IsPrefix(q, r) => at[r] = r
             /\ IsPrefix(q, r) => /\ IsPrefix(Append(q, b), r) /\ IsPrefix(q, at[r])
                                  /\ at[r] = RemoveAt(r, Len(q) + 1)
  <2>1. r \in Pos /\ (IsPrefix(q, r) => IsPrefix(Append(q, b), r))
    BY <1>1, <1>2
  <2>2. CASE IsPrefix(q, r)
    <3>1. at[r] = RemoveAt(r, Len(q) + 1) /\ IsPrefix(Append(q, b), r)
      BY <1>1, <2>1, <2>2
    <3>2. RemoveAt(r, Len(q) + 1) \in Pos /\ IsPrefix(q, RemoveAt(r, Len(q) + 1))
      BY <1>2, <2>1, <3>1, CutIs
    <3> QED BY <2>1, <2>2, <3>1, <3>2
  <2>3. CASE ~IsPrefix(q, r)
    BY <1>1, <2>1, <2>3
  <2> QED BY <2>2, <2>3
<1>6. \A r \in Nodes(t) \ DOMAIN at : IsPrefix(q, r) /\ ~IsPrefix(Append(q, b), r)
  BY <1>1
<1> QED BY <1>1, <1>2, <1>4, <1>5, <1>6

CutFits(t, q, b, at) ==
  /\ Append(q, b) \in DOMAIN at /\ at[Append(q, b)] = q
  /\ \A r, s \in DOMAIN at : at[r] = at[s] => r = s
  /\ \A r \in DOMAIN at, c \in Bit : r \in DOMAIN t.split =>
       /\ Append(r, c) = q => at[Append(q, b)] = Append(at[r], c)
       /\ Append(r, c) # q => Append(r, c) \in DOMAIN at /\ at[Append(r, c)] = Append(at[r], c)
  /\ \A r \in DOMAIN at : at[r] # <<>> =>
       \E p \in DOMAIN at, c \in Bit : p \in DOMAIN t.split /\ at[r] = Append(at[p], c)

LEMMA CutMapFits ==
  ASSUME NEW t, TreeOK(t), NEW q \in DOMAIN t.split, NEW b \in Bit, NEW at, at = CutMap(t, q, b)
  PROVE  CutFits(t, q, b, at)
<1>1. /\ DOMAIN at \subseteq Nodes(t) /\ q \notin DOMAIN at /\ q \in Pos
      /\ \A r \in DOMAIN at :
           /\ r \in Pos /\ at[r] \in Pos
           /\ ~IsPrefix(q, r) => at[r] = r
           /\ IsPrefix(q, r) => /\ IsPrefix(Append(q, b), r) /\ IsPrefix(q, at[r])
                                /\ at[r] = RemoveAt(r, Len(q) + 1)
      /\ \A r \in Nodes(t) \ DOMAIN at : IsPrefix(q, r) /\ ~IsPrefix(Append(q, b), r)
  BY CutMapIs
<1>c. /\ RemoveAt(Append(q, b), Len(q) + 1) = q
      /\ \A r, s \in Pos : /\ IsPrefix(Append(q, b), r) /\ IsPrefix(Append(q, b), s)
                           /\ RemoveAt(r, Len(q) + 1) = RemoveAt(s, Len(q) + 1)
                           => r = s
      /\ \A r \in Pos, c \in Bit : IsPrefix(Append(q, b), r) =>
           RemoveAt(Append(r, c), Len(q) + 1) = Append(RemoveAt(r, Len(q) + 1), c)
  BY <1>1, CutKeeps
<1>d. /\ Append(q, b) \in Pos /\ Append(q, b) \in Nodes(t)
      /\ IsPrefix(Append(q, b), Append(q, b)) /\ IsPrefix(q, Append(q, b)) /\ IsPrefix(q, q)
  <2>1. Append(q, b) \in Pos
    BY <1>1, ChildIs
  <2>2. Append(q, b) \in Nodes(t)
    BY TreeIs
  <2>3. IsPrefix(q, Append(q, b))
    BY <1>1, PrefixOfChild
  <2> QED BY <1>1, <2>1, <2>2, <2>3, PrefixOrder
<1>2. Append(q, b) \in DOMAIN at /\ at[Append(q, b)] = q
  BY <1>1, <1>c, <1>d
<1>3. ASSUME NEW r \in DOMAIN at, NEW s \in DOMAIN at, at[r] = at[s] PROVE r = s
  BY <1>1, <1>c, <1>3
<1>4. ASSUME NEW r \in DOMAIN at \cap DOMAIN t.split, NEW c \in Bit
      PROVE  /\ Append(r, c) = q => at[Append(q, b)] = Append(at[r], c)
             /\ Append(r, c) # q => Append(r, c) \in DOMAIN at /\ at[Append(r, c)] = Append(at[r], c)
  <2>1. Append(r, c) \in Nodes(t) /\ Append(r, c) \in Pos /\ r \in Pos
    BY <1>1, TreeIs, ChildIs
  <2>2. IsPrefix(q, Append(r, c)) <=> q = Append(r, c) \/ IsPrefix(q, r)
    BY <1>1, <2>1, PrefixOfChild
  <2>3. CASE IsPrefix(q, r)
    <3>1. IsPrefix(Append(q, b), r) /\ at[r] = RemoveAt(r, Len(q) + 1)
      BY <1>1, <2>3
    <3>2. IsPrefix(Append(q, b), Append(r, c))
      BY <1>d, <2>1, <3>1, PrefixOfChild
    <3>3. IsPrefix(q, Append(r, c))
      BY <2>2, <2>3
    <3>4. Append(r, c) \in DOMAIN at
      BY <1>1, <2>1, <3>2
    <3>5. at[Append(r, c)] = RemoveAt(Append(r, c), Len(q) + 1)
      BY <1>1, <3>3, <3>4
    <3>6. at[Append(r, c)] = Append(at[r], c)
      BY <1>c, <2>1, <3>1, <3>5
    <3> QED BY <1>1, <3>4, <3>6
  <2>4. CASE ~IsPrefix(q, r)
    <3>1. at[r] = r
      BY <1>1, <2>4
    <3>2. CASE Append(r, c) = q
      BY <1>2, <3>1, <3>2
    <3>3. CASE Append(r, c) # q
      <4>1. ~IsPrefix(q, Append(r, c))
        BY <2>2, <2>4, <3>3
      <4>2. Append(r, c) \in DOMAIN at
        BY <1>1, <2>1, <4>1
      <4>3. at[Append(r, c)] = Append(r, c)
        BY <1>1, <4>1, <4>2
      <4> QED BY <3>1, <3>3, <4>2, <4>3
    <3> QED BY <3>2, <3>3
  <2> QED BY <2>3, <2>4
<1>5. ASSUME NEW r \in DOMAIN at, at[r] # <<>>
      PROVE  \E p \in DOMAIN at, c \in Bit : p \in DOMAIN t.split /\ at[r] = Append(at[p], c)
  <2>1. r \in Nodes(t) /\ r \in Pos /\ <<>> \in Pos
    BY <1>1 DEF Pos
  <2>2. r # <<>>
    <3> SUFFICES ASSUME r = <<>> PROVE FALSE
      OBVIOUS
    <3>1. IsPrefix(q, r)
      BY <1>1, <1>5
    <3>2. q = <<>>
      BY <1>1, <3>1, PrefixOrder
    <3> QED BY <1>1, <3>2
  <2>3. Front(r) \in DOMAIN t.split /\ Last(r) \in Bit /\ r = Append(Front(r), Last(r))
    BY <2>1, <2>2, TreeIs
  <2>4. CASE Front(r) \in DOMAIN at
    <3>1. Append(Front(r), Last(r)) # q
      BY <1>1, <2>3
    <3>2. at[r] = Append(at[Front(r)], Last(r))
      BY <1>4, <2>3, <2>4, <3>1
    <3> QED BY <2>3, <2>4, <3>2
  <2>5. CASE Front(r) \notin DOMAIN at
    <3>1. Front(r) \in Nodes(t) /\ Front(r) \in Pos
      BY <2>3, TreeIs
    <3>2. IsPrefix(q, Front(r)) /\ ~IsPrefix(Append(q, b), Front(r))
      BY <1>1, <2>5, <3>1
    <3>3. IsPrefix(Append(q, b), r) => Append(q, b) = r \/ IsPrefix(Append(q, b), Front(r))
      <4>1. ASSUME NEW f \in Pos, NEW c \in Bit, NEW v \in Pos, IsPrefix(v, Append(f, c))
            PROVE  v = Append(f, c) \/ IsPrefix(v, f)
        BY <4>1, PrefixOfChild
      <4> HIDE <1>1, <1>2
      <4> QED BY <1>d, <2>3, <3>1, <4>1
    <3>4. IsPrefix(q, r)
      <4>1. ASSUME NEW f \in Pos, NEW c \in Bit, IsPrefix(q, f) PROVE IsPrefix(q, Append(f, c))
        BY <1>1, <4>1, PrefixOfChild
      <4> QED BY <2>3, <3>1, <3>2, <4>1
    <3>5. r = Append(q, b)
      BY <1>1, <2>3, <3>2, <3>3, <3>4
    <3>6. at[r] = q /\ q # <<>>
      BY <1>2, <1>5, <3>5
    <3>7. q \in Nodes(t)
      BY TreeIs
    <3>8. Front(q) \in DOMAIN t.split /\ Last(q) \in Bit /\ q = Append(Front(q), Last(q))
      BY <3>6, <3>7, TreeIs
    <3>9. ~IsPrefix(q, Front(q))
      <4>1. Len(Front(q)) = Len(q) - 1 /\ Front(q) \in Pos /\ Len(q) \in Nat
        BY <1>1, <3>6, ParentIs
      <4>2. ~(Len(q) <= Len(Front(q)))
        BY <4>1
      <4> QED BY <1>1, <4>1, <4>2, PrefixOrder
    <3>10. Front(q) \in DOMAIN at
      BY <1>1, <3>8, <3>9, TreeIs
    <3>11. at[Front(q)] = Front(q)
      BY <1>1, <3>9, <3>10
    <3> QED BY <3>6, <3>8, <3>10, <3>11
  <2> QED BY <2>4, <2>5
<1> QED BY <1>2, <1>3, <1>4, <1>5 DEF CutFits

LEMMA CutMapKeeps ==
  ASSUME NEW t, TreeOK(t), NEW q \in DOMAIN t.split, NEW b \in Bit, NEW at, at = CutMap(t, q, b)
  PROVE  Fits(t, at)
<1>1. DOMAIN at \subseteq Nodes(t) /\ \A r \in DOMAIN at : at[r] \in Pos
  BY CutMapIs
<1>2. CutFits(t, q, b, at)
  BY CutMapFits
<1>3. ASSUME NEW r \in DOMAIN at, NEW c \in Bit, r \in DOMAIN t.split
      PROVE  \E s \in DOMAIN at : at[s] = Append(at[r], c)
  <2>1. CASE Append(r, c) = q
    BY <1>2, <1>3, <2>1 DEF CutFits
  <2>2. CASE Append(r, c) # q
    BY <1>2, <1>3, <2>2 DEF CutFits
  <2> QED BY <2>1, <2>2
<1>4. /\ IsInjective(at)
      /\ \A r \in DOMAIN at : at[r] # <<>> =>
           \E p \in DOMAIN at, c \in Bit : p \in DOMAIN t.split /\ at[r] = Append(at[p], c)
  BY <1>2 DEF CutFits, IsInjective
<1> QED BY <1>1, <1>3, <1>4 DEF Fits

LEMMA UnsplitIsTree ==
  ASSUME NEW t, TreeOK(t), NEW q \in DOMAIN t.split, NEW b \in Bit, NEW at, at = CutMap(t, q, b)
  PROVE  /\ Unsplit(t, q, b) = Relocated(t, at) /\ Fits(t, at)
         /\ TreeOK(Unsplit(t, q, b)) /\ Nodes(Unsplit(t, q, b)) = Range(at)
<1>1. Unsplit(t, q, b) = Relocated(t, at)
  BY DEF Unsplit, CutMap
<1>2. Fits(t, at)
  BY CutMapKeeps
<1> QED BY <1>1, <1>2, RelocatedIsTree

LEMMA WithIs ==
  ASSUME NEW f, NEW p, NEW v
  PROVE  /\ DOMAIN With(f, p, v) = DOMAIN f \cup {p}
         /\ With(f, p, v)[p] = v
         /\ \A r \in DOMAIN f : r # p => With(f, p, v)[r] = f[r]
BY DEF With

GrowMap(t, q, c) ==
  [r \in Nodes(t) |-> IF IsPrefix(q, r) THEN InsertAt(r, Len(q) + 1, c) ELSE r]

GrowFits(t, q, c, at) ==
  /\ DOMAIN at = Nodes(t) /\ q \in Pos
  /\ \A r \in Nodes(t) : r \in Pos /\ at[r] \in Pos
  /\ IsInjective(at)
  /\ at[q] = Append(q, c)
  /\ \A r \in Nodes(t) : IsPrefix(q, r) => IsPrefix(Append(q, c), at[r])
  /\ \A r \in Nodes(t) : ~IsPrefix(q, r) => at[r] = r
  /\ \A r \in Nodes(t), d \in Bit : r \in DOMAIN t.split /\ Append(r, d) # q =>
       at[Append(r, d)] = Append(at[r], d)
  /\ \A r \in Nodes(t) : at[r] # q /\ at[r] # Append(q, 1 - c)

LEMMA GrowMapFits ==
  ASSUME NEW t, TreeOK(t), NEW q \in Nodes(t), NEW c \in Bit, NEW at, at = GrowMap(t, q, c)
  PROVE  GrowFits(t, q, c, at)
<1>1. /\ DOMAIN at = Nodes(t) /\ q \in Pos /\ Append(q, c) \in Pos
      /\ \A r \in Nodes(t) : r \in Pos /\ at[r] = IF IsPrefix(q, r) THEN InsertAt(r, Len(q) + 1, c) ELSE r
  BY TreeIs, ChildIs DEF GrowMap
<1>2. \A r \in Nodes(t) : IsPrefix(q, r) =>
        /\ at[r] = InsertAt(r, Len(q) + 1, c) /\ at[r] \in Pos
        /\ IsPrefix(Append(q, c), at[r])
  BY <1>1, GrowIs
<1>3. \A r \in Nodes(t) : ~IsPrefix(q, r) => at[r] = r
  BY <1>1
<1>4. \A r \in Nodes(t) : r \in Pos /\ at[r] \in Pos
  BY <1>1, <1>2, <1>3
<1>5. \A v \in Pos : IsPrefix(Append(q, c), v) => IsPrefix(q, v)
  BY <1>1, PrefixOfChild
<1>6. IsInjective(at)
  <2> SUFFICES ASSUME NEW r \in Nodes(t), NEW s \in Nodes(t), at[r] = at[s] PROVE r = s
    BY <1>1 DEF IsInjective
  <2>1. \A v, w \in Pos : /\ IsPrefix(q, v) /\ IsPrefix(q, w)
                          /\ InsertAt(v, Len(q) + 1, c) = InsertAt(w, Len(q) + 1, c)
                          => v = w
    BY <1>1, GrowKeeps
  <2>2. CASE IsPrefix(q, r) /\ IsPrefix(q, s)
    BY <1>1, <1>2, <2>1, <2>2
  <2>3. CASE ~(IsPrefix(q, r) /\ IsPrefix(q, s))
    BY <1>2, <1>3, <1>4, <1>5, <2>3
  <2> QED BY <2>2, <2>3
<1>7. at[q] = Append(q, c)
  <2>1. IsPrefix(q, q) /\ InsertAt(q, Len(q) + 1, c) = Append(q, c)
    BY <1>1, PrefixOrder, GrowKeeps
  <2> QED BY <1>1, <2>1
<1>8. ASSUME NEW r \in Nodes(t), NEW d \in Bit, r \in DOMAIN t.split, Append(r, d) # q
      PROVE  at[Append(r, d)] = Append(at[r], d)
  <2> DEFINE w == Append(r, d)
  <2>1. w \in Nodes(t) /\ w # q
    BY <1>8, TreeIs
  <2>2. IsPrefix(q, w) <=> IsPrefix(q, r)
    BY <1>1, <1>8, PrefixOfChild
  <2>3. CASE IsPrefix(q, r)
    <3>1. InsertAt(w, Len(q) + 1, c) = Append(InsertAt(r, Len(q) + 1, c), d)
      BY <1>1, <2>3, GrowKeeps
    <3> HIDE DEF w
    <3>2. at[w] = InsertAt(w, Len(q) + 1, c) /\ at[r] = InsertAt(r, Len(q) + 1, c)
      BY <1>2, <2>1, <2>2, <2>3
    <3> QED BY <3>1, <3>2 DEF w
  <2>4. CASE ~IsPrefix(q, r)
    <3> HIDE DEF w
    <3>1. at[w] = w /\ at[r] = r
      BY <1>3, <2>1, <2>2, <2>4
    <3> QED BY <3>1 DEF w
  <2> QED BY <2>3, <2>4
<1>9. ASSUME NEW r \in Nodes(t) PROVE at[r] # q /\ at[r] # Append(q, 1 - c)
  <2> DEFINE w == Append(q, 1 - c)
  <2>0. 1 - c \in Bit /\ 1 - c # c
    BY DEF Bit
  <2>1. w \in Pos /\ IsPrefix(q, w) /\ IsPrefix(q, q)
    BY <1>1, <2>0, ChildIs, PrefixOfChild, PrefixOrder
  <2>2. ~IsPrefix(Append(q, c), q)
    <3>1. Len(Append(q, c)) = Len(q) + 1 /\ Len(q) \in Nat
      BY <1>1, ChildIs
    <3>2. IsPrefix(Append(q, c), q) => Len(Append(q, c)) <= Len(q)
      BY <1>1, PrefixOrder
    <3> QED BY <3>1, <3>2
  <2>3. ~IsPrefix(Append(q, c), w)
    <3>1. IsPrefix(Append(q, c), Append(q, 1 - c)) => Append(q, c) = Append(q, 1 - c) \/ IsPrefix(Append(q, c), q)
      BY <1>1, <2>0, PrefixOfChild
    <3>2. Append(q, c) # Append(q, 1 - c)
      BY <1>1, <2>0, ChildrenDiffer
    <3> QED BY <2>2, <3>1, <3>2
  <2> HIDE DEF w
  <2>4. at[r] # q /\ at[r] # w
    BY <1>1, <1>2, <1>3, <2>1, <2>2, <2>3
  <2> QED BY <2>4 DEF w
<1> QED BY <1>1, <1>2, <1>3, <1>4, <1>6, <1>7, <1>8, <1>9 DEF GrowFits

LEMMA InsertedIs ==
  ASSUME NEW t, TreeOK(t), NEW q \in Nodes(t), NEW b \in Bit, NEW pane, NEW info,
         NEW at, at = GrowMap(t, q, 1 - b), NEW u, u = Relocated(t, at),
         NEW v, v = Inserted(t, q, b, pane, info)
  PROVE  v = [split |-> With(u.split, q, info), leaf |-> With(u.leaf, Append(q, b), pane)]
<1>1. u = Deeper(t, q, 1 - b)
  BY DEF Deeper, GrowMap
<1> QED BY <1>1 DEF Inserted

LEMMA InsertedIsTree ==
  ASSUME NEW t, TreeOK(t), NEW q \in Nodes(t), NEW b \in Bit,
         NEW pane \in Panes \ PaneSet(t), NEW info \in SplitType,
         NEW v, v = Inserted(t, q, b, pane, info)
  PROVE  TreeOK(v) /\ Nodes(v) # {}
<1> DEFINE c == 1 - b
           at == GrowMap(t, q, c)
           u == Relocated(t, at)
           new == Append(q, b)
<1>0. c \in Bit /\ 1 - c = b
  BY DEF Bit
<1>1. GrowFits(t, q, c, at)
  BY <1>0, GrowMapFits
<1>2. v = [split |-> With(u.split, q, info), leaf |-> With(u.leaf, new, pane)]
  BY InsertedIs
<1>3. v.split = With(u.split, q, info) /\ v.leaf = With(u.leaf, new, pane)
      /\ v = [split |-> v.split, leaf |-> v.leaf]
  BY <1>2
<1>4. IsInjective(at)
  BY <1>1 DEF GrowFits
<1>n. new = Append(q, b)
  OBVIOUS
<1>h. u = Relocated(t, at)
  OBVIOUS
<1> HIDE DEF at, u, c, new
<1>5. /\ u.split \in [DOMAIN u.split -> SplitType] /\ u.leaf \in [DOMAIN u.leaf -> Panes]
      /\ \A r \in DOMAIN at : r \in DOMAIN t.split => at[r] \in DOMAIN u.split /\ u.split[at[r]] = t.split[r]
      /\ \A r \in DOMAIN at : r \in DOMAIN t.leaf => at[r] \in DOMAIN u.leaf /\ u.leaf[at[r]] = t.leaf[r]
      /\ \A p \in DOMAIN u.split : \E r \in DOMAIN at : r \in DOMAIN t.split /\ p = at[r]
      /\ \A p \in DOMAIN u.leaf : \E r \in DOMAIN at : r \in DOMAIN t.leaf /\ p = at[r]
  BY <1>4, <1>h, RelocatedIs
<1>6. /\ DOMAIN v.split = DOMAIN u.split \cup {q} /\ v.split[q] = info
      /\ \A r \in DOMAIN u.split : r # q => v.split[r] = u.split[r]
      /\ DOMAIN v.leaf = DOMAIN u.leaf \cup {new} /\ v.leaf[new] = pane
      /\ \A r \in DOMAIN u.leaf : r # new => v.leaf[r] = u.leaf[r]
  <2>a. /\ v.split = [r \in DOMAIN u.split \cup {q} |-> IF r = q THEN info ELSE u.split[r]]
        /\ v.leaf = [r \in DOMAIN u.leaf \cup {new} |-> IF r = new THEN pane ELSE u.leaf[r]]
    BY <1>3 DEF With
  <2>1. /\ DOMAIN v.split = DOMAIN u.split \cup {q} /\ v.split[q] = info
        /\ \A r \in DOMAIN u.split : r # q => v.split[r] = u.split[r]
    BY <2>a
  <2>2. /\ DOMAIN v.leaf = DOMAIN u.leaf \cup {new} /\ v.leaf[new] = pane
        /\ \A r \in DOMAIN u.leaf : r # new => v.leaf[r] = u.leaf[r]
    BY <2>a
  <2> QED BY <2>1, <2>2
<1>7. /\ DOMAIN at = Nodes(t) /\ q \in Pos /\ \A r \in Nodes(t) : r \in Pos /\ at[r] \in Pos
      /\ \A r, s \in Nodes(t) : at[r] = at[s] => r = s
      /\ at[q] = Append(q, c)
      /\ \A r \in Nodes(t) : at[r] # q /\ at[r] # new
      /\ \A r \in Nodes(t) : ~IsPrefix(q, r) => at[r] = r
      /\ \A r \in Nodes(t), d \in Bit : r \in DOMAIN t.split /\ Append(r, d) # q =>
           at[Append(r, d)] = Append(at[r], d)
  BY <1>0, <1>1, <1>n DEF GrowFits, IsInjective
<1>8. /\ v.split \in [DOMAIN v.split -> SplitType] /\ v.leaf \in [DOMAIN v.leaf -> Panes]
  <2>1. v.split = [r \in DOMAIN u.split \cup {q} |-> IF r = q THEN info ELSE u.split[r]]
    BY <1>3 DEF With
  <2>2. v.leaf = [r \in DOMAIN u.leaf \cup {new} |-> IF r = new THEN pane ELSE u.leaf[r]]
    BY <1>3 DEF With
  <2>3. v.split \in [DOMAIN v.split -> SplitType]
    BY <1>5, <1>6, <2>1
  <2>4. v.leaf \in [DOMAIN v.leaf -> Panes]
    BY <1>5, <1>6, <2>2
  <2> QED BY <2>3, <2>4
<1>9. /\ \A r \in Nodes(t) : at[r] \in Nodes(v)
      /\ q \in Nodes(v) /\ new \in Nodes(v)
      /\ \A w \in Nodes(v) : w = q \/ w = new \/ \E r \in Nodes(t) : w = at[r]
  BY <1>5, <1>6, <1>7 DEF Nodes
<1>10. IsInjective(v.leaf)
  <2>1. \A r \in DOMAIN u.leaf : u.leaf[r] # pane
    BY <1>5 DEF PaneSet
  <2>2. \A r, s \in DOMAIN u.leaf : u.leaf[r] = u.leaf[s] => r = s
    <3> SUFFICES ASSUME NEW r \in DOMAIN u.leaf, NEW s \in DOMAIN u.leaf, u.leaf[r] = u.leaf[s] PROVE r = s
      OBVIOUS
    <3>1. PICK x \in DOMAIN at : x \in DOMAIN t.leaf /\ r = at[x]
      BY <1>5
    <3>2. PICK y \in DOMAIN at : y \in DOMAIN t.leaf /\ s = at[y]
      BY <1>5
    <3>3. t.leaf[x] = t.leaf[y]
      BY <1>5, <3>1, <3>2
    <3>4. x = y
      BY <3>1, <3>2, <3>3 DEF TreeOK, IsInjective
    <3> QED BY <3>1, <3>2, <3>4
  <2> QED BY <1>6, <2>1, <2>2 DEF IsInjective
<1>11. Nodes(v) \subseteq Pos /\ IsFiniteSet(Nodes(v))
  <2>1. IsFiniteSet(Range(at))
    BY <1>7, TreeIs, ImageIsFinite
  <2>2. IsFiniteSet(Range(at) \cup {q} \cup {new})
    BY <2>1, FS_AddElement, FS_Singleton, FS_Union
  <2>3. Nodes(v) \subseteq Range(at) \cup {q} \cup {new}
    BY <1>7, <1>9 DEF Range
  <2>4. new \in Pos
    BY <1>7, <1>n, ChildIs
  <2>5. IsFiniteSet(Nodes(v))
    BY <2>2, <2>3, FS_Subset
  <2> QED BY <1>7, <1>9, <2>4, <2>5
<1>12. DOMAIN v.split \cap DOMAIN v.leaf = {}
  <2>1. \A r \in DOMAIN u.split : r # new /\ r # q /\ r \notin DOMAIN u.leaf
    <3> SUFFICES ASSUME NEW r \in DOMAIN u.split PROVE r # new /\ r # q /\ r \notin DOMAIN u.leaf
      OBVIOUS
    <3>1. PICK x \in DOMAIN at : x \in DOMAIN t.split /\ r = at[x]
      BY <1>5
    <3>2. \A y \in DOMAIN t.leaf : y # x /\ y \in Nodes(t)
      BY <3>1, TreeIs
    <3> QED BY <1>5, <1>7, <3>1, <3>2
  <2>2. q # new /\ q \notin DOMAIN u.leaf
    <3>1. q # new
      <4>1. Len(new) = Len(q) + 1 /\ Len(q) \in Nat
        BY <1>7, <1>n, ChildIs
      <4> QED BY <4>1
    <3> QED BY <1>5, <1>7, <3>1
  <2> QED BY <1>6, <2>1, <2>2
<1>13. Nodes(v) \ {<<>>} = Children(DOMAIN v.split)
  <2>0. new \in Pos /\ new # <<>> /\ Append(q, c) \in Pos /\ Append(q, c) # <<>>
    BY <1>0, <1>7, <1>n, ChildIs
  <2>a. ASSUME NEW r \in Nodes(t), r # <<>>, ~IsPrefix(q, r) \/ r = q
        PROVE  Front(r) \in DOMAIN v.split /\ Last(r) \in Bit /\ r = Append(Front(r), Last(r))
    <3>1. Front(r) \in DOMAIN t.split /\ Last(r) \in Bit /\ r = Append(Front(r), Last(r))
      BY <2>a, TreeIs
    <3>2. Front(r) \in Nodes(t) /\ Front(r) \in Pos
      BY <3>1, TreeIs
    <3>3. ~IsPrefix(q, Front(r))
      <4>1. CASE ~IsPrefix(q, r)
        <5>1. ASSUME NEW f \in Pos, NEW d \in Bit, IsPrefix(q, f) PROVE IsPrefix(q, Append(f, d))
          BY <1>7, <5>1, PrefixOfChild
        <5> QED BY <3>1, <3>2, <4>1, <5>1
      <4>2. CASE r = q
        <5>1. Len(Front(r)) = Len(r) - 1 /\ Len(r) \in Nat
          BY <1>7, <2>a, ParentIs
        <5>2. IsPrefix(q, Front(r)) => Len(q) <= Len(Front(r))
          BY <1>7, <3>2, PrefixOrder
        <5> QED BY <4>2, <5>1, <5>2
      <4> QED BY <2>a, <4>1, <4>2
    <3>4. at[Front(r)] = Front(r)
      BY <1>7, <3>2, <3>3
    <3>5. Front(r) \in DOMAIN u.split
      BY <1>5, <1>7, <3>1, <3>2, <3>4
    <3> QED BY <1>6, <3>1, <3>5
  <2>1. ASSUME NEW w \in Nodes(v), w # <<>> PROVE \E p \in DOMAIN v.split, d \in Bit : w = Append(p, d)
    <3>1. CASE w = new
      BY <1>6, <1>n, <3>1
    <3>2. CASE w = q
      BY <2>1, <2>a, <3>2
    <3>3. ASSUME NEW r \in Nodes(t), w = at[r] PROVE \E p \in DOMAIN v.split, d \in Bit : w = Append(p, d)
      <4>1. CASE r = q
        BY <1>0, <1>6, <1>7, <3>3, <4>1
      <4>2. CASE ~IsPrefix(q, r)
        BY <1>7, <2>1, <2>a, <3>3, <4>2
      <4>3. CASE IsPrefix(q, r) /\ r # q
        <5>1. r # <<>>
          BY <1>7, <4>3, PrefixOrder
        <5>2. Front(r) \in DOMAIN t.split /\ Last(r) \in Bit /\ r = Append(Front(r), Last(r))
          BY <5>1, TreeIs
        <5>3. Front(r) \in Nodes(t)
          BY <5>2, TreeIs
        <5>4. at[r] = Append(at[Front(r)], Last(r))
          BY <1>7, <4>3, <5>2, <5>3
        <5>5. at[Front(r)] \in DOMAIN v.split
          BY <1>5, <1>6, <1>7, <5>2, <5>3
        <5> QED BY <3>3, <5>2, <5>4, <5>5
      <4> QED BY <4>1, <4>2, <4>3
    <3> QED BY <1>9, <3>1, <3>2, <3>3
  <2>2. ASSUME NEW p \in DOMAIN v.split, NEW d \in Bit PROVE Append(p, d) \in Nodes(v) /\ Append(p, d) # <<>>
    <3>1. CASE p = q
      <4>1. d = b \/ d = c
        BY DEF Bit, c
      <4>2. Append(q, c) \in Nodes(v)
        <5>1. at[q] = Append(q, c) /\ at[q] \in Nodes(v)
          BY <1>7, <1>9
        <5> QED BY <5>1
      <4>3. Append(q, b) \in Nodes(v) /\ Append(q, b) # <<>>
        BY <1>9, <1>n, <2>0
      <4>4. CASE d = b
        BY <3>1, <4>3, <4>4
      <4>5. CASE d = c
        BY <2>0, <3>1, <4>2, <4>5
      <4> QED BY <4>1, <4>4, <4>5
    <3>2. ASSUME NEW r \in Nodes(t), r \in DOMAIN t.split, p = at[r]
          PROVE  Append(p, d) \in Nodes(v) /\ Append(p, d) # <<>>
      <4>1. Append(p, d) # <<>>
        BY <1>7, <3>2, ChildIs
      <4>2. Append(r, d) \in Nodes(t)
        BY <3>2, TreeIs
      <4>3. CASE Append(r, d) # q
        <5>1. at[Append(r, d)] = Append(p, d)
          BY <1>7, <3>2, <4>3
        <5>2. at[Append(r, d)] \in Nodes(v)
          BY <1>9, <4>2
        <5> QED BY <4>1, <5>1, <5>2
      <4>4. CASE Append(r, d) = q
        <5>1. ~IsPrefix(q, r)
          <6>1. Len(q) = Len(r) + 1 /\ Len(r) \in Nat
            BY <1>7, <4>4, ChildIs
          <6>2. IsPrefix(q, r) => Len(q) <= Len(r)
            BY <1>7, PrefixOrder
          <6> QED BY <6>1, <6>2
        <5>2. at[r] = r
          BY <1>7, <5>1
        <5> QED BY <1>9, <3>2, <4>1, <4>4, <5>2
      <4> QED BY <4>3, <4>4
    <3> QED BY <1>5, <1>6, <1>7, <3>1, <3>2
  <2> QED BY <2>1, <2>2, ChildrenAre
<1> QED BY <1>3, <1>8, <1>9, <1>10, <1>11, <1>12, <1>13 DEF TreeOK, Pos

-----------------------------------------------------------------------------
(* Recursion over a tree, from the leaves up, and along a loop. *)
LEMMA NodesAre ==
  ASSUME NEW t, TreeOK(t)
  PROVE  /\ \A p \in Nodes(t) : p \in Pos /\ Len(p) \in Nat
         /\ \A p \in DOMAIN t.split, b \in Bit : Append(p, b) \in Nodes(t) /\ p \in Nodes(t)
         /\ \A p \in DOMAIN t.split : p \in Nodes(t) /\ p \notin DOMAIN t.leaf
         /\ \A p \in DOMAIN t.leaf : p \in Nodes(t) /\ p \notin DOMAIN t.split
         /\ Nodes(t) = DOMAIN t.split \cup DOMAIN t.leaf
         /\ 0 \in Bit /\ 1 \in Bit
<1>1. /\ \A p \in Nodes(t) : p \in Pos
      /\ \A p \in DOMAIN t.split, b \in Bit : Append(p, b) \in Nodes(t) /\ p \in Nodes(t)
      /\ \A p \in DOMAIN t.split : p \in Nodes(t) /\ p \notin DOMAIN t.leaf
      /\ \A p \in DOMAIN t.leaf : p \in Nodes(t) /\ p \notin DOMAIN t.split
  BY TreeIs
<1>2. \A p \in Pos : Len(p) \in Nat
  BY DEF Pos
<1>3. Nodes(t) = DOMAIN t.split \cup DOMAIN t.leaf /\ 0 \in Bit /\ 1 \in Bit
  BY DEF Nodes, Bit
<1> QED BY <1>1, <1>2, <1>3

LEMMA TreeInduction ==
  ASSUME NEW t, TreeOK(t), NEW S, DOMAIN t.leaf \subseteq S,
         \A p \in DOMAIN t.split : Append(p, 0) \in S /\ Append(p, 1) \in S => p \in S
  PROVE  Nodes(t) \subseteq S
<1>1. /\ \A p \in Nodes(t) : p \in Pos /\ Len(p) \in Nat
      /\ \A p \in DOMAIN t.split, b \in Bit : Append(p, b) \in Nodes(t) /\ p \in Nodes(t)
      /\ Nodes(t) = DOMAIN t.split \cup DOMAIN t.leaf
  BY NodesAre
<1>2. PICK n \in Nat : \A p \in Nodes(t) : Len(p) <= n
  BY TreeIs, LengthsAreBounded
<1> DEFINE T == {k \in Nat : \A p \in Nodes(t) : Len(p) + k > n => p \in S}
<1>3. 0 \in T
  BY <1>1, <1>2
<1>4. ASSUME NEW k \in Nat, k \in T PROVE k + 1 \in T
  <2> SUFFICES ASSUME NEW p \in Nodes(t), Len(p) + (k + 1) > n PROVE p \in S
    OBVIOUS
  <2>1. CASE p \in DOMAIN t.leaf
    BY <2>1
  <2>2. CASE p \in DOMAIN t.split
    <3>1. ASSUME NEW b \in Bit PROVE Append(p, b) \in S
      <4>1. Append(p, b) \in Nodes(t) /\ Len(Append(p, b)) = Len(p) + 1
        BY <1>1, <2>2, ChildIs
      <4>2. Len(Append(p, b)) + k > n
        BY <1>1, <4>1
      <4> QED BY <1>4, <4>1, <4>2
    <3>2. 0 \in Bit /\ 1 \in Bit
      BY DEF Bit
    <3> QED BY <2>2, <3>1, <3>2
  <2> QED BY <1>1, <2>1, <2>2
<1>5. Nat \subseteq T
  <2> HIDE DEF T
  <2> QED BY <1>3, <1>4, InductionOnSet
<1>6. n + 1 \in T
  BY <1>5
<1>7. \A p \in Nodes(t) : Len(p) + (n + 1) > n
  BY <1>1
<1> QED BY <1>6, <1>7

Recursion(t, V, base, H, f) ==
  /\ f \in [Nodes(t) -> V]
  /\ \A p \in DOMAIN t.leaf : f[p] = base[p]
  /\ \A p \in DOMAIN t.split : f[p] = H[p][f[Append(p, 0)]][f[Append(p, 1)]]

LEMMA TreeRecursion ==
  ASSUME NEW t, TreeOK(t), NEW V, NEW base \in [DOMAIN t.leaf -> V],
         NEW H \in [DOMAIN t.split -> [V -> [V -> V]]], V # {}
  PROVE  \E f : Recursion(t, V, base, H, f)
<1>1. /\ \A p \in Nodes(t) : p \in Pos /\ Len(p) \in Nat
      /\ \A p \in DOMAIN t.split, b \in Bit : Append(p, b) \in Nodes(t) /\ p \in Nodes(t)
      /\ \A p \in DOMAIN t.leaf : p \in Nodes(t) /\ p \notin DOMAIN t.split
      /\ Nodes(t) = DOMAIN t.split \cup DOMAIN t.leaf
  BY NodesAre
<1>0. 0 \in Bit /\ 1 \in Bit
  BY DEF Bit
<1>2. PICK n \in Nat : \A p \in Nodes(t) : Len(p) <= n
  BY TreeIs, LengthsAreBounded
<1> DEFINE Fine(f, k) ==
             /\ \A p \in DOMAIN t.leaf : f[p] = base[p]
             /\ \A p \in DOMAIN t.split : Len(p) + k > n =>
                  f[p] = H[p][f[Append(p, 0)]][f[Append(p, 1)]]
           T == {k \in Nat : \E f \in [Nodes(t) -> V] : Fine(f, k)}
<1>3. 0 \in T
  <2>1. PICK v : v \in V
    OBVIOUS
  <2> DEFINE f == [p \in Nodes(t) |-> IF p \in DOMAIN t.leaf THEN base[p] ELSE v]
  <2>2. f \in [Nodes(t) -> V]
    BY <2>1
  <2>3. Fine(f, 0)
    <3>1. \A p \in DOMAIN t.leaf : f[p] = base[p]
      BY <1>1
    <3>2. \A p \in DOMAIN t.split : ~(Len(p) + 0 > n)
      BY <1>1, <1>2, <1>0
    <3> QED BY <3>1, <3>2
  <2> QED BY <2>2, <2>3
<1>4. ASSUME NEW k \in Nat, k \in T PROVE k + 1 \in T
  <2>1. PICK f \in [Nodes(t) -> V] : Fine(f, k)
    BY <1>4
  <2> DEFINE e == [p \in DOMAIN t.split |-> H[p][f[Append(p, 0)]][f[Append(p, 1)]]]
             g == [p \in Nodes(t) |-> IF p \in DOMAIN t.split /\ Len(p) + k = n THEN e[p] ELSE f[p]]
  <2>2. \A p \in DOMAIN t.split : e[p] = H[p][f[Append(p, 0)]][f[Append(p, 1)]] /\ e[p] \in V
    <3> SUFFICES ASSUME NEW p \in DOMAIN t.split
                 PROVE  e[p] = H[p][f[Append(p, 0)]][f[Append(p, 1)]] /\ e[p] \in V
      OBVIOUS
    <3>1. Append(p, 0) \in Nodes(t) /\ Append(p, 1) \in Nodes(t)
      BY <1>0, <1>1
    <3>2. f[Append(p, 0)] \in V /\ f[Append(p, 1)] \in V
      BY <3>1
    <3>3. H[p] \in [V -> [V -> V]]
      OBVIOUS
    <3>4. H[p][f[Append(p, 0)]][f[Append(p, 1)]] \in V
      BY <3>2, <3>3
    <3> QED BY <3>4
  <2> HIDE DEF e
  <2>3. g \in [Nodes(t) -> V]
    BY <2>2
  <2>4. \A p \in Nodes(t) : g[p] = IF p \in DOMAIN t.split /\ Len(p) + k = n THEN e[p] ELSE f[p]
    OBVIOUS
  <2> HIDE DEF g
  <2>5. ASSUME NEW p \in DOMAIN t.split, Len(p) + (k + 1) > n
        PROVE  g[p] = H[p][g[Append(p, 0)]][g[Append(p, 1)]]
    <3>1. ASSUME NEW b \in Bit PROVE g[Append(p, b)] = f[Append(p, b)]
      <4> DEFINE c == Append(p, b)
      <4>1. c \in Nodes(t) /\ Len(c) = Len(p) + 1 /\ Len(p) \in Nat
        BY <1>1, ChildIs
      <4>2. Len(c) + k # n
        BY <2>5, <4>1
      <4> HIDE DEF c
      <4>3. g[c] = f[c]
        BY <2>4, <4>1, <4>2
      <4> QED BY <4>3 DEF c
    <3>2. g[Append(p, 0)] = f[Append(p, 0)] /\ g[Append(p, 1)] = f[Append(p, 1)]
      BY <1>0, <3>1
    <3>3. Len(p) \in Nat /\ p \in Nodes(t)
      BY <1>0, <1>1
    <3>4. CASE Len(p) + k = n
      BY <2>2, <2>4, <3>2, <3>3, <3>4
    <3>5. CASE Len(p) + k > n
      <4>1. g[p] = f[p]
        BY <2>4, <3>3, <3>5
      <4>2. f[p] = H[p][f[Append(p, 0)]][f[Append(p, 1)]]
        BY <2>1, <3>5
      <4> QED BY <3>2, <4>1, <4>2
    <3>6. Len(p) + k = n \/ Len(p) + k > n
      BY <2>5, <3>3
    <3> QED BY <3>4, <3>5, <3>6
  <2>6. \A p \in DOMAIN t.leaf : g[p] = base[p]
    BY <1>1, <2>1, <2>4
  <2>7. Fine(g, k + 1) /\ k + 1 \in Nat
    <3>1. \A p \in DOMAIN t.split : Len(p) + (k + 1) > n =>
            g[p] = H[p][g[Append(p, 0)]][g[Append(p, 1)]]
      BY <2>5
    <3> QED BY <2>6, <3>1
  <2> QED BY <2>3, <2>7
<1>5. Nat \subseteq T
  <2> HIDE DEF T
  <2> QED BY <1>3, <1>4, InductionOnSet
<1>6. n + 1 \in T
  <2> HIDE DEF T
  <2> QED BY <1>5
<1>7. PICK f \in [Nodes(t) -> V] : Fine(f, n + 1)
  BY <1>6
<1>8. \A p \in DOMAIN t.split : Len(p) + (n + 1) > n
  BY <1>0, <1>1
<1> QED BY <1>7, <1>8 DEF Recursion

Runs(S, a, G, N, f) == f \in [0..N -> S] /\ f[0] = a /\ \A k \in 1..N : f[k] = G[f[k - 1]]

LEMMA LoopRecursion ==
  ASSUME NEW S, NEW a \in S, NEW G \in [S -> S], NEW N \in Nat
  PROVE  \E f : Runs(S, a, G, N, f)
<1> DEFINE Fine(f, n) == f[0] = a /\ \A k \in 1..n : f[k] = G[f[k - 1]]
           T == {n \in Nat : \E f \in [0..n -> S] : Fine(f, n)}
<1>1. 0 \in T
  <2>1. [k \in 0..0 |-> a] \in [0..0 -> S] /\ Fine([k \in 0..0 |-> a], 0)
    OBVIOUS
  <2> QED BY <2>1
<1>2. ASSUME NEW n \in Nat, n \in T PROVE n + 1 \in T
  <2>1. PICK f \in [0..n -> S] : Fine(f, n)
    BY <1>2
  <2> DEFINE v == G[f[n]]
             g == [k \in 0..n + 1 |-> IF k = n + 1 THEN v ELSE f[k]]
  <2>2. v \in S
    OBVIOUS
  <2>v. v = G[f[n]]
    OBVIOUS
  <2> HIDE DEF v
  <2>3. g \in [0..n + 1 -> S]
    BY <2>2
  <2>4. \A k \in 0..n + 1 : g[k] = IF k = n + 1 THEN v ELSE f[k]
    OBVIOUS
  <2> HIDE DEF g
  <2>5. \A k \in 0..n : g[k] = f[k]
    BY <2>4
  <2>6. ASSUME NEW k \in 1..n + 1 PROVE g[k] = G[g[k - 1]]
    <3>1. k - 1 \in 0..n /\ g[k - 1] = f[k - 1]
      BY <2>5
    <3>2. CASE k = n + 1
      BY <2>4, <2>v, <3>1, <3>2
    <3>3. CASE k \in 1..n
      BY <2>1, <2>5, <3>1, <3>3
    <3> QED BY <3>2, <3>3
  <2>7. g[0] = a
    BY <2>1, <2>5
  <2>8. Fine(g, n + 1) /\ n + 1 \in Nat
    BY <2>6, <2>7
  <2> QED BY <2>3, <2>8
<1>3. Nat \subseteq T
  <2> HIDE DEF T
  <2> QED BY <1>1, <1>2, InductionOnSet
<1>4. N \in T
  <2> HIDE DEF T
  <2> QED BY <1>3
<1> QED BY <1>4 DEF Runs

-----------------------------------------------------------------------------
(* The least sizes. *)
LEMMA MaxIs ==
  ASSUME NEW a \in Int, NEW b \in Int
  PROVE  Max({a, b}) = IF a > b THEN a ELSE b
<1> DEFINE m == IF a > b THEN a ELSE b
<1>1. m \in {a, b} /\ \A y \in {a, b} : m >= y
  OBVIOUS
<1>2. \A x \in {a, b} : (\A y \in {a, b} : x >= y) => x = m
  OBVIOUS
<1> HIDE DEF m
<1>3. Max({a, b}) = m
  BY <1>1, <1>2 DEF Max
<1> QED BY <1>3 DEF m

LEMMA MinSizeIs ==
  ASSUME NEW t, TreeOK(t), NEW x \in Axes
  PROVE  /\ MinSize(t, x) \in [Nodes(t) -> Nat \ {0}]
         /\ MinSize(t, x) = [p \in Nodes(t) |->
              IF p \in DOMAIN t.leaf THEN 1
              ELSE LET a == MinSize(t, x)[Append(p, 0)]
                       b == MinSize(t, x)[Append(p, 1)]
                   IN IF t.split[p].axis = x THEN a + b + Gutter[x] ELSE Max({a, b})]
<1> DEFINE body(f, p) ==
             IF p \in DOMAIN t.leaf THEN 1
             ELSE LET a == f[Append(p, 0)]
                      b == f[Append(p, 1)]
                  IN IF t.split[p].axis = x THEN a + b + Gutter[x] ELSE Max({a, b})
<1>0. MinSize(t, x) = CHOOSE f : f = [p \in Nodes(t) |-> body(f, p)]
  BY DEF MinSize
<1>1. DOMAIN t.split \cup DOMAIN t.leaf = Nodes(t)
      /\ \A p \in DOMAIN t.split : p \notin DOMAIN t.leaf /\ Append(p, 0) \in Nodes(t) /\ Append(p, 1) \in Nodes(t)
  BY NodesAre
<1>2. Gutter[x] \in Nat \ {0}
  BY SplitAssumption
<1> DEFINE V == Nat \ {0}
           base == [p \in DOMAIN t.leaf |-> 1]
           H == [p \in DOMAIN t.split |-> [a \in V |-> [b \in V |->
                   IF t.split[p].axis = x THEN a + b + Gutter[x] ELSE Max({a, b})]]]
<1>3. base \in [DOMAIN t.leaf -> V]
  OBVIOUS
<1>4. \A a, b \in V : a + b + Gutter[x] \in V /\ Max({a, b}) \in V
  BY <1>2, MaxIs
<1>5. H \in [DOMAIN t.split -> [V -> [V -> V]]]
  <2>1. ASSUME NEW p \in DOMAIN t.split, NEW a \in V, NEW b \in V
        PROVE  (IF t.split[p].axis = x THEN a + b + Gutter[x] ELSE Max({a, b})) \in V
    BY <1>4
  <2> QED BY <2>1
<1>6. \A p \in DOMAIN t.split, a, b \in V :
        H[p][a][b] = IF t.split[p].axis = x THEN a + b + Gutter[x] ELSE Max({a, b})
  OBVIOUS
<1>7. \A p \in DOMAIN t.leaf : base[p] = 1
  OBVIOUS
<1> HIDE DEF H, base
<1>8. \E f : f = [p \in Nodes(t) |-> body(f, p)]
  <2>1. V # {}
    OBVIOUS
  <2>a. PICK f : Recursion(t, V, base, H, f)
    <3> HIDE DEF V
    <3> QED BY <1>3, <1>5, <2>1, TreeRecursion
  <2>2. /\ f \in [Nodes(t) -> V]
        /\ \A p \in DOMAIN t.leaf : f[p] = base[p]
        /\ \A p \in DOMAIN t.split : f[p] = H[p][f[Append(p, 0)]][f[Append(p, 1)]]
    BY <2>a DEF Recursion
  <2>3. ASSUME NEW p \in Nodes(t) PROVE f[p] = body(f, p)
    <3>1. CASE p \in DOMAIN t.leaf
      BY <1>7, <2>2, <3>1
    <3>2. CASE p \in DOMAIN t.split
      <4>1. f[Append(p, 0)] \in V /\ f[Append(p, 1)] \in V
        BY <1>1, <2>2, <3>2
      <4> QED BY <1>1, <1>6, <2>2, <3>2, <4>1
    <3> QED BY <1>1, <3>1, <3>2
  <2> HIDE DEF body
  <2>f. f = [p \in Nodes(t) |-> f[p]]
    BY <2>2
  <2>4. f = [p \in Nodes(t) |-> body(f, p)]
    BY <2>3, <2>f
  <2> QED BY <2>4
<1> DEFINE m == MinSize(t, x)
<1>9. m = [p \in Nodes(t) |-> body(m, p)]
  <2> HIDE DEF body
  <2> QED BY <1>0, <1>8
<1> HIDE DEF m
<1>10. \A p \in Nodes(t) : m[p] = body(m, p)
  <2> HIDE DEF body
  <2> QED BY <1>9
<1>11. Nodes(t) \subseteq {p \in Nodes(t) : m[p] \in V}
  <2> DEFINE S == {p \in Nodes(t) : m[p] \in V}
  <2>1. \A p \in DOMAIN t.leaf : p \in S
    <3>1. \A p \in DOMAIN t.leaf : m[p] = 1
      BY <1>1, <1>10
    <3> QED BY <1>1, <3>1
  <2>2. ASSUME NEW p \in DOMAIN t.split, Append(p, 0) \in S, Append(p, 1) \in S PROVE p \in S
    <3>1. p \in Nodes(t) /\ p \notin DOMAIN t.leaf /\ m[Append(p, 0)] \in V /\ m[Append(p, 1)] \in V
      BY <1>1, <2>2
    <3>2. m[p] = IF t.split[p].axis = x THEN m[Append(p, 0)] + m[Append(p, 1)] + Gutter[x]
                 ELSE Max({m[Append(p, 0)], m[Append(p, 1)]})
      BY <1>10, <3>1
    <3>3. m[p] \in V
      <4> HIDE DEF V
      <4> QED BY <1>4, <3>1, <3>2
    <3> QED BY <3>1, <3>3
  <2> HIDE DEF S
  <2>3. Nodes(t) \subseteq S
    BY <2>1, <2>2, TreeInduction
  <2> QED BY <2>3 DEF S
<1>12. m \in [Nodes(t) -> V]
  <2> HIDE DEF body
  <2> QED BY <1>9, <1>11
<1> QED BY <1>9, <1>12 DEF m

-----------------------------------------------------------------------------
(* Sizes. *)
LEMMA SizesAre ==
  /\ \A a, b \in Int : a > 0 \/ b >= 0 => Less(a, b) \in Int /\ (a \in Nat /\ b \in Nat => Less(a, b) \in Nat)
  /\ Gutter \in [Axes -> Nat \ {0}]
  /\ \A x \in Axes : Cross(x) \in Axes /\ Cross(x) # x /\ \A y \in Axes : y = x \/ y = Cross(x)
  /\ \A s \in SplitType : s.axis \in Axes /\ s.first \in SizeType /\ s.second \in SizeType
                          /\ Extent(s) \in SizeType
<1>1. \A a, b \in Int : a > 0 \/ b >= 0 => Less(a, b) \in Int /\ (a \in Nat /\ b \in Nat => Less(a, b) \in Nat)
  BY DEF Less
<1>2. Gutter \in [Axes -> Nat \ {0}]
  BY SplitAssumption
<1>3. \A x \in Axes : Cross(x) \in Axes /\ Cross(x) # x /\ \A y \in Axes : y = x \/ y = Cross(x)
  BY DEF Axes, Cross
<1>4. ASSUME NEW s \in SplitType
      PROVE  s.axis \in Axes /\ s.first \in SizeType /\ s.second \in SizeType /\ Extent(s) \in SizeType
  <2>1. s.axis \in Axes /\ s.first \in SizeType /\ s.second \in SizeType
    BY DEF SplitType
  <2>2. \A x \in Axes : s.first[x] \in Nat /\ s.first[x] + s.second[x] + Gutter[x] \in Nat
    BY <1>2, <2>1 DEF SizeType
  <2>3. Extent(s) \in SizeType
    BY <2>2 DEF Extent, SizeType
  <2> QED BY <2>1, <2>3
<1> QED BY <1>1, <1>2, <1>3, <1>4

LEMMA ShapeIs ==
  ASSUME NEW t, TreeOK(t)
  PROVE  /\ t \in Shape(t)
         /\ \A u \in Shape(t) : /\ TreeOK(u) /\ DOMAIN u.split = DOMAIN t.split /\ u.leaf = t.leaf
                                /\ Nodes(u) = Nodes(t) /\ Shape(u) = Shape(t)
<1>1. t \in Shape(t)
  BY DEF TreeOK, Shape
<1>2. ASSUME NEW u \in Shape(t)
      PROVE  /\ TreeOK(u) /\ DOMAIN u.split = DOMAIN t.split /\ u.leaf = t.leaf
             /\ Nodes(u) = Nodes(t) /\ Shape(u) = Shape(t)
  <2>1. /\ u = [split |-> u.split, leaf |-> u.leaf] /\ u.leaf = t.leaf
        /\ u.split \in [DOMAIN t.split -> SplitType]
    BY DEF Shape
  <2>2. DOMAIN u.split = DOMAIN t.split
    BY <2>1
  <2>3. Nodes(u) = Nodes(t) /\ Shape(u) = Shape(t)
    BY <2>1, <2>2 DEF Nodes, Shape
  <2>4. TreeOK(u)
    BY <2>1, <2>2, <2>3 DEF TreeOK
  <2> QED BY <2>1, <2>2, <2>3, <2>4
<1> QED BY <1>1, <1>2

LEMMA NewSplitInShape ==
  ASSUME NEW t, TreeOK(t), NEW p \in DOMAIN t.split, NEW s \in SplitType
  PROVE  [t EXCEPT !.split[p] = s] \in Shape(t)
<1> DEFINE u == [t EXCEPT !.split[p] = s]
<1>1. t = [split |-> t.split, leaf |-> t.leaf] /\ t.split \in [DOMAIN t.split -> SplitType]
  BY DEF TreeOK
<1>2. u = [split |-> [t.split EXCEPT ![p] = s], leaf |-> t.leaf]
  BY <1>1
<1>3. [t.split EXCEPT ![p] = s] \in [DOMAIN t.split -> SplitType]
  BY <1>1
<1> QED BY <1>2, <1>3 DEF Shape

LEMMA NewSideIsSplit ==
  ASSUME NEW s \in SplitType, NEW x \in Axes, NEW n \in Nat
  PROVE  /\ [s EXCEPT !.first[x] = n] \in SplitType
         /\ [s EXCEPT !.second[x] = n] \in SplitType
<1>1. s = [axis |-> s.axis, first |-> s.first, second |-> s.second]
      /\ s.axis \in Axes /\ s.first \in SizeType /\ s.second \in SizeType
  BY DEF SplitType
<1>2. [s.first EXCEPT ![x] = n] \in SizeType /\ [s.second EXCEPT ![x] = n] \in SizeType
  BY <1>1 DEF SizeType
<1>3. [s EXCEPT !.first[x] = n] = [axis |-> s.axis, first |-> [s.first EXCEPT ![x] = n], second |-> s.second]
  BY <1>1
<1>4. [s EXCEPT !.second[x] = n] = [axis |-> s.axis, first |-> s.first, second |-> [s.second EXCEPT ![x] = n]]
  BY <1>1
<1> QED BY <1>1, <1>2, <1>3, <1>4 DEF SplitType

LEMMA NewSidesAre ==
  ASSUME NEW s \in SplitType, NEW f, NEW g
  PROVE  [s EXCEPT !.first = f, !.second = g] = [axis |-> s.axis, first |-> f, second |-> g]
<1>1. s = [axis |-> s.axis, first |-> s.first, second |-> s.second]
  BY DEF SplitType
<1> DEFINE r == [s EXCEPT !.first = f]
<1>2. r = [axis |-> s.axis, first |-> f, second |-> s.second]
  BY <1>1
<1>3. [s EXCEPT !.first = f, !.second = g] = [r EXCEPT !.second = g]
  OBVIOUS
<1> HIDE DEF r
<1>4. [r EXCEPT !.second = g] = [axis |-> s.axis, first |-> f, second |-> g]
  BY <1>2
<1> QED BY <1>3, <1>4

LEMMA SizedIs ==
  ASSUME NEW t, TreeOK(t), NEW u \in Outcomes(t), NEW p \in DOMAIN t.split, NEW b, NEW x \in Axes, NEW n \in Nat
  PROVE  /\ Sized(u, p, b, x, n) \in Outcomes(t)
         /\ u # NoTree => Sized(u, p, b, x, n) =
              [u EXCEPT !.split[p] = IF b = 0 THEN [u.split[p] EXCEPT !.first[x] = n]
                                     ELSE [u.split[p] EXCEPT !.second[x] = n]]
<1>1. CASE u = NoTree
  BY <1>1 DEF Sized
<1>2. CASE u # NoTree
  <2>1. u \in Shape(t)
    BY <1>2 DEF Outcomes
  <2>2. TreeOK(u) /\ p \in DOMAIN u.split /\ Shape(u) = Shape(t)
    BY <2>1, ShapeIs
  <2>3. u = [split |-> u.split, leaf |-> u.leaf] /\ u.split \in [DOMAIN u.split -> SplitType]
    BY <2>2 DEF TreeOK
  <2>4. u.split[p] \in SplitType
    BY <2>2, <2>3
  <2>5. CASE b = 0
    <3> DEFINE s == [u.split[p] EXCEPT !.first[x] = n]
    <3>1. Sized(u, p, b, x, n) = [u EXCEPT !.split[p].first[x] = n]
      BY <1>2, <2>5 DEF Sized
    <3>2. [u EXCEPT !.split[p].first[x] = n] = [u EXCEPT !.split[p] = s]
      OBVIOUS
    <3>3. s \in SplitType
      BY <2>4, NewSideIsSplit
    <3>4. [u EXCEPT !.split[p] = s] \in Shape(t)
      <4> HIDE DEF s
      <4> QED BY <2>2, <3>3, NewSplitInShape
    <3>5. [u EXCEPT !.split[p] = IF b = 0 THEN s ELSE [u.split[p] EXCEPT !.second[x] = n]]
            = [u EXCEPT !.split[p] = s]
      <4> HIDE DEF s
      <4> QED BY <2>5
    <3> QED BY <3>1, <3>2, <3>4, <3>5 DEF Outcomes
  <2>6. CASE b # 0
    <3> DEFINE s == [u.split[p] EXCEPT !.second[x] = n]
    <3>1. Sized(u, p, b, x, n) = [u EXCEPT !.split[p].second[x] = n]
      BY <1>2, <2>6 DEF Sized
    <3>2. [u EXCEPT !.split[p].second[x] = n] = [u EXCEPT !.split[p] = s]
      OBVIOUS
    <3>3. s \in SplitType
      BY <2>4, NewSideIsSplit
    <3>4. [u EXCEPT !.split[p] = s] \in Shape(t)
      <4> HIDE DEF s
      <4> QED BY <2>2, <3>3, NewSplitInShape
    <3>5. [u EXCEPT !.split[p] = IF b = 0 THEN [u.split[p] EXCEPT !.first[x] = n] ELSE s]
            = [u EXCEPT !.split[p] = s]
      <4> HIDE DEF s
      <4> QED BY <2>6
    <3> QED BY <3>1, <3>2, <3>4, <3>5 DEF Outcomes
  <2> QED BY <2>5, <2>6
<1> QED BY <1>1, <1>2

LEMMA AllottedIs ==
  ASSUME NEW t, TreeOK(t), NEW s \in SizeType, NEW p \in Nodes(t)
  PROVE  Allotted(t, s, p) \in SizeType
<1>1. CASE p = <<>>
  BY <1>1 DEF Allotted
<1>2. CASE p # <<>>
  <2>1. Front(p) \in DOMAIN t.split
    BY <1>2, TreeIs
  <2>2. t.split[Front(p)] \in SplitType
    BY <2>1 DEF TreeOK
  <2> QED BY <1>2, <2>2, SizesAre DEF Allotted, Side
<1> QED BY <1>1, <1>2

LEMMA ApplySizeIs ==
  ASSUME NEW t, TreeOK(t), NEW p, NEW s \in SizeType
  PROVE  /\ ApplySize(t, p, s) \in Shape(t)
         /\ p \in DOMAIN t.split => ApplySize(t, p, s) =
              [t EXCEPT !.split[p] =
                 [axis |-> t.split[p].axis,
                  first |-> [t.split[p].first EXCEPT ![Cross(t.split[p].axis)] = s[Cross(t.split[p].axis)]],
                  second |-> [y \in Axes |->
                    IF y = t.split[p].axis THEN Less(s[y], Gutter[y] + t.split[p].first[y]) ELSE s[y]]]]
<1>1. CASE p \notin DOMAIN t.split
  BY <1>1, ShapeIs DEF ApplySize
<1>2. CASE p \in DOMAIN t.split
  <2>0. /\ t = [split |-> t.split, leaf |-> t.leaf] /\ t.split \in [DOMAIN t.split -> SplitType]
        /\ t.split[p] \in SplitType
    BY <1>2 DEF TreeOK
  <2> DEFINE x == t.split[p].axis
             first == [t.split[p].first EXCEPT ![Cross(x)] = s[Cross(x)]]
             second == [y \in Axes |-> IF y = x THEN Less(s[x], Gutter[x] + t.split[p].first[x]) ELSE s[y]]
             n == [axis |-> x, first |-> first, second |-> second]
  <2>1. x \in Axes /\ t.split[p].first \in SizeType /\ Cross(x) \in Axes
    BY <2>0, SizesAre
  <2>2. first \in SizeType
    BY <2>1 DEF SizeType
  <2>3. second \in SizeType
    <3>1. \A y \in Axes : s[y] \in Nat
      BY DEF SizeType
    <3>2. s[x] \in Nat /\ Gutter[x] + t.split[p].first[x] \in Nat
      <4>1. s[x] \in Nat /\ t.split[p].first[x] \in Nat
        BY <2>1 DEF SizeType
      <4>2. Gutter[x] \in Nat
        BY <2>1, SizesAre
      <4> QED BY <4>1, <4>2
    <3>3. Less(s[x], Gutter[x] + t.split[p].first[x]) \in Nat
      BY <3>2 DEF Less
    <3> QED BY <3>1, <3>3 DEF SizeType
  <2>4. n \in SplitType
    BY <2>1, <2>2, <2>3 DEF SplitType
  <2>5. ApplySize(t, p, s) = [t EXCEPT !.split[p].first[Cross(x)] = s[Cross(x)], !.split[p].second = second]
    BY <1>2 DEF ApplySize
  <2> HIDE DEF second
  <2>6. [t EXCEPT !.split[p].first[Cross(x)] = s[Cross(x)], !.split[p].second = second]
          = [t EXCEPT !.split[p] = [t.split[p] EXCEPT !.first = first, !.second = second]]
    BY <1>2, <2>0
  <2>7. [t.split[p] EXCEPT !.first = first, !.second = second] = n
    <3> HIDE DEF first
    <3> QED BY <2>0, NewSidesAre
  <2>8. ApplySize(t, p, s) = [t EXCEPT !.split[p] = n]
    BY <2>5, <2>6, <2>7
  <2>9. [t EXCEPT !.split[p] = n] \in Shape(t)
    <3> HIDE DEF n
    <3> QED BY <1>2, <2>4, NewSplitInShape
  <2>10. second = [y \in Axes |-> IF y = x THEN Less(s[y], Gutter[y] + t.split[p].first[y]) ELSE s[y]]
    BY DEF second
  <2> QED BY <2>8, <2>9, <2>10
<1> QED BY <1>1, <1>2

LEMMA LoopInduction ==
  ASSUME NEW N \in Nat, NEW S, 0 \in S, \A k \in 1..N : k - 1 \in S => k \in S
  PROVE  0..N \subseteq S
<1> DEFINE T == {k \in Nat : k <= N => k \in S}
<1>1. 0 \in T
  OBVIOUS
<1>2. ASSUME NEW k \in Nat, k \in T PROVE k + 1 \in T
  <2>1. CASE k + 1 <= N
    <3>1. k + 1 \in 1..N /\ (k + 1) - 1 = k
      BY <2>1
    <3>2. k \in S
      BY <1>2, <2>1
    <3>3. k + 1 \in S
      BY <3>1, <3>2
    <3> QED BY <3>3
  <2> QED BY <2>1
<1> HIDE DEF T
<1>3. Nat \subseteq T
  BY <1>1, <1>2, InductionOnSet
<1> QED BY <1>3 DEF T

-----------------------------------------------------------------------------
(* Growing and shrinking. *)
Growers(t) == [Outcomes(t) -> [Int -> Outcomes(t)]]

LEMMA CellIs ==
  ASSUME NEW t, TreeOK(t), NEW p \in DOMAIN t.split, NEW x \in Axes, NEW d \in {1, -1},
         NEW below \in [Bit -> Growers(t)], NEW l \in [t : Outcomes(t), turn : Bit]
  PROVE  Cell(l, p, x, d, below) \in [t : Outcomes(t), turn : Bit]
<1> DEFINE has(c) == Side(l.t.split[p], c)[x]
           b == IF d > 0 \/ has(l.turn) > 1 THEN l.turn ELSE 1 - l.turn
<1>0. l.t \in Outcomes(t) /\ l.turn \in Bit /\ l = [t |-> l.t, turn |-> l.turn]
  OBVIOUS
<1>1. Cell(l, p, x, d, below) =
        IF l.t = NoTree \/ (d < 0 /\ has(b) <= 1) THEN [l EXCEPT !.t = NoTree]
        ELSE [t |-> Sized(below[b][l.t][d], p, b, x, has(b) + d), turn |-> 1 - b]
  BY DEF Cell
<1>2. b \in Bit /\ 1 - b \in Bit
  BY <1>0 DEF Bit
<1> HIDE DEF b
<1>3. CASE l.t = NoTree \/ (d < 0 /\ has(b) <= 1)
  <2>1. [l EXCEPT !.t = NoTree] = [t |-> NoTree, turn |-> l.turn]
    BY <1>0
  <2>2. NoTree \in Outcomes(t)
    BY DEF Outcomes
  <2>3. Cell(l, p, x, d, below) = [t |-> NoTree, turn |-> l.turn]
    BY <1>1, <1>3, <2>1
  <2> QED BY <1>0, <2>2, <2>3
<1>4. CASE ~(l.t = NoTree \/ (d < 0 /\ has(b) <= 1))
  <2>1. l.t \in Shape(t)
    BY <1>0, <1>4 DEF Outcomes
  <2>2. l.t.split[p] \in SplitType
    BY <2>1, ShapeIs DEF TreeOK
  <2>3. has(b) \in Nat
    <3>1. l.t.split[p].first \in SizeType /\ l.t.split[p].second \in SizeType
      BY <2>2, SizesAre
    <3> QED BY <3>1 DEF Side, SizeType
  <2>4. has(b) + d \in Nat
    <3> HIDE DEF has
    <3> QED BY <1>4, <2>3
  <2>5. below[b][l.t][d] \in Outcomes(t)
    <3>1. below[b] \in [Outcomes(t) -> [Int -> Outcomes(t)]]
      BY <1>2 DEF Growers
    <3>2. below[b][l.t] \in [Int -> Outcomes(t)] /\ d \in Int
      BY <1>0, <3>1
    <3> QED BY <3>2
  <2> HIDE DEF has
  <2>6. Sized(below[b][l.t][d], p, b, x, has(b) + d) \in Outcomes(t)
    BY <2>4, <2>5, SizedIs
  <2>7. Cell(l, p, x, d, below) = [t |-> Sized(below[b][l.t][d], p, b, x, has(b) + d), turn |-> 1 - b]
    BY <1>1, <1>4
  <2> QED BY <1>2, <2>6, <2>7
<1> QED BY <1>3, <1>4

(* The loop of Along, cell by cell *)
Cells(t, u, p, x, n, below, d, f) ==
  /\ n * d \in Nat /\ d = (IF n > 0 THEN 1 ELSE -1)
  /\ f[0] = [t |-> u, turn |-> 0]
  /\ \A k \in 1..n * d : f[k] = Cell(f[k - 1], p, x, d, below)
  /\ \A k \in 0..n * d : f[k] \in [t : Outcomes(t), turn : Bit]
  /\ Along(u, p, x, n, below) = f[n * d].t

LEMMA AlongIs ==
  ASSUME NEW t, TreeOK(t), NEW p \in DOMAIN t.split, NEW x \in Axes, NEW n \in Int, n # 0,
         NEW below \in [Bit -> Growers(t)], NEW u \in Outcomes(t)
  PROVE  \E d \in {1, -1} : \E f : Cells(t, u, p, x, n, below, d, f)
<1> DEFINE d == IF n > 0 THEN 1 ELSE -1
           N == n * d
           S == [t : Outcomes(t), turn : Bit]
           a == [t |-> u, turn |-> 0]
           eq(f) == f = [k \in 0..N |-> IF k = 0 THEN a ELSE Cell(f[k - 1], p, x, d, below)]
           f == CHOOSE f : eq(f)
           G == [l \in S |-> Cell(l, p, x, d, below)]
<1>1. d \in {1, -1}
  OBVIOUS
<1>2. N \in Nat
  <2>1. CASE n > 0
    BY <2>1
  <2>2. CASE n < 0
    BY <2>2
  <2> QED BY <2>1, <2>2
<1>3. Along(u, p, x, n, below) = f[N].t
  BY DEF Along
<1>d. d = (IF n > 0 THEN 1 ELSE -1) /\ N = n * d
  OBVIOUS
<1>a. a = [t |-> u, turn |-> 0]
  OBVIOUS
<1> HIDE DEF d, N
<1>4. a \in S
  BY DEF Bit
<1>5. \A l \in S : Cell(l, p, x, d, below) \in S
  BY <1>1, CellIs
<1>6. G \in [S -> S] /\ \A l \in S : G[l] = Cell(l, p, x, d, below)
  <2> HIDE DEF S
  <2> QED BY <1>5
<1> HIDE DEF S, a, G
<1>7. \E g : eq(g)
  <2>a. PICK g : Runs(S, a, G, N, g)
    BY <1>2, <1>4, <1>6, LoopRecursion
  <2>1. g \in [0..N -> S] /\ g[0] = a /\ \A k \in 1..N : g[k] = G[g[k - 1]]
    BY <2>a DEF Runs
  <2>2. ASSUME NEW k \in 0..N PROVE g[k] = IF k = 0 THEN a ELSE Cell(g[k - 1], p, x, d, below)
    <3>1. CASE k = 0
      BY <2>1, <3>1
    <3>2. CASE k # 0
      <4>1. k \in 1..N /\ k - 1 \in 0..N
        BY <1>2, <3>2
      <4>2. g[k - 1] \in S
        BY <2>1, <4>1
      <4> QED BY <1>6, <2>1, <3>2, <4>1, <4>2
    <3> QED BY <3>1, <3>2
  <2>3. g = [k \in 0..N |-> g[k]]
    BY <2>1
  <2> QED BY <2>2, <2>3
<1>8. eq(f)
  <2> HIDE DEF eq
  <2> QED BY <1>7
<1> HIDE DEF f
<1>9. f[0] = a /\ \A k \in 1..N : f[k] = Cell(f[k - 1], p, x, d, below)
  BY <1>2, <1>8
<1>10. 0..N \subseteq {k \in 0..N : f[k] \in S}
  <2> DEFINE T == {k \in 0..N : f[k] \in S}
  <2>1. 0 \in T
    BY <1>2, <1>4, <1>9
  <2>2. \A k \in 1..N : k - 1 \in T => k \in T
    BY <1>2, <1>5, <1>9
  <2> HIDE DEF T
  <2>3. 0..N \subseteq T
    BY <1>2, <2>1, <2>2, LoopInduction
  <2> QED BY <2>3 DEF T
<1>11. \A k \in 0..N : f[k] \in [t : Outcomes(t), turn : Bit]
  BY <1>10 DEF S
<1>12. Cells(t, u, p, x, n, below, d, f)
  BY <1>2, <1>3, <1>9, <1>11, <1>d, <1>a DEF Cells
<1> QED BY <1>1, <1>12

LEMMA AcrossIs ==
  ASSUME NEW t, TreeOK(t), NEW p \in DOMAIN t.split, NEW x \in Axes, NEW n \in Int, NEW least \in Nat,
         NEW below \in [Bit -> Growers(t)], NEW u \in Shape(t)
  PROVE  Across(u, p, x, n, least, below) \in Outcomes(t)
<1> DEFINE first == u.split[p].first[x]
           new == Max({first + n, least})
           d == new - first
           v == below[1][below[0][u][d]][d]
<1>1. u.split[p] \in SplitType
  BY ShapeIs DEF TreeOK
<1>2. first \in Nat
  <2>1. u.split[p].first \in SizeType
    BY <1>1, SizesAre
  <2> QED BY <2>1 DEF SizeType
<1>3. new \in Nat
  <2> HIDE DEF first
  <2>1. first + n \in Int
    BY <1>2
  <2> QED BY <1>2, <2>1, MaxIs
<1>4. d \in Int
  <2> HIDE DEF first, new
  <2> QED BY <1>2, <1>3
<1>5. Across(u, p, x, n, least, below) =
        IF d = 0 THEN u ELSE Sized(Sized(v, p, 0, x, new), p, 1, x, new)
  BY DEF Across
<1> HIDE DEF first, new, d
<1>6. v \in Outcomes(t)
  <2>1. below[0] \in Growers(t) /\ below[1] \in Growers(t)
    BY DEF Bit
  <2>2. u \in Outcomes(t)
    BY DEF Outcomes
  <2>3. below[0][u] \in [Int -> Outcomes(t)]
    BY <2>1, <2>2 DEF Growers
  <2> DEFINE w == below[0][u][d]
  <2>4. w \in Outcomes(t)
    BY <1>4, <2>3
  <2> HIDE DEF w
  <2>5. below[1][w] \in [Int -> Outcomes(t)]
    BY <2>1, <2>4 DEF Growers
  <2>6. below[1][w][d] \in Outcomes(t)
    BY <1>4, <2>5
  <2> QED BY <2>6 DEF w
<1> HIDE DEF v
<1>7. Sized(v, p, 0, x, new) \in Outcomes(t)
  BY <1>3, <1>6, SizedIs
<1>8. Sized(Sized(v, p, 0, x, new), p, 1, x, new) \in Outcomes(t)
  BY <1>3, <1>7, SizedIs
<1>9. u \in Outcomes(t)
  BY DEF Outcomes
<1> QED BY <1>5, <1>8, <1>9

LEMMA GrowingIs ==
  ASSUME NEW t, TreeOK(t), NEW p \in Nodes(t), NEW x \in Axes, NEW least \in Nat,
         NEW below, p \in DOMAIN t.split => below \in [Bit -> Growers(t)]
  PROVE  /\ Growing(t, p, x, least, below) \in Growers(t)
         /\ \A u \in Outcomes(t), n \in Int : Growing(t, p, x, least, below)[u][n] =
              IF u = NoTree \/ n = 0 \/ p \in DOMAIN t.leaf THEN u
              ELSE IF t.split[p].axis = x THEN Along(u, p, x, n, below)
              ELSE Across(u, p, x, n, least, below)
<1> DEFINE v(u, n) == IF u = NoTree \/ n = 0 \/ p \in DOMAIN t.leaf THEN u
                      ELSE IF t.split[p].axis = x THEN Along(u, p, x, n, below)
                      ELSE Across(u, p, x, n, least, below)
<1>1. Growing(t, p, x, least, below) = [u \in Outcomes(t) |-> [n \in Int |-> v(u, n)]]
  BY DEF Growing
<1>2. ASSUME NEW u \in Outcomes(t), NEW n \in Int PROVE v(u, n) \in Outcomes(t)
  <2>1. CASE u = NoTree \/ n = 0 \/ p \in DOMAIN t.leaf
    BY <2>1
  <2>2. CASE ~(u = NoTree \/ n = 0 \/ p \in DOMAIN t.leaf)
    <3>1. p \in DOMAIN t.split /\ u \in Shape(t) /\ n # 0
      BY <2>2, NodesAre DEF Outcomes
    <3>2. below \in [Bit -> Growers(t)]
      BY <3>1
    <3>3. Along(u, p, x, n, below) \in Outcomes(t)
      <4>a. PICK d \in {1, -1} : \E f : Cells(t, u, p, x, n, below, d, f)
        BY <3>1, <3>2, AlongIs
      <4>b. PICK f : Cells(t, u, p, x, n, below, d, f)
        BY <4>a
      <4>1. n * d \in Nat /\ Along(u, p, x, n, below) = f[n * d].t
            /\ \A k \in 0..n * d : f[k] \in [t : Outcomes(t), turn : Bit]
        BY <4>b DEF Cells
      <4>2. n * d \in 0..n * d
        BY <4>1
      <4> QED BY <4>1, <4>2
    <3>4. Across(u, p, x, n, least, below) \in Outcomes(t)
      BY <3>1, <3>2, AcrossIs
    <3> QED BY <2>2, <3>3, <3>4
  <2> QED BY <2>1, <2>2
<1> HIDE DEF v
<1>3. [u \in Outcomes(t) |-> [n \in Int |-> v(u, n)]] \in Growers(t)
  BY <1>2 DEF Growers
<1>4. \A u \in Outcomes(t), n \in Int : Growing(t, p, x, least, below)[u][n] = v(u, n)
  BY <1>1
<1> QED BY <1>1, <1>3, <1>4 DEF v

LEMMA EmptyTree ==
  ASSUME NEW t, TreeOK(t), Nodes(t) = {}
  PROVE  t = NoTree
<1>1. t = [split |-> t.split, leaf |-> t.leaf] /\ DOMAIN t.split = {} /\ DOMAIN t.leaf = {}
      /\ t.split = [p \in {} |-> t.split[p]] /\ t.leaf = [p \in {} |-> t.leaf[p]]
  BY DEF TreeOK, Nodes
<1>2. t.split = <<>> /\ t.leaf = <<>>
  BY <1>1
<1> QED BY <1>1, <1>2 DEF NoTree

LEMMA NoTreeOK ==
  TreeOK(NoTree) /\ Nodes(NoTree) = {}
<1>1. DOMAIN NoTree.split = {} /\ DOMAIN NoTree.leaf = {} /\ NoTree.split = <<>> /\ NoTree.leaf = <<>>
  BY DEF NoTree
<1>2. Nodes(NoTree) = {}
  BY <1>1 DEF Nodes
<1>3. NoTree = [split |-> NoTree.split, leaf |-> NoTree.leaf]
  BY DEF NoTree
<1>4. NoTree.split \in [{} -> SplitType] /\ NoTree.leaf \in [{} -> Panes]
  BY <1>1
<1>5. Children({}) = {}
  BY DEF Children
<1>6. IsFiniteSet(Nodes(NoTree))
  BY <1>2, FS_EmptySet
<1>7. IsInjective(NoTree.leaf)
  BY <1>1 DEF IsInjective
<1> QED BY <1>1, <1>2, <1>3, <1>4, <1>5, <1>6, <1>7 DEF TreeOK

LEMMA AdjustIs ==
  ASSUME NEW t, TreeOK(t), NEW x \in Axes
  PROVE  \E f : /\ f \in [Nodes(t) -> Growers(t)]
                /\ \A p \in Nodes(t) :
                     f[p] = Growing(t, p, x, MinSize(t, x)[p], [b \in Bit |-> f[Append(p, b)]])
                /\ \A n \in Int : Adjust(t, x, n) = IF t = NoTree THEN NoTree ELSE f[<<>>][t][n]
<1> DEFINE least == MinSize(t, x)
           body(f, p) == Growing(t, p, x, least[p], [b \in Bit |-> f[Append(p, b)]])
           eq(f) == f = [p \in Nodes(t) |-> body(f, p)]
           g == CHOOSE f : eq(f)
           V == Growers(t)
           H == [p \in DOMAIN t.split |-> [a \in V |-> [b \in V |->
                   Growing(t, p, x, least[p], [c \in Bit |-> IF c = 0 THEN a ELSE b])]]]
           stay == [u \in Outcomes(t) |-> [n \in Int |-> u]]
           base == [p \in DOMAIN t.leaf |-> stay]
<1>1. \A n \in Int : Adjust(t, x, n) = IF t = NoTree THEN NoTree ELSE g[<<>>][t][n]
  BY DEF Adjust
<1>l. least = MinSize(t, x)
  OBVIOUS
<1>2. \A p \in Nodes(t) : least[p] \in Nat
  BY MinSizeIs
<1> HIDE DEF least
<1>3. stay \in V
  BY DEF Growers
<1>4. \A p \in DOMAIN t.leaf : base[p] = stay
  OBVIOUS
<1>5. base \in [DOMAIN t.leaf -> V]
  <2> HIDE DEF stay, V
  <2> QED BY <1>3
<1>6. \A p \in DOMAIN t.split, a, b \in V :
        H[p][a][b] = Growing(t, p, x, least[p], [c \in Bit |-> IF c = 0 THEN a ELSE b])
  <2> HIDE DEF V
  <2> QED OBVIOUS
<1>7. H \in [DOMAIN t.split -> [V -> [V -> V]]]
  <2>1. ASSUME NEW p \in DOMAIN t.split, NEW a \in V, NEW b \in V
        PROVE  Growing(t, p, x, least[p], [c \in Bit |-> IF c = 0 THEN a ELSE b]) \in V
    <3> DEFINE at == [c \in Bit |-> IF c = 0 THEN a ELSE b]
    <3>1. p \in Nodes(t) /\ at \in [Bit -> V] /\ least[p] \in Nat
      BY <1>2, NodesAre
    <3> HIDE DEF at
    <3>2. Growing(t, p, x, least[p], at) \in V
      BY <3>1, GrowingIs
    <3> QED BY <3>2 DEF at
  <2> HIDE DEF V
  <2> QED BY <2>1
<1>8. ASSUME NEW f, NEW p \in DOMAIN t.leaf PROVE body(f, p) = stay
  <2> DEFINE at == [b \in Bit |-> f[Append(p, b)]]
  <2>1. body(f, p) = Growing(t, p, x, least[p], at)
    OBVIOUS
  <2> HIDE DEF at
  <2>2. Growing(t, p, x, least[p], at) = stay
    BY DEF Growing
  <2> QED BY <2>1, <2>2
<1> HIDE DEF stay, base, H
<1>9. \E f : eq(f)
  <2>a. V # {}
    BY <1>3
  <2>b. PICK f : Recursion(t, V, base, H, f)
    <3> HIDE DEF V
    <3> QED BY <1>5, <1>7, <2>a, TreeRecursion
  <2>1. /\ f \in [Nodes(t) -> V]
        /\ \A p \in DOMAIN t.leaf : f[p] = base[p]
        /\ \A p \in DOMAIN t.split : f[p] = H[p][f[Append(p, 0)]][f[Append(p, 1)]]
    BY <2>b DEF Recursion
  <2>2. ASSUME NEW p \in DOMAIN t.split PROVE f[p] = body(f, p)
    <3>1. Append(p, 0) \in Nodes(t) /\ Append(p, 1) \in Nodes(t)
      BY NodesAre
    <3>2. f[Append(p, 0)] \in V /\ f[Append(p, 1)] \in V
      <4> HIDE DEF V
      <4> QED BY <2>1, <3>1
    <3> DEFINE at == [c \in Bit |-> IF c = 0 THEN f[Append(p, 0)] ELSE f[Append(p, 1)]]
    <3>3. f[p] = Growing(t, p, x, least[p], at)
      <4> HIDE DEF V
      <4> QED BY <1>6, <2>1, <3>2
    <3>4. at = [b \in Bit |-> f[Append(p, b)]]
      BY DEF Bit
    <3> HIDE DEF at
    <3> QED BY <3>3, <3>4
  <2>3. ASSUME NEW p \in DOMAIN t.leaf PROVE f[p] = body(f, p)
    <3> HIDE DEF body
    <3> QED BY <1>4, <1>8, <2>1
  <2>4. \A p \in Nodes(t) : f[p] = body(f, p)
    <3> HIDE DEF body
    <3> QED BY <2>2, <2>3, NodesAre
  <2>5. f = [p \in Nodes(t) |-> f[p]]
    BY <2>1
  <2> HIDE DEF body
  <2>6. f = [p \in Nodes(t) |-> body(f, p)]
    BY <2>4, <2>5
  <2> QED BY <2>6
<1>10. eq(g)
  <2> HIDE DEF eq
  <2> QED BY <1>9
<1> HIDE DEF g
<1>11. g = [p \in Nodes(t) |-> g[p]] /\ \A p \in Nodes(t) : g[p] = body(g, p)
  <2> HIDE DEF body
  <2> QED BY <1>10
<1>12. Nodes(t) \subseteq {p \in Nodes(t) : g[p] \in V}
  <2> DEFINE S == {p \in Nodes(t) : g[p] \in V}
  <2>1. DOMAIN t.leaf \subseteq S
    <3> HIDE DEF body, V
    <3> QED BY <1>3, <1>8, <1>11, NodesAre
  <2>2. ASSUME NEW p \in DOMAIN t.split, Append(p, 0) \in S, Append(p, 1) \in S PROVE p \in S
    <3> DEFINE at == [b \in Bit |-> g[Append(p, b)]]
    <3>1. at \in [Bit -> V]
      BY <2>2 DEF Bit
    <3>2. p \in Nodes(t) /\ least[p] \in Nat
      BY <1>2, NodesAre
    <3>3. g[p] = Growing(t, p, x, least[p], at)
      BY <1>11, <3>2
    <3> HIDE DEF at
    <3>4. Growing(t, p, x, least[p], at) \in V
      BY <3>1, <3>2, GrowingIs
    <3> QED BY <3>2, <3>3, <3>4
  <2> HIDE DEF S
  <2>3. Nodes(t) \subseteq S
    BY <2>1, <2>2, TreeInduction
  <2> QED BY <2>3 DEF S
<1>13. g \in [Nodes(t) -> Growers(t)]
  BY <1>11, <1>12
<1> HIDE DEF eq, V
<1> QED BY <1>1, <1>11, <1>13, <1>l

LEMMA AdjustIsTree ==
  ASSUME NEW t, TreeOK(t), NEW x \in Axes, NEW n \in Int
  PROVE  Adjust(t, x, n) \in Outcomes(t)
<1>1. PICK f : /\ f \in [Nodes(t) -> Growers(t)]
               /\ \A k \in Int : Adjust(t, x, k) = IF t = NoTree THEN NoTree ELSE f[<<>>][t][k]
  BY AdjustIs
<1>2. CASE t = NoTree
  BY <1>1, <1>2 DEF Outcomes
<1>3. CASE t # NoTree
  <2>1. <<>> \in Nodes(t)
    BY <1>3, EmptyTree, RootIsNode
  <2>2. f[<<>>] \in [Outcomes(t) -> [Int -> Outcomes(t)]]
    BY <1>1, <2>1 DEF Growers
  <2>3. t \in Outcomes(t)
    BY ShapeIs DEF Outcomes
  <2>4. f[<<>>][t][n] \in Outcomes(t)
    BY <2>2, <2>3
  <2> QED BY <1>1, <1>3, <2>4
<1> QED BY <1>2, <1>3

-----------------------------------------------------------------------------
(* Positions in order: the rank of one among others. *)
Rank(D, p) == Cardinality({q \in D : Before(q, p)})

LEMMA RankIs ==
  ASSUME NEW D, D \subseteq Pos, IsFiniteSet(D)
  PROVE  /\ Cardinality(D) \in Nat
         /\ \A p \in Pos : Rank(D, p) \in Nat /\ Rank(D, p) <= Cardinality(D)
         /\ \A p \in D : Rank(D, p) < Cardinality(D)
         /\ \A p \in Pos, q \in Pos : Before(p, q) => Rank(D, p) <= Rank(D, q)
         /\ \A p \in D, q \in Pos : Before(p, q) => Rank(D, p) < Rank(D, q)
         /\ \A p, q \in D : Rank(D, p) = Rank(D, q) => p = q
         /\ \A i \in 0..Cardinality(D) - 1 : \E p \in D : Rank(D, p) = i
<1> DEFINE L(p) == {q \in D : Before(q, p)}
<1>0. \A p : Rank(D, p) = Cardinality(L(p))
  BY DEF Rank
<1>1. \A p : L(p) \subseteq D
  OBVIOUS
<1>2. Cardinality(D) \in Nat
  BY FS_CardinalityType
<1>o. /\ \A p \in Pos : ~Before(p, p)
      /\ \A p, q, r \in Pos : Before(p, q) /\ Before(q, r) => Before(p, r)
      /\ \A p, q \in Pos : p # q => Before(p, q) \/ Before(q, p)
  BY BeforeIsOrder
<1>3. ASSUME NEW p PROVE IsFiniteSet(L(p)) /\ Rank(D, p) \in Nat /\ Rank(D, p) <= Cardinality(D)
  <2> HIDE DEF L
  <2>1. IsFiniteSet(L(p)) /\ Cardinality(L(p)) <= Cardinality(D)
    BY <1>1, FS_Subset
  <2> QED BY <1>0, <2>1, FS_CardinalityType
<1>4. ASSUME NEW p \in D PROVE Rank(D, p) < Cardinality(D)
  <2>1. p \notin L(p)
    BY <1>o
  <2> HIDE DEF L
  <2>2. Cardinality(L(p)) # Cardinality(D)
    BY <1>1, <2>1, FS_Subset
  <2> QED BY <1>0, <1>2, <1>3, <2>2
<1>5. ASSUME NEW p \in Pos, NEW q \in Pos, Before(p, q)
      PROVE  Rank(D, p) <= Rank(D, q) /\ (p \in D => Rank(D, p) < Rank(D, q))
  <2>1. L(p) \subseteq L(q)
    BY <1>5, <1>o
  <2>2. p \in D => p \in L(q) /\ p \notin L(p)
    BY <1>5, <1>o
  <2> HIDE DEF L
  <2>3. Cardinality(L(p)) <= Cardinality(L(q)) /\ (Cardinality(L(p)) = Cardinality(L(q)) => L(p) = L(q))
    BY <1>3, <2>1, FS_Subset
  <2> QED BY <1>0, <1>3, <2>2, <2>3
<1>6. ASSUME NEW p \in D, NEW q \in D, Rank(D, p) = Rank(D, q) PROVE p = q
  <2>1. ~Before(p, q)
    <3> SUFFICES ASSUME Before(p, q) PROVE FALSE
      OBVIOUS
    <3>1. Rank(D, p) < Rank(D, q)
      BY <1>5
    <3>2. Rank(D, p) \in Nat
      BY <1>3
    <3> QED BY <1>6, <3>1, <3>2
  <2>2. ~Before(q, p)
    <3> SUFFICES ASSUME Before(q, p) PROVE FALSE
      OBVIOUS
    <3>1. Rank(D, q) < Rank(D, p)
      BY <1>5
    <3>2. Rank(D, q) \in Nat
      BY <1>3
    <3> QED BY <1>6, <3>1, <3>2
  <2> QED BY <1>o, <2>1, <2>2
<1>7. ASSUME NEW i \in 0..Cardinality(D) - 1 PROVE \E p \in D : Rank(D, p) = i
  <2> DEFINE T == 0..Cardinality(D) - 1
             f == [p \in D |-> Rank(D, p)]
  <2>0. \A p \in D : Rank(D, p) \in T
    <3>1. ASSUME NEW p \in D PROVE Rank(D, p) \in T
      <4>1. Rank(D, p) \in Nat /\ Rank(D, p) < Cardinality(D)
        BY <1>3, <1>4
      <4> QED BY <1>2, <4>1
    <3> QED BY <3>1
  <2>1. f \in [D -> T]
    <3> HIDE DEF T
    <3> QED BY <2>0
  <2>2. \A p, q \in D : f[p] = f[q] => p = q
    BY <1>6
  <2>3. f \in Injection(D, T)
    BY <2>1, <2>2 DEF Injection, IsInjective
  <2>4. IsFiniteSet(T) /\ Cardinality(T) = Cardinality(D)
    <3>1. IsFiniteSet(T)
          /\ Cardinality(T) = IF 0 > Cardinality(D) - 1 THEN 0 ELSE (Cardinality(D) - 1) - 0 + 1
      <4>1. 0 \in Int /\ Cardinality(D) - 1 \in Int
        BY <1>2
      <4> QED BY <4>1, FS_Interval
    <3> HIDE DEF T
    <3> QED BY <1>2, <3>1
  <2>5. f \in Surjection(D, T)
    <3> HIDE DEF T, f
    <3> QED BY <2>3, <2>4, FS_Injection
  <2> QED BY <2>5 DEF Surjection
<1> QED BY <1>2, <1>3, <1>4, <1>5, <1>6, <1>7

LEMMA IndexIs ==
  ASSUME NEW t, TreeOK(t), NEW n, n = Cardinality(DOMAIN t.leaf)
  PROVE  /\ n \in Nat /\ IsFiniteSet(DOMAIN t.leaf) /\ IsFiniteSet(PaneSet(t)) /\ Cardinality(PaneSet(t)) = n
         /\ \A p \in DOMAIN t.leaf : Index(t, p) \in 0..n - 1 /\ LeafAt(t, Index(t, p)) = p
         /\ \A i \in 0..n - 1 : LeafAt(t, i) \in DOMAIN t.leaf /\ Index(t, LeafAt(t, i)) = i
         /\ \A p \in DOMAIN t.leaf : PathOf(t, t.leaf[p]) = p
         /\ \A pane \in PaneSet(t) : PathOf(t, pane) \in DOMAIN t.leaf /\ t.leaf[PathOf(t, pane)] = pane
<1> DEFINE D == DOMAIN t.leaf
<1>1. D \subseteq Pos /\ IsFiniteSet(D)
  <2>1. IsFiniteSet(Nodes(t)) /\ D \subseteq Nodes(t) /\ Nodes(t) \subseteq Pos
    BY TreeIs
  <2>2. IsFiniteSet(D)
    BY <2>1, FS_Subset
  <2> QED BY <2>1, <2>2
<1>2. \A p : Index(t, p) = Rank(D, p)
  BY DEF Index, Rank
<1>3. \A p, q \in D : t.leaf[p] = t.leaf[q] => p = q
  BY DEF TreeOK, IsInjective
<1>4. Cardinality(PaneSet(t)) = n /\ IsFiniteSet(PaneSet(t))
  <2> DEFINE f == [p \in D |-> t.leaf[p]]
  <2>1. f \in Surjection(D, PaneSet(t)) /\ f \in Injection(D, PaneSet(t))
    BY <1>3 DEF Surjection, Injection, IsInjective, PaneSet
  <2> HIDE DEF f
  <2>2. IsFiniteSet(PaneSet(t)) /\ (Cardinality(PaneSet(t)) = Cardinality(D) <=> f \in Injection(D, PaneSet(t)))
    BY <1>1, <2>1, FS_Surjection
  <2> QED BY <2>1, <2>2
<1>5. ASSUME NEW p \in D PROVE PathOf(t, t.leaf[p]) = p
  BY <1>3 DEF PathOf
<1>6. ASSUME NEW pane \in PaneSet(t) PROVE PathOf(t, pane) \in D /\ t.leaf[PathOf(t, pane)] = pane
  <2>1. \E p \in D : t.leaf[p] = pane
    BY DEF PaneSet
  <2> QED BY <2>1 DEF PathOf
<1> HIDE DEF D
<1>7. ASSUME NEW p \in D PROVE Index(t, p) \in 0..n - 1 /\ LeafAt(t, Index(t, p)) = p
  <2>1. Index(t, p) \in 0..n - 1
    BY <1>1, <1>2, RankIs DEF D
  <2>2. \A q \in D : Index(t, q) = Index(t, p) => q = p
    BY <1>1, <1>2, RankIs
  <2> QED BY <2>1, <2>2 DEF LeafAt, D
<1>8. ASSUME NEW i \in 0..n - 1 PROVE LeafAt(t, i) \in D /\ Index(t, LeafAt(t, i)) = i
  <2>1. \E p \in D : Index(t, p) = i
    BY <1>1, <1>2, RankIs DEF D
  <2> QED BY <2>1 DEF LeafAt, D
<1>9. n \in Nat
  BY <1>1, FS_CardinalityType DEF D
<1> QED BY <1>1, <1>4, <1>5, <1>6, <1>7, <1>8, <1>9 DEF D

LEMMA Largest ==
  ASSUME NEW T, T \subseteq Nat, T # {}, NEW n \in Nat, \A k \in T : k <= n
  PROVE  Max(T) \in T /\ \A k \in T : k <= Max(T)
<1> DEFINE R == {k \in Nat : n - k \in T}
<1>1. PICK e : e \in T
  OBVIOUS
<1>2. n - e \in R
  <2>1. e \in Nat /\ e <= n
    BY <1>1
  <2>2. n - e \in Nat /\ n - (n - e) = e
    BY <2>1
  <2> QED BY <1>1, <2>2
<1>3. PICK m \in R : \A k \in R : m <= k
  <2>1. R \subseteq Nat /\ R # {}
    BY <1>2
  <2> HIDE DEF R
  <2> QED BY <2>1, Smallest
<1>4. m \in Nat /\ n - m \in T
  BY <1>3
<1>5. ASSUME NEW k \in T PROVE n - m >= k
  <2>1. k \in Nat /\ k <= n
    OBVIOUS
  <2>2. n - k \in Nat /\ n - (n - k) = k
    BY <2>1
  <2>3. n - k \in R
    BY <2>2
  <2>4. m <= n - k
    BY <1>3, <2>3
  <2> QED BY <1>4, <2>1, <2>4
<1>6. \E x \in T : \A y \in T : x >= y
  BY <1>4, <1>5
<1>7. Max(T) \in T /\ \A y \in T : Max(T) >= y
  BY <1>6 DEF Max
<1>8. Max(T) \in Nat
  BY <1>7
<1> QED BY <1>7, <1>8

(* preorder_next goes to the next node. *)
Follows(t, p, n) ==
  /\ n \in Nodes(t) /\ Before(p, n)
  /\ \A q \in Nodes(t) : Before(q, n) => q = p \/ Before(q, p)

LEMMA AfterSplit ==
  ASSUME NEW t, TreeOK(t), NEW p \in DOMAIN t.split, NEW n, n = Append(p, 0)
  PROVE  Follows(t, p, n)
<1>1. /\ p \in Pos /\ n \in Pos /\ n \in Nodes(t)
      /\ Len(p) \in Nat /\ Len(n) = Len(p) + 1 /\ n[Len(p) + 1] = 0
      /\ \A i \in 1..Len(p) : n[i] = p[i]
      /\ \A q \in Nodes(t) : q \in Pos
  <2>1. p \in Pos /\ n \in Nodes(t) /\ (\A q \in Nodes(t) : q \in Pos) /\ 0 \in Bit
    BY NodesAre
  <2>2. /\ n \in Pos /\ Len(n) = Len(p) + 1 /\ Len(p) \in Nat /\ n[Len(p) + 1] = 0
        /\ \A i \in 1..Len(p) : n[i] = p[i]
    BY <2>1, ChildIs
  <2> QED BY <2>1, <2>2
<1>2. Before(p, n)
  <2>1. p # n
    BY <1>1
  <2>2. Len(p) <= Len(n)
    BY <1>1
  <2>3. IsPrefix(p, n)
    BY <1>1, <2>2, PrefixIs
  <2> QED BY <2>1, <2>3 DEF Before
<1>3. ASSUME NEW q \in Pos, Before(q, n), Before(p, q) PROVE FALSE
  <2>0. Len(q) \in Nat /\ \A i \in 1..Len(q) : q[i] \in {0, 1}
    BY DEF Pos, Bit
  <2>1. PICK k \in Nat : /\ k <= Len(p) /\ k < Len(q) /\ \A j \in 1..k : p[j] = q[j]
                         /\ k = Len(p) \/ p[k + 1] < q[k + 1]
    BY <1>1, <1>3, BeforeIs DEF Parts
  <2>2. PICK m \in Nat : /\ m <= Len(q) /\ m < Len(n) /\ \A j \in 1..m : q[j] = n[j]
                         /\ m = Len(q) \/ q[m + 1] < n[m + 1]
    BY <1>1, <1>3, BeforeIs DEF Parts
  <2>3. CASE k = Len(p)
    <3>1. m # Len(q) /\ m <= Len(p)
      BY <1>1, <2>0, <2>1, <2>2, <2>3
    <3>2. m + 1 \in 1..Len(q) /\ q[m + 1] \in {0, 1} /\ q[m + 1] < n[m + 1]
      BY <2>0, <2>2, <3>1
    <3>3. CASE m = Len(p)
      BY <1>1, <3>2, <3>3
    <3>4. CASE m # Len(p)
      <4>1. m + 1 \in 1..Len(p)
        BY <1>1, <3>1, <3>4
      <4>2. n[m + 1] = q[m + 1]
        BY <1>1, <2>1, <2>3, <4>1
      <4>3. \A b : \A a \in {0, 1} : b = a => ~(a < b)
        OBVIOUS
      <4> QED BY <3>2, <4>2, <4>3
    <3> QED BY <3>3, <3>4
  <2>4. CASE k # Len(p)
    <3>1. k + 1 \in 1..Len(p) /\ k < Len(p)
      BY <1>1, <2>1, <2>4
    <3>2. n[k + 1] < q[k + 1] /\ k <= Len(n)
      BY <1>1, <2>1, <2>4, <3>1
    <3>3. \A j \in 1..k : n[j] = q[j]
      BY <1>1, <2>1, <3>1
    <3>4. Parts(n, q, k)
      BY <2>1, <3>2, <3>3 DEF Parts
    <3>5. Before(n, q)
      BY <1>1, <3>4, BeforeIs
    <3> QED BY <1>1, <1>3, <3>5, BeforeIsOrder
  <2> QED BY <2>3, <2>4
<1>4. ASSUME NEW q \in Nodes(t), Before(q, n) PROVE q = p \/ Before(q, p)
  BY <1>1, <1>3, <1>4, BeforeIsOrder
<1> QED BY <1>1, <1>2, <1>4 DEF Follows

LEMMA AfterLeaf ==
  ASSUME NEW t, TreeOK(t), NEW p \in DOMAIN t.leaf
  PROVE  \/ After(t, p) = {} /\ \A q \in Nodes(t) : ~Before(p, q)
         \/ \E n : After(t, p) = {n} /\ Follows(t, p, n)
<1>1. /\ p \in Pos /\ p \in Nodes(t) /\ p \notin DOMAIN t.split
      /\ \A q \in Nodes(t) : q \in Pos
  BY NodesAre
<1>2. Len(p) \in Nat /\ \A i \in 1..Len(p) : p[i] \in {0, 1}
  BY <1>1 DEF Pos, Bit
<1>d. DOMAIN p = 1..Len(p)
  BY <1>1 DEF Pos
<1> DEFINE turns == {i \in DOMAIN p : p[i] = 0}
<1>3. After(t, p) = IF turns = {} THEN {} ELSE {Append(SubSeq(p, 1, Max(turns) - 1), 1)}
  BY <1>1 DEF After
<1>4. \A i : i \in turns <=> i \in 1..Len(p) /\ p[i] = 0
  BY <1>d
<1> HIDE DEF turns
<1>5. ASSUME NEW q \in Nodes(t), Before(p, q)
      PROVE  \E k \in Nat : /\ k < Len(p) /\ k < Len(q) /\ (\A j \in 1..k : p[j] = q[j])
                            /\ k + 1 \in turns /\ q[k + 1] = 1
  <2>0. Len(q) \in Nat /\ \A i \in 1..Len(q) : q[i] \in {0, 1}
    BY <1>1 DEF Pos, Bit
  <2>1. PICK k \in Nat : /\ k <= Len(p) /\ k < Len(q) /\ \A j \in 1..k : p[j] = q[j]
                         /\ k = Len(p) \/ p[k + 1] < q[k + 1]
    BY <1>1, <1>5, BeforeIs DEF Parts
  <2>2. k # Len(p)
    <3> SUFFICES ASSUME k = Len(p) PROVE FALSE
      OBVIOUS
    <3>1. IsPrefix(p, q) /\ p # q
      BY <1>1, <1>2, <2>1, PrefixIs
    <3> QED BY <1>1, <3>1, AboveIsSplit
  <2>3. k + 1 \in 1..Len(p) /\ k + 1 \in 1..Len(q) /\ k < Len(p)
    BY <1>2, <2>0, <2>1, <2>2
  <2>4. p[k + 1] = 0 /\ q[k + 1] = 1
    <3>1. p[k + 1] \in {0, 1} /\ q[k + 1] \in {0, 1} /\ p[k + 1] < q[k + 1]
      BY <1>2, <2>0, <2>1, <2>2, <2>3
    <3> QED BY <3>1
  <2> QED BY <1>4, <2>1, <2>3, <2>4
<1>6. CASE turns = {}
  BY <1>3, <1>5, <1>6
<1>7. CASE turns # {}
  <2> DEFINE m == Max(turns)
             v == SubSeq(p, 1, m - 1)
             n == Append(v, 1)
  <2>1. m \in 1..Len(p) /\ p[m] = 0 /\ \A k \in turns : k <= m
    <3>1. turns \subseteq Nat /\ \A k \in turns : k <= Len(p)
      BY <1>2, <1>4
    <3>2. m \in turns /\ \A k \in turns : k <= m
      BY <1>2, <1>7, <3>1, Largest
    <3> QED BY <1>4, <3>2
  <2> HIDE DEF m
  <2>2. v \in Pos /\ Len(v) = m - 1 /\ \A i \in 1..m - 1 : v[i] = p[i]
    BY <1>1, <1>2, <2>1, SubSeqProperties DEF Pos
  <2> HIDE DEF v
  <2>3. IsPrefix(v, p) /\ v # p
    BY <1>1, <1>2, <2>1, <2>2, PrefixIs
  <2>4. v \in DOMAIN t.split
    BY <1>1, <2>2, <2>3, AboveIsSplit
  <2>5. n \in Nodes(t) /\ n \in Pos /\ Len(n) = m /\ n[m] = 1 /\ \A i \in 1..m - 1 : n[i] = p[i]
    <3>1. 1 \in Bit
      BY DEF Bit
    <3>2. n \in Nodes(t) /\ n \in Pos /\ Len(n) = Len(v) + 1 /\ n[Len(v) + 1] = 1
          /\ \A i \in 1..Len(v) : n[i] = v[i]
      BY <2>2, <2>4, <3>1, NodesAre, ChildIs
    <3> HIDE DEF n
    <3>3. Len(v) + 1 = m
      BY <2>1, <2>2
    <3> QED BY <2>2, <3>2, <3>3
  <2>6. After(t, p) = {n}
    BY <1>3, <1>7 DEF m, v
  <2> HIDE DEF n
  <2>7. Before(p, n)
    <3>1. m - 1 \in Nat /\ m - 1 <= Len(p) /\ m - 1 < Len(n) /\ p[(m - 1) + 1] < n[(m - 1) + 1]
          /\ \A j \in 1..m - 1 : p[j] = n[j]
      BY <1>2, <2>1, <2>5
    <3> QED BY <1>1, <2>5, <3>1, BeforeIs DEF Parts
  <2>8. ASSUME NEW q \in Nodes(t), Before(q, n) PROVE q = p \/ Before(q, p)
    <3> SUFFICES ASSUME Before(p, q) PROVE FALSE
      BY <1>1, BeforeIsOrder
    <3>1. PICK k \in Nat : /\ k < Len(p) /\ k < Len(q) /\ (\A j \in 1..k : p[j] = q[j])
                           /\ k + 1 \in turns /\ q[k + 1] = 1
      BY <1>5
    <3>2. k + 1 <= m /\ p[k + 1] = 0 /\ Len(q) \in Nat /\ q \in Pos
      BY <1>1, <1>4, <2>1, <3>1 DEF Pos
    <3>3. CASE k + 1 = m
      <4>1. \A i \in 1..m : n[i] = q[i]
        <5>1. ASSUME NEW i \in 1..m PROVE n[i] = q[i]
          <6>1. CASE i = m
            BY <2>5, <3>1, <3>3, <6>1
          <6>2. CASE i # m
            <7>1. i \in 1..k /\ i \in 1..m - 1
              BY <2>1, <3>3, <6>2
            <7> QED BY <2>5, <3>1, <7>1
          <6> QED BY <6>1, <6>2
        <5> QED BY <5>1
      <4>2. IsPrefix(n, q)
        BY <1>1, <2>1, <2>5, <3>1, <3>2, <3>3, <4>1, PrefixIs
      <4>3. n = q \/ Before(n, q)
        BY <4>2 DEF Before
      <4> QED BY <2>5, <2>8, <3>2, <4>3, BeforeIsOrder
    <3>4. CASE k + 1 # m
      <4>1. k + 1 \in 1..m - 1 /\ k <= Len(n)
        BY <2>1, <2>5, <3>2, <3>4
      <4>2. n[k + 1] < q[k + 1]
        BY <2>5, <3>1, <3>2, <4>1
      <4>3. \A j \in 1..k : n[j] = q[j]
        BY <2>5, <3>1, <4>1
      <4>4. Before(n, q)
        BY <2>5, <3>1, <3>2, <4>1, <4>2, <4>3, BeforeIs DEF Parts
      <4> QED BY <2>5, <2>8, <3>2, <4>4, BeforeIsOrder
    <3> QED BY <3>3, <3>4
  <2> QED BY <2>5, <2>6, <2>7, <2>8 DEF Follows
<1> QED BY <1>6, <1>7

LEMMA AfterIs ==
  ASSUME NEW t, TreeOK(t), NEW p \in Nodes(t)
  PROVE  /\ After(t, p) \subseteq Nodes(t)
         /\ \/ After(t, p) = {} /\ \A q \in Nodes(t) : ~Before(p, q)
            \/ \E n : After(t, p) = {n} /\ Follows(t, p, n)
<1>1. CASE p \in DOMAIN t.split
  <2>1. After(t, p) = {Append(p, 0)}
    BY <1>1 DEF After
  <2>2. Follows(t, p, Append(p, 0))
    BY <1>1, AfterSplit
  <2> QED BY <2>1, <2>2 DEF Follows
<1>2. CASE p \in DOMAIN t.leaf
  BY <1>2, AfterLeaf DEF Follows
<1> QED BY <1>1, <1>2, NodesAre

LEMMA Resize1Is ==
  ASSUME NEW t, TreeOK(t), NEW s \in SizeType, NEW w \in [t : Shape(t), at : SUBSET Nodes(t)]
  PROVE  Resize1(w, s) \in [t : Shape(t), at : SUBSET Nodes(t)]
<1>1. CASE w.at = {}
  BY <1>1 DEF Resize1
<1>2. CASE w.at # {}
  <2> DEFINE p == CHOOSE q \in w.at : TRUE
             u == ApplySize(w.t, p, Allotted(w.t, s, p))
  <2>1. p \in w.at
    BY <1>2
  <2>2. Resize1(w, s) = [t |-> u, at |-> After(u, p)]
    BY <1>2 DEF Resize1
  <2> HIDE DEF p
  <2>3. p \in Nodes(t) /\ w.t \in Shape(t)
    BY <2>1
  <2>4. TreeOK(w.t) /\ Nodes(w.t) = Nodes(t) /\ Shape(w.t) = Shape(t)
    BY <2>3, ShapeIs
  <2>5. Allotted(w.t, s, p) \in SizeType
    BY <2>3, <2>4, AllottedIs
  <2>6. u \in Shape(t)
    BY <2>4, <2>5, ApplySizeIs
  <2> HIDE DEF u
  <2>7. TreeOK(u) /\ Nodes(u) = Nodes(t)
    BY <2>6, ShapeIs
  <2>8. After(u, p) \subseteq Nodes(t)
    BY <2>3, <2>7, AfterIs
  <2> QED BY <2>2, <2>6, <2>8
<1> QED BY <1>1, <1>2

LEMMA CascadeIs ==
  ASSUME NEW t, TreeOK(t), NEW s \in SizeType, NEW p \in Nodes(t)
  PROVE  Cascade(t, s, p) \in Shape(t)
<1> DEFINE N == Cardinality(Nodes(t))
           S == [t : Shape(t), at : SUBSET Nodes(t)]
           a == [t |-> t, at |-> After(t, p)]
           eq(f) == f = [k \in 0..N |-> IF k = 0 THEN a ELSE Resize1(f[k - 1], s)]
           f == CHOOSE f : eq(f)
           G == [w \in S |-> Resize1(w, s)]
<1>1. Cascade(t, s, p) = f[N].t
  BY DEF Cascade
<1>2. N \in Nat
  BY TreeIs, FS_CardinalityType
<1>3. a \in S
  <2>1. t \in Shape(t) /\ After(t, p) \subseteq Nodes(t)
    BY ShapeIs, AfterIs
  <2> QED BY <2>1
<1>4. \A w \in S : Resize1(w, s) \in S
  BY Resize1Is
<1>5. G \in [S -> S] /\ \A w \in S : G[w] = Resize1(w, s)
  <2> HIDE DEF S
  <2> QED BY <1>4
<1> HIDE DEF N, S, a, G
<1>6. \E g : eq(g)
  <2>a. PICK g : Runs(S, a, G, N, g)
    BY <1>2, <1>3, <1>5, LoopRecursion
  <2>1. g \in [0..N -> S] /\ g[0] = a /\ \A k \in 1..N : g[k] = G[g[k - 1]]
    BY <2>a DEF Runs
  <2>2. ASSUME NEW k \in 0..N PROVE g[k] = IF k = 0 THEN a ELSE Resize1(g[k - 1], s)
    <3>1. CASE k = 0
      BY <2>1, <3>1
    <3>2. CASE k # 0
      <4>1. k \in 1..N /\ k - 1 \in 0..N
        BY <1>2, <3>2
      <4>2. g[k - 1] \in S
        BY <2>1, <4>1
      <4> QED BY <1>5, <2>1, <3>2, <4>1, <4>2
    <3> QED BY <3>1, <3>2
  <2>3. g = [k \in 0..N |-> g[k]]
    BY <2>1
  <2> QED BY <2>2, <2>3
<1>7. eq(f)
  <2> HIDE DEF eq
  <2> QED BY <1>6
<1> HIDE DEF f
<1>8. f[0] = a /\ \A k \in 1..N : f[k] = Resize1(f[k - 1], s)
  BY <1>2, <1>7
<1>9. 0..N \subseteq {k \in 0..N : f[k] \in S}
  <2> DEFINE T == {k \in 0..N : f[k] \in S}
  <2>1. 0 \in T
    BY <1>2, <1>3, <1>8
  <2>2. \A k \in 1..N : k - 1 \in T => k \in T
    BY <1>2, <1>4, <1>8
  <2> HIDE DEF T
  <2>3. 0..N \subseteq T
    BY <1>2, <2>1, <2>2, LoopInduction
  <2> QED BY <2>3 DEF T
<1>10. f[N] \in S
  BY <1>2, <1>9
<1> QED BY <1>1, <1>10 DEF S

-----------------------------------------------------------------------------
(* The sizes the operations ask for. *)
LEMMA AtLeastIs ==
  ASSUME NEW t, TreeOK(t), Nodes(t) # {}, NEW s \in SizeType
  PROVE  AtLeast(t, s) \in SizeType
<1>1. ASSUME NEW x \in Axes PROVE Max({s[x], MinSize(t, x)[<<>>]}) \in Nat
  <2>1. MinSize(t, x)[<<>>] \in Nat
    BY MinSizeIs, RootIsNode
  <2>2. s[x] \in Nat
    BY DEF SizeType
  <2> QED BY <2>1, <2>2, MaxIs
<1> QED BY <1>1 DEF AtLeast, SizeType

LEMMA ResizedIs ==
  ASSUME NEW t, TreeOK(t), Nodes(t) # {}, NEW from \in SizeType, NEW s \in SizeType
  PROVE  Resized(t, from, s) \in Outcomes(t)
<1> DEFINE new == AtLeast(t, s)
           a == new["cols"] - from["cols"]
           b == new["rows"] - from["rows"]
           u == Adjust(t, "cols", a)
<1>1. "cols" \in Axes /\ "rows" \in Axes
  BY DEF Axes
<1>2. a \in Int /\ b \in Int
  <2>1. new \in SizeType
    BY AtLeastIs
  <2> HIDE DEF new
  <2> QED BY <1>1, <2>1 DEF SizeType
<1>3. Resized(t, from, s) = Adjust(u, "rows", b)
  BY DEF Resized
<1> HIDE DEF a, b
<1>4. u \in Outcomes(t)
  BY <1>1, <1>2, AdjustIsTree
<1> HIDE DEF u
<1>5. CASE u = NoTree
  <2>1. Adjust(u, "rows", b) = NoTree
    BY <1>5 DEF Adjust
  <2> QED BY <1>3, <2>1 DEF Outcomes
<1>6. CASE u # NoTree
  <2>1. TreeOK(u) /\ Shape(u) = Shape(t)
    BY <1>4, <1>6, ShapeIs DEF Outcomes
  <2>2. Adjust(u, "rows", b) \in Outcomes(u)
    BY <1>1, <1>2, <2>1, AdjustIsTree
  <2> QED BY <1>3, <2>1, <2>2 DEF Outcomes
<1> QED BY <1>5, <1>6

LEMMA SplitInfoIs ==
  ASSUME NEW s \in SizeType, NEW x \in Axes, NEW b, NEW ask \in Requests
  PROVE  SplitInfo(s, x, b, ask) \in SplitType
<1> DEFINE n == IF ask.unit = "percent" THEN (s[x] * ask.n) \div 100 ELSE ask.n
           target == Max({1, n})
           remain == Less(s[x], target + Gutter[x])
           at(m) == [s EXCEPT ![x] = m]
<1>1. s[x] \in Nat /\ ask.n \in Nat /\ Gutter[x] \in Nat
  <2>1. s[x] \in Nat
    BY DEF SizeType
  <2>2. ask \in [unit : {"percent", "cells"}, n : Nat]
    BY SplitAssumption
  <2>3. Gutter[x] \in Nat
    BY SizesAre
  <2> QED BY <2>1, <2>2, <2>3
<1>2. n \in Nat
  <2>1. \A a, c \in Nat : a * c \in Nat
    OBVIOUS
  <2>2. s[x] * ask.n \in Nat
    BY <1>1, <2>1
  <2>3. \A a \in Nat : a \div 100 \in Nat
    OBVIOUS
  <2>4. (s[x] * ask.n) \div 100 \in Nat
    BY <2>2, <2>3
  <2> QED BY <1>1, <2>4
<1> HIDE DEF n
<1>3. target \in Nat
  BY <1>2, MaxIs
<1> HIDE DEF target
<1>4. remain \in Nat
  BY <1>1, <1>3 DEF Less
<1> HIDE DEF remain
<1>5. \A m \in Nat : at(m) \in SizeType
  BY DEF SizeType
<1>6. SplitInfo(s, x, b, ask) = [axis |-> x, first |-> at(IF b = 1 THEN remain ELSE target),
                                 second |-> at(IF b = 1 THEN target ELSE remain)]
  BY DEF SplitInfo, n, target, remain
<1> HIDE DEF at
<1> QED BY <1>3, <1>4, <1>5, <1>6 DEF SplitType

LEMMA ShiftedIs ==
  ASSUME NEW t, TreeOK(t), NEW p \in DOMAIN t.split, NEW d \in Int
  PROVE  Shifted(t, p, d) \in Outcomes(t)
<1> DEFINE s == t.split[p]
           x == s.axis
           total == Extent(s)[x]
           a == Max({s.first[x] + d, 1})
           first == Min({a, total - 2})
           second == Less(total, first + Gutter[x])
<1>1. s \in SplitType
  BY DEF TreeOK
<1>2. x \in Axes /\ s.first \in SizeType /\ Extent(s) \in SizeType
  BY <1>1, SizesAre
<1> HIDE DEF s
<1>3. total \in Nat /\ s.first[x] \in Nat /\ Gutter[x] \in Nat
  BY <1>2, SizesAre DEF SizeType
<1>4. first \in Int
  <2>1. s.first[x] + d \in Int
    BY <1>3
  <2>2. a \in Int
    <3> HIDE DEF x
    <3> QED BY <2>1, MaxIs
  <2> HIDE DEF a, total
  <2>3. \A v \in Int, w \in Int : Min({v, w}) \in Int
    <3>1. ASSUME NEW v \in Int, NEW w \in Int PROVE Min({v, w}) \in {v, w}
      <4>1. \E m \in {v, w} : \A y \in {v, w} : m <= y
        OBVIOUS
      <4> QED BY <4>1 DEF Min
    <3> QED BY <3>1
  <2> QED BY <1>3, <2>2, <2>3
<1>5. Shifted(t, p, d) =
        IF first < 0 THEN NoTree
        ELSE [t EXCEPT !.split[p].first[x] = first, !.split[p].second[x] = second]
  BY DEF Shifted, s
<1>6. CASE first < 0
  BY <1>5, <1>6 DEF Outcomes
<1>7. CASE ~(first < 0)
  <2>1. first \in Nat
    <3> HIDE DEF first
    <3> QED BY <1>4, <1>7
  <2>2. second \in Nat
    <3> HIDE DEF first, total
    <3> QED BY <1>3, <2>1 DEF Less
  <2> HIDE DEF first, second, x
  <2> DEFINE s1 == [s EXCEPT !.first[x] = first]
             s2 == [s1 EXCEPT !.second[x] = second]
             t1 == [t EXCEPT !.split[p] = s1]
  <2>3. s1 \in SplitType
    BY <1>1, <1>2, <2>1, NewSideIsSplit
  <2>4. s2 \in SplitType
    <3> HIDE DEF s1
    <3> QED BY <1>2, <2>2, <2>3, NewSideIsSplit
  <2>5. t1 \in Shape(t)
    <3> HIDE DEF s1
    <3> QED BY <2>3, NewSplitInShape
  <2>6. [t EXCEPT !.split[p].first[x] = first, !.split[p].second[x] = second]
          = [t1 EXCEPT !.split[p].second[x] = second]
    BY DEF s
  <2>7. t1.split[p] = s1
    BY DEF TreeOK, s
  <2>8. [t1 EXCEPT !.split[p].second[x] = second] = [t1 EXCEPT !.split[p] = s2]
    BY <2>7
  <2> HIDE DEF t1, s2
  <2>9. TreeOK(t1) /\ p \in DOMAIN t1.split /\ Shape(t1) = Shape(t)
    BY <2>5, ShapeIs
  <2>10. [t1 EXCEPT !.split[p] = s2] \in Shape(t)
    BY <2>4, <2>9, NewSplitInShape
  <2> QED BY <1>5, <1>7, <2>6, <2>8, <2>10 DEF Outcomes
<1> QED BY <1>6, <1>7

-----------------------------------------------------------------------------
(* Taking a pane out. *)
LEMMA CutKeepsOrder ==
  ASSUME NEW t, TreeOK(t), NEW q \in DOMAIN t.split, NEW b \in Bit, NEW at, at = CutMap(t, q, b),
         NEW r \in DOMAIN at, NEW s \in DOMAIN at, Before(r, s)
  PROVE  Before(at[r], at[s])
<1> DEFINE n == Len(q)
<1>1. /\ q \in Pos /\ r \in Pos /\ s \in Pos /\ at[r] \in Pos /\ at[s] \in Pos
      /\ ~IsPrefix(q, r) => at[r] = r
      /\ ~IsPrefix(q, s) => at[s] = s
      /\ IsPrefix(q, r) => IsPrefix(Append(q, b), r) /\ at[r] = RemoveAt(r, n + 1)
      /\ IsPrefix(q, s) => IsPrefix(Append(q, b), s) /\ at[s] = RemoveAt(s, n + 1)
  BY CutMapIs
<1>2. n \in Nat /\ Len(r) \in Nat /\ Len(s) \in Nat
  BY <1>1 DEF Pos
<1>3. PICK k \in Nat : /\ k <= Len(r) /\ k < Len(s) /\ \A j \in 1..k : r[j] = s[j]
                       /\ k = Len(r) \/ r[k + 1] < s[k + 1]
  BY <1>1, BeforeIs DEF Parts
<1>4. ASSUME NEW v \in {r, s}, IsPrefix(q, v)
      PROVE  /\ Len(at[v]) = Len(v) - 1 /\ n < Len(v) /\ v[n + 1] = b
             /\ \A i \in 1..n : v[i] = q[i] /\ at[v][i] = q[i]
             /\ \A i \in 1..Len(v) - 1 : at[v][i] = IF i <= n THEN v[i] ELSE v[i + 1]
  <2>1. v \in Pos /\ IsPrefix(Append(q, b), v) /\ at[v] = RemoveAt(v, n + 1)
    BY <1>1, <1>4
  <2>2. CutFrom(q, b, v, at[v])
    BY <1>1, <2>1, CutElements
  <2> QED BY <2>2 DEF CutFrom
<1>5. ASSUME NEW v \in Pos, n <= Len(v), \A i \in 1..n : v[i] = q[i] PROVE IsPrefix(q, v)
  BY <1>1, <1>5, PrefixIs
<1> HIDE DEF n
<1>6. CASE IsPrefix(q, r) /\ IsPrefix(q, s)
  <2>1. /\ Len(at[r]) = Len(r) - 1 /\ n < Len(r) /\ r[n + 1] = b
        /\ \A i \in 1..n : r[i] = q[i]
        /\ \A i \in 1..Len(r) - 1 : at[r][i] = IF i <= n THEN r[i] ELSE r[i + 1]
    BY <1>4, <1>6
  <2>2. /\ Len(at[s]) = Len(s) - 1 /\ n < Len(s) /\ s[n + 1] = b
        /\ \A i \in 1..n : s[i] = q[i]
        /\ \A i \in 1..Len(s) - 1 : at[s][i] = IF i <= n THEN s[i] ELSE s[i + 1]
    BY <1>4, <1>6
  <2>0. \A i \in 1..n + 1 : r[i] = s[i] /\ r[i] \in {0, 1}
    <3>1. ASSUME NEW i \in 1..n + 1 PROVE r[i] = s[i] /\ r[i] \in {0, 1}
      <4>1. i \in 1..Len(r)
        BY <1>2, <2>1
      <4>2. r[i] \in {0, 1}
        BY <1>1, <4>1 DEF Pos, Bit
      <4>3. i \in 1..n \/ i = n + 1
        BY <1>2
      <4> QED BY <2>1, <2>2, <4>2, <4>3
    <3> QED BY <3>1
  <2>3. k >= n + 1
    <3> SUFFICES ASSUME k < n + 1 PROVE FALSE
      BY <1>2
    <3>1. k # Len(r) /\ k + 1 \in 1..n + 1
      BY <1>2, <2>1
    <3>2. r[k + 1] < s[k + 1] /\ r[k + 1] = s[k + 1] /\ r[k + 1] \in {0, 1}
      BY <1>3, <2>0, <3>1
    <3>3. \A c : \A a \in {0, 1} : a = c => ~(a < c)
      OBVIOUS
    <3> QED BY <3>2, <3>3
  <2>4. k - 1 \in Nat /\ k - 1 <= Len(at[r]) /\ k - 1 < Len(at[s])
    BY <1>2, <1>3, <2>1, <2>2, <2>3
  <2>5. ASSUME NEW j \in 1..k - 1 PROVE at[r][j] = at[s][j]
    <3>1. j \in 1..Len(r) - 1 /\ j \in 1..Len(s) - 1 /\ j \in 1..k /\ j + 1 \in 1..k
      BY <1>2, <1>3
    <3> QED BY <1>3, <2>1, <2>2, <3>1
  <2>6. k - 1 = Len(at[r]) \/ at[r][(k - 1) + 1] < at[s][(k - 1) + 1]
    <3>1. CASE k = Len(r)
      BY <2>1, <3>1
    <3>2. CASE k # Len(r)
      <4>1. k \in 1..Len(r) - 1 /\ k \in 1..Len(s) - 1 /\ ~(k <= n) /\ (k - 1) + 1 = k
        BY <1>2, <1>3, <2>3, <3>2
      <4>2. at[r][k] = r[k + 1] /\ at[s][k] = s[k + 1]
        BY <2>1, <2>2, <4>1
      <4> QED BY <1>3, <3>2, <4>1, <4>2
    <3> QED BY <3>1, <3>2
  <2>7. Parts(at[r], at[s], k - 1)
    BY <2>4, <2>5, <2>6 DEF Parts
  <2> QED BY <1>1, <2>4, <2>7, BeforeIs
<1>7. CASE ~IsPrefix(q, r) /\ ~IsPrefix(q, s)
  BY <1>1, <1>7
<1>8. CASE IsPrefix(q, r) /\ ~IsPrefix(q, s)
  <2>1. /\ Len(at[r]) = Len(r) - 1 /\ n < Len(r)
        /\ \A i \in 1..n : r[i] = q[i] /\ at[r][i] = q[i]
    BY <1>4, <1>8
  <2>2. k < n
    <3> SUFFICES ASSUME n <= k PROVE FALSE
      BY <1>2
    <3>1. \A i \in 1..n : s[i] = q[i]
      BY <1>2, <1>3, <2>1
    <3> QED BY <1>1, <1>2, <1>3, <1>5, <1>8, <3>1
  <2>3. k + 1 \in 1..n /\ k # Len(r) /\ k <= Len(at[r])
    BY <1>2, <2>1, <2>2
  <2>4. at[r][k + 1] < s[k + 1]
    BY <1>3, <2>1, <2>3
  <2>5. \A j \in 1..k : at[r][j] = s[j]
    BY <1>2, <1>3, <2>1, <2>2
  <2>6. Parts(at[r], s, k)
    BY <1>3, <2>3, <2>4, <2>5 DEF Parts
  <2> QED BY <1>1, <1>8, <2>6, BeforeIs
<1>9. CASE ~IsPrefix(q, r) /\ IsPrefix(q, s)
  <2>1. /\ Len(at[s]) = Len(s) - 1 /\ n < Len(s)
        /\ \A i \in 1..n : s[i] = q[i] /\ at[s][i] = q[i]
    BY <1>4, <1>9
  <2>2. k < n
    <3> SUFFICES ASSUME n <= k PROVE FALSE
      BY <1>2
    <3>1. \A i \in 1..n : r[i] = q[i]
      BY <1>2, <1>3, <2>1
    <3>2. n <= Len(r)
      BY <1>2, <1>3
    <3> QED BY <1>1, <1>5, <1>9, <3>1, <3>2
  <2>3. k + 1 \in 1..n /\ k < Len(at[s])
    BY <1>2, <2>1, <2>2
  <2>4. k = Len(r) \/ r[k + 1] < at[s][k + 1]
    BY <1>3, <2>1, <2>3
  <2>5. \A j \in 1..k : r[j] = at[s][j]
    BY <1>2, <1>3, <2>1, <2>2
  <2>6. Parts(r, at[s], k)
    BY <1>3, <2>3, <2>4, <2>5 DEF Parts
  <2> QED BY <1>1, <1>9, <2>6, BeforeIs
<1> QED BY <1>6, <1>7, <1>8, <1>9

LEMMA ChildAbove ==
  ASSUME NEW q \in Pos, NEW r \in Pos, IsPrefix(q, r), q # r
  PROVE  \E c \in Bit : IsPrefix(Append(q, c), r)
<1>1. Len(q) \in Nat /\ Len(r) \in Nat /\ \A i \in 1..Len(r) : r[i] \in Bit
  BY DEF Pos
<1>2. Len(q) <= Len(r) /\ \A i \in 1..Len(q) : q[i] = r[i]
  BY PrefixIs
<1>3. Len(q) # Len(r)
  BY <1>2, SamePosition
<1> DEFINE c == r[Len(q) + 1]
           p == Append(q, c)
<1>4. c \in Bit /\ Len(q) + 1 \in 1..Len(r)
  BY <1>1, <1>2, <1>3
<1>c. c = r[Len(q) + 1]
  OBVIOUS
<1> HIDE DEF c
<1>5. p \in Pos /\ Len(p) = Len(q) + 1 /\ p[Len(q) + 1] = c /\ \A i \in 1..Len(q) : p[i] = q[i]
  BY <1>4, ChildIs
<1> HIDE DEF p
<1>6. \A i \in 1..Len(q) + 1 : p[i] = r[i]
  BY <1>1, <1>2, <1>5, <1>c
<1>7. Len(p) <= Len(r)
  BY <1>1, <1>2, <1>3, <1>5
<1>8. IsPrefix(p, r)
  BY <1>5, <1>6, <1>7, PrefixIs
<1> QED BY <1>4, <1>8 DEF p

(* The panes of v are in the order they have in t. *)
SameOrder(t, v) ==
  \A x, y \in PaneSet(v) : Before(PathOf(v, x), PathOf(v, y)) <=> Before(PathOf(t, x), PathOf(t, y))

(* u is t without the leaf p, the child of q. *)
Takes(t, q, p, u) ==
  /\ TreeOK(u) /\ q \in Nodes(u)
  /\ PaneSet(u) = PaneSet(t) \ {t.leaf[p]}
  /\ SameOrder(t, u)

LEMMA UnsplitTakes ==
  ASSUME NEW t, TreeOK(t), NEW q \in DOMAIN t.split, NEW c \in Bit, NEW p, p = Append(q, c), p \in DOMAIN t.leaf,
         NEW u, u = Unsplit(t, q, 1 - c)
  PROVE  Takes(t, q, p, u)
<1> DEFINE b == 1 - c
           at == CutMap(t, q, b)
<1>0. b \in Bit /\ b # c
  BY DEF Bit
<1> HIDE DEF b
<1>a. at = CutMap(t, q, b)
  OBVIOUS
<1> HIDE DEF at
<1>1. u = Relocated(t, at) /\ Fits(t, at) /\ TreeOK(u) /\ Nodes(u) = Range(at)
  BY <1>0, <1>a, UnsplitIsTree DEF b
<1>2. q \in Pos /\ p \in Pos /\ \A r \in Nodes(t) : r \in Pos
  BY TreeIs
<1>3. q \in Nodes(u)
  <2>1. Append(q, b) \in DOMAIN at /\ at[Append(q, b)] = q
    BY <1>0, <1>a, CutMapFits DEF CutFits
  <2> QED BY <1>1, <2>1 DEF Range
<1>4. /\ \A r \in DOMAIN at : r \in Nodes(t) /\ (IsPrefix(q, r) => IsPrefix(Append(q, b), r))
      /\ \A r \in Nodes(t) : r \notin DOMAIN at => IsPrefix(q, r) /\ ~IsPrefix(Append(q, b), r)
  BY <1>0, <1>a, CutMapIs
<1>5. \A r \in DOMAIN t.leaf : r \in DOMAIN at <=> r # p
  <2>1. p \notin DOMAIN at
    <3> SUFFICES ASSUME p \in DOMAIN at PROVE FALSE
      OBVIOUS
    <3>1. IsPrefix(q, p)
      BY <1>2, PrefixOfChild
    <3>2. IsPrefix(Append(q, b), p)
      BY <1>4, <3>1
    <3>3. Append(q, b) \in Pos
      BY <1>0, <1>2, ChildIs
    <3>4. Append(q, b) = Append(q, c) \/ IsPrefix(Append(q, b), q)
      BY <1>2, <3>2, <3>3, PrefixOfChild
    <3>5. Append(q, b) # Append(q, c)
      BY <1>0, <1>2, ChildrenDiffer
    <3>6. Len(Append(q, b)) = Len(q) + 1 /\ Len(q) \in Nat
      BY <1>0, <1>2, ChildIs
    <3>7. IsPrefix(Append(q, b), q) => Len(Append(q, b)) <= Len(q)
      BY <1>2, <3>3, PrefixOrder
    <3> QED BY <3>4, <3>5, <3>6, <3>7
  <2>2. ASSUME NEW r \in DOMAIN t.leaf, r \notin DOMAIN at PROVE r = p
    <3>1. r \in Nodes(t) /\ r \in Pos /\ r # q
      BY TreeIs
    <3>2. IsPrefix(q, r) /\ ~IsPrefix(Append(q, b), r)
      BY <1>4, <2>2, <3>1
    <3>3. PICK d \in Bit : IsPrefix(Append(q, d), r)
      BY <1>2, <3>1, <3>2, ChildAbove
    <3>4. d = c
      BY <1>0, <3>2, <3>3 DEF Bit
    <3>5. IsPrefix(p, r)
      BY <3>3, <3>4
    <3>6. p \notin DOMAIN t.split
      BY TreeIs
    <3> QED BY <1>2, <3>1, <3>5, <3>6, AboveIsSplit
  <2> QED BY <2>1, <2>2
<1>6. IsInjective(at)
  BY <1>1 DEF Fits
<1>7. /\ \A r \in DOMAIN at : r \in DOMAIN t.leaf => at[r] \in DOMAIN u.leaf /\ u.leaf[at[r]] = t.leaf[r]
      /\ \A s \in DOMAIN u.leaf : \E r \in DOMAIN at : r \in DOMAIN t.leaf /\ s = at[r]
  BY <1>1, <1>6, RelocatedIs
<1>8. \A r, s \in DOMAIN t.leaf : t.leaf[r] = t.leaf[s] => r = s
  BY DEF TreeOK, IsInjective
<1>9. PaneSet(u) = PaneSet(t) \ {t.leaf[p]}
  <2>1. ASSUME NEW x \in PaneSet(u) PROVE x \in PaneSet(t) \ {t.leaf[p]}
    <3>1. PICK s \in DOMAIN u.leaf : x = u.leaf[s]
      BY DEF PaneSet
    <3>2. PICK r \in DOMAIN at : r \in DOMAIN t.leaf /\ s = at[r]
      BY <1>7
    <3>3. x = t.leaf[r] /\ r # p
      BY <1>5, <1>7, <3>1, <3>2
    <3> QED BY <1>8, <3>2, <3>3 DEF PaneSet
  <2>2. ASSUME NEW x \in PaneSet(t), x # t.leaf[p] PROVE x \in PaneSet(u)
    <3>1. PICK r \in DOMAIN t.leaf : x = t.leaf[r]
      BY DEF PaneSet
    <3>2. r \in DOMAIN at
      BY <1>5, <2>2, <3>1
    <3>3. at[r] \in DOMAIN u.leaf /\ u.leaf[at[r]] = x
      BY <1>7, <3>1, <3>2
    <3> QED BY <3>3 DEF PaneSet
  <2> QED BY <2>1, <2>2
<1>10. SameOrder(t, u)
  <2>1. ASSUME NEW x \in PaneSet(u)
        PROVE  PathOf(t, x) \in DOMAIN at /\ PathOf(u, x) = at[PathOf(t, x)]
    <3>1. PathOf(t, x) \in DOMAIN t.leaf /\ t.leaf[PathOf(t, x)] = x
      BY <1>9, IndexIs
    <3>2. PathOf(t, x) \in DOMAIN at
      BY <1>5, <1>9, <3>1
    <3>3. at[PathOf(t, x)] \in DOMAIN u.leaf /\ u.leaf[at[PathOf(t, x)]] = x
      BY <1>7, <3>1, <3>2
    <3>4. PathOf(u, u.leaf[at[PathOf(t, x)]]) = at[PathOf(t, x)]
      BY <1>1, <3>3, IndexIs
    <3> QED BY <3>2, <3>3, <3>4
  <2>2. ASSUME NEW r \in DOMAIN at, NEW s \in DOMAIN at PROVE Before(at[r], at[s]) <=> Before(r, s)
    <3>1. r \in Pos /\ s \in Pos /\ at[r] \in Pos /\ at[s] \in Pos
      BY <1>1, <1>2 DEF Fits
    <3>2. Before(r, s) => Before(at[r], at[s])
      BY <1>0, <1>a, CutKeepsOrder
    <3>3. Before(s, r) => Before(at[s], at[r])
      BY <1>0, <1>a, CutKeepsOrder
    <3> QED BY <3>1, <3>2, <3>3, BeforeIsOrder
  <2> QED BY <2>1, <2>2 DEF SameOrder
<1> QED BY <1>1, <1>3, <1>9, <1>10 DEF Takes

LEMMA ShapeKeepsPanes ==
  ASSUME NEW t, TreeOK(t), NEW u \in Shape(t)
  PROVE  /\ PaneSet(u) = PaneSet(t) /\ \A x : PathOf(u, x) = PathOf(t, x)
         /\ \A v : SameOrder(v, t) => SameOrder(v, u)
<1>1. u.leaf = t.leaf
  BY ShapeIs
<1>2. PaneSet(u) = PaneSet(t) /\ \A x : PathOf(u, x) = PathOf(t, x)
  BY <1>1 DEF PaneSet, PathOf
<1> QED BY <1>2 DEF SameOrder

LEMMA WithoutIs ==
  ASSUME NEW t, TreeOK(t), NEW p \in DOMAIN t.leaf, NEW v, v = Without(t, p)
  PROVE  /\ TreeOK(v) /\ PaneSet(v) = PaneSet(t) \ {t.leaf[p]} /\ SameOrder(t, v)
         /\ p # <<>> => Front(p) \in Nodes(v)
<1>1. CASE p = <<>>
  <2>1. v = NoTree
    BY <1>1 DEF Without
  <2>2. \A r \in DOMAIN t.leaf : r = p
    <3> SUFFICES ASSUME NEW r \in DOMAIN t.leaf PROVE r = p
      OBVIOUS
    <3>1. r \in Nodes(t) /\ r \in Pos /\ p \in Pos /\ p \notin DOMAIN t.split
      BY TreeIs
    <3>2. IsPrefix(p, r)
      BY <1>1, <3>1, PrefixOrder
    <3> QED BY <3>1, <3>2, AboveIsSplit
  <2>3. PaneSet(v) = {}
    BY <2>1 DEF NoTree, PaneSet
  <2>4. PaneSet(t) = {t.leaf[p]}
    BY <2>2 DEF PaneSet
  <2> QED BY <1>1, <2>1, <2>3, <2>4, NoTreeOK DEF SameOrder
<1>2. CASE p # <<>>
  <2> DEFINE q == Front(p)
             c == Last(p)
             u == Unsplit(t, q, 1 - c)
  <2>1. q \in DOMAIN t.split /\ c \in Bit /\ p = Append(q, c)
    BY <1>2, TreeIs
  <2>2. v = ApplySize(u, q, Extent(t.split[q]))
    BY <1>2 DEF Without
  <2>u. u = Unsplit(t, q, 1 - c)
    OBVIOUS
  <2> HIDE DEF q, c, u
  <2>3. TreeOK(u) /\ q \in Nodes(u) /\ PaneSet(u) = PaneSet(t) \ {t.leaf[p]} /\ SameOrder(t, u)
    <3>1. Takes(t, q, p, u)
      BY <2>1, <2>u, UnsplitTakes
    <3> QED BY <3>1 DEF Takes
  <2>4. Extent(t.split[q]) \in SizeType
    <3>1. t.split[q] \in SplitType
      BY <2>1 DEF TreeOK
    <3> QED BY <3>1, SizesAre
  <2>5. v \in Shape(u)
    BY <2>2, <2>3, <2>4, ApplySizeIs
  <2>6. TreeOK(v) /\ Nodes(v) = Nodes(u) /\ PaneSet(v) = PaneSet(u) /\ SameOrder(t, v)
    BY <2>3, <2>5, ShapeIs, ShapeKeepsPanes
  <2> QED BY <2>3, <2>6 DEF q
<1> QED BY <1>1, <1>2

-----------------------------------------------------------------------------
(* The cursor of a pass. *)
LEMMA FirstRank ==
  ASSUME NEW D, D \subseteq Pos
  PROVE  <<>> \in Pos /\ Rank(D, <<>>) = 0 /\ \A q \in D : ~Before(q, <<>>)
<1>1. <<>> \in Pos /\ Len(<<>>) = 0
  BY DEF Pos
<1>2. ASSUME NEW q \in D PROVE ~Before(q, <<>>)
  <2>1. q \in Pos
    OBVIOUS
  <2> SUFFICES ASSUME Before(q, <<>>) PROVE FALSE
    OBVIOUS
  <2>2. PICK k \in Nat : Parts(q, <<>>, k)
    BY <1>1, <2>1, BeforeIs
  <2>3. k < Len(<<>>)
    BY <2>2 DEF Parts
  <2> QED BY <1>1, <2>3
<1>3. {q \in D : Before(q, <<>>)} = {}
  BY <1>2
<1> QED BY <1>1, <1>2, <1>3, FS_EmptySet DEF Rank

LEMMA NextRank ==
  ASSUME NEW t, TreeOK(t), NEW D, D \subseteq Nodes(t), NEW p \in Nodes(t), NEW n, Follows(t, p, n)
  PROVE  Rank(D, n) = IF p \in D THEN Rank(D, p) + 1 ELSE Rank(D, p)
<1> DEFINE A == {q \in D : Before(q, p)}
           B == {q \in D : Before(q, n)}
<1>1. /\ n \in Nodes(t) /\ Before(p, n)
      /\ \A q \in Nodes(t) : Before(q, n) => q = p \/ Before(q, p)
  BY DEF Follows
<1>2. \A q \in Nodes(t) : q \in Pos
  BY TreeIs
<1>3. p \notin A
  BY <1>2, BeforeIsOrder
<1>4. IsFiniteSet(D)
  BY TreeIs, FS_Subset
<1>5. IsFiniteSet(A)
  BY <1>4, FS_Subset
<1>6. \A q \in D : Before(q, n) <=> q = p \/ Before(q, p)
  <2> SUFFICES ASSUME NEW q \in D, Before(q, p) PROVE Before(q, n)
    BY <1>1
  <2>1. q \in Pos /\ p \in Pos /\ n \in Pos
    BY <1>1, <1>2
  <2> QED BY <1>1, <2>1, BeforeIsOrder
<1>7. CASE p \in D
  <2>1. B = A \cup {p}
    BY <1>6, <1>7
  <2> HIDE DEF A, B
  <2>2. Cardinality(B) = Cardinality(A) + 1
    BY <1>3, <1>5, <2>1, FS_AddElement
  <2> QED BY <1>7, <2>2 DEF Rank, A, B
<1>8. CASE p \notin D
  <2>1. B = A
    BY <1>6, <1>8
  <2> QED BY <1>8, <2>1 DEF Rank
<1> QED BY <1>7, <1>8

(* Where a pass is that has met none of S after k visits: at the end, or   *)
(* behind k nodes and i leaves.                                            *)
Ahead(at, i, S, k) ==
  \/ at = {} /\ \A q \in DOMAIN tree.leaf : tree.leaf[q] \notin S
  \/ \E p \in Nodes(tree) :
       /\ at = {p} /\ Rank(Nodes(tree), p) = k /\ i = Rank(DOMAIN tree.leaf, p)
       /\ \A q \in DOMAIN tree.leaf : Before(q, p) => tree.leaf[q] \notin S

LEMMA Advance ==
  ASSUME TreeOK(tree), NEW p \in Nodes(tree), NEW S, NEW i, NEW k, NEW j,
         Rank(Nodes(tree), p) = k, i = Rank(DOMAIN tree.leaf, p),
         \A q \in DOMAIN tree.leaf : Before(q, p) => tree.leaf[q] \notin S,
         p \in DOMAIN tree.leaf => tree.leaf[p] \notin S,
         j = IF p \in DOMAIN tree.leaf THEN i + 1 ELSE i
  PROVE  Ahead(After(tree, p), j, S, k + 1)
<1>1. DOMAIN tree.leaf \subseteq Nodes(tree) /\ \A q \in Nodes(tree) : q \in Pos
  BY TreeIs
<1>2. CASE After(tree, p) = {} /\ \A q \in Nodes(tree) : ~Before(p, q)
  <2>1. ASSUME NEW q \in DOMAIN tree.leaf PROVE tree.leaf[q] \notin S
    <3>1. q \in Pos /\ p \in Pos /\ ~Before(p, q)
      BY <1>1, <1>2
    <3>2. q = p \/ Before(q, p)
      BY <3>1, BeforeIsOrder
    <3> QED BY <3>2
  <2> QED BY <1>2, <2>1 DEF Ahead
<1>3. ASSUME NEW n, After(tree, p) = {n}, Follows(tree, p, n)
      PROVE  Ahead(After(tree, p), j, S, k + 1)
  <2>1. Rank(Nodes(tree), n) = k + 1
    BY <1>3, NextRank
  <2>2. Rank(DOMAIN tree.leaf, n) = j
    BY <1>1, <1>3, NextRank
  <2>3. n \in Nodes(tree) /\ \A q \in Nodes(tree) : Before(q, n) => q = p \/ Before(q, p)
    BY <1>3 DEF Follows
  <2>4. \A q \in DOMAIN tree.leaf : Before(q, n) => tree.leaf[q] \notin S
    BY <1>1, <2>3
  <2> QED BY <1>3, <2>1, <2>2, <2>3, <2>4 DEF Ahead
<1> QED BY <1>2, <1>3, AfterIs

-----------------------------------------------------------------------------
(* What a pass of remove_pane_if has made of the tree after k visits. *)
Passed(r, S, k) ==
  /\ r = [t |-> r.t, at |-> r.at, i |-> r.i, gone |-> r.gone, indices |-> r.indices]
  /\ TreeOK(r.t) /\ r.at \subseteq Nodes(r.t)
  /\ r.i \in Nat /\ r.indices \in SUBSET Nat /\ IsFiniteSet(r.indices)
  /\ r.gone \subseteq S /\ r.gone \subseteq PaneSet(tree)
  /\ PaneSet(r.t) = PaneSet(tree) \ r.gone
  /\ SameOrder(tree, r.t)
  /\ r.gone = {} => r.t = tree /\ r.indices = {} /\ Ahead(r.at, r.i, S, k)
  /\ \A x : S = {x} /\ r.gone # {} => r.indices = {Index(tree, PathOf(tree, x))}

LEMMA VisitSplit ==
  ASSUME TreeOK(tree), size \in SizeType, NEW S, NEW k \in Nat, NEW r, Passed(r, S, k), r.at # {},
         NEW p, p = (CHOOSE q \in r.at : TRUE), p \in DOMAIN r.t.split
  PROVE  Passed(Visit(r, S), S, k + 1)
<1> DEFINE t == IF r.gone = {} THEN r.t ELSE ApplySize(r.t, p, Allotted(r.t, size, p))
           v == [t |-> t, at |-> After(t, p), i |-> r.i, gone |-> r.gone, indices |-> r.indices]
<1>0. r = [t |-> r.t, at |-> r.at, i |-> r.i, gone |-> r.gone, indices |-> r.indices] /\ TreeOK(r.t)
      /\ r.at \subseteq Nodes(r.t)
  BY DEF Passed
<1>1. Visit(r, S) = v
  BY DEF Visit
<1>2. p \in r.at /\ p \in Nodes(r.t)
  BY <1>0
<1>3. t \in Shape(r.t)
  BY <1>0, <1>2, ShapeIs, AllottedIs, ApplySizeIs
<1>t. r.gone = {} => t = r.t
  OBVIOUS
<1> HIDE DEF t
<1>4. TreeOK(t) /\ Nodes(t) = Nodes(r.t)
  BY <1>0, <1>3, ShapeIs
<1>5. PaneSet(t) = PaneSet(r.t) /\ SameOrder(tree, t)
  BY <1>0, <1>3, ShapeKeepsPanes DEF Passed
<1>6. After(t, p) \subseteq Nodes(t)
  BY <1>2, <1>4, AfterIs
<1>7. ASSUME r.gone = {} PROVE t = tree /\ r.indices = {} /\ Ahead(After(t, p), r.i, S, k + 1)
  <2>1. r.t = tree /\ r.indices = {} /\ Ahead(r.at, r.i, S, k)
    BY <1>7 DEF Passed
  <2>2. /\ p \in Nodes(tree) /\ Rank(Nodes(tree), p) = k /\ r.i = Rank(DOMAIN tree.leaf, p)
        /\ \A q \in DOMAIN tree.leaf : Before(q, p) => tree.leaf[q] \notin S
    BY <1>2, <2>1 DEF Ahead
  <2>3. p \notin DOMAIN tree.leaf
    BY <2>1, TreeIs
  <2>4. Ahead(After(tree, p), r.i, S, k + 1)
    BY <2>2, <2>3, Advance
  <2> QED BY <1>7, <1>t, <2>1, <2>4
<1>8. v.t = t /\ v.at = After(t, p) /\ v.i = r.i /\ v.gone = r.gone /\ v.indices = r.indices
  OBVIOUS
<1>9. v = [t |-> v.t, at |-> v.at, i |-> v.i, gone |-> v.gone, indices |-> v.indices]
  OBVIOUS
<1> HIDE DEF v
<1>10. Passed(v, S, k + 1)
  BY <1>4, <1>5, <1>6, <1>7, <1>8, <1>9 DEF Passed
<1> QED BY <1>1, <1>10

LEMMA VisitLeaf ==
  ASSUME TreeOK(tree), NEW S, NEW k \in Nat, NEW r, Passed(r, S, k), r.at # {},
         NEW p, p = (CHOOSE q \in r.at : TRUE), p \notin DOMAIN r.t.split, r.t.leaf[p] \notin S
  PROVE  Passed(Visit(r, S), S, k + 1)
<1> DEFINE v == [t |-> r.t, at |-> After(r.t, p), i |-> r.i + 1, gone |-> r.gone, indices |-> r.indices]
<1>0. r = [t |-> r.t, at |-> r.at, i |-> r.i, gone |-> r.gone, indices |-> r.indices] /\ TreeOK(r.t)
      /\ r.at \subseteq Nodes(r.t) /\ r.i \in Nat
  BY DEF Passed
<1>1. Visit(r, S) = v
  BY DEF Visit
<1>2. p \in r.at /\ p \in Nodes(r.t) /\ p \in DOMAIN r.t.leaf
  BY <1>0 DEF Nodes
<1>6. After(r.t, p) \subseteq Nodes(r.t)
  BY <1>0, <1>2, AfterIs
<1>7. ASSUME r.gone = {} PROVE r.t = tree /\ r.indices = {} /\ Ahead(After(r.t, p), r.i + 1, S, k + 1)
  <2>1. r.t = tree /\ r.indices = {} /\ Ahead(r.at, r.i, S, k)
    BY <1>7 DEF Passed
  <2>2. /\ p \in Nodes(tree) /\ Rank(Nodes(tree), p) = k /\ r.i = Rank(DOMAIN tree.leaf, p)
        /\ \A q \in DOMAIN tree.leaf : Before(q, p) => tree.leaf[q] \notin S
    BY <1>2, <2>1 DEF Ahead
  <2>4. Ahead(After(tree, p), r.i + 1, S, k + 1)
    BY <1>2, <2>1, <2>2, Advance
  <2> QED BY <2>1, <2>4
<1>8. v.t = r.t /\ v.at = After(r.t, p) /\ v.i = r.i + 1 /\ v.gone = r.gone /\ v.indices = r.indices
  OBVIOUS
<1>9. v = [t |-> v.t, at |-> v.at, i |-> v.i, gone |-> v.gone, indices |-> v.indices]
  OBVIOUS
<1> HIDE DEF v
<1>10. Passed(v, S, k + 1)
  BY <1>0, <1>6, <1>7, <1>8, <1>9 DEF Passed
<1> QED BY <1>1, <1>10

LEMMA VisitGone ==
  ASSUME TreeOK(tree), NEW S, NEW k \in Nat, NEW r, Passed(r, S, k), r.at # {},
         NEW p, p = (CHOOSE q \in r.at : TRUE), p \notin DOMAIN r.t.split, r.t.leaf[p] \in S
  PROVE  Passed(Visit(r, S), S, k + 1)
<1> DEFINE u == Without(r.t, p)
           a == IF p = <<>> THEN {} ELSE After(u, Front(p))
           x == r.t.leaf[p]
           v == [t |-> u, at |-> a, i |-> r.i + 1, gone |-> r.gone \cup {x}, indices |-> r.indices \cup {r.i}]
<1>0. r = [t |-> r.t, at |-> r.at, i |-> r.i, gone |-> r.gone, indices |-> r.indices] /\ TreeOK(r.t)
      /\ r.at \subseteq Nodes(r.t) /\ r.i \in Nat /\ r.gone \subseteq S /\ r.gone \subseteq PaneSet(tree)
  BY DEF Passed
<1>1. Visit(r, S) = v
  BY DEF Visit
<1>2. p \in r.at /\ p \in Nodes(r.t) /\ p \in DOMAIN r.t.leaf
  BY <1>0 DEF Nodes
<1>x. x = r.t.leaf[p]
  OBVIOUS
<1>u. u = Without(r.t, p)
  OBVIOUS
<1> HIDE DEF u, x
<1>3. /\ TreeOK(u) /\ PaneSet(u) = PaneSet(r.t) \ {x} /\ SameOrder(r.t, u)
      /\ p # <<>> => Front(p) \in Nodes(u)
  BY <1>0, <1>2, <1>u, <1>x, WithoutIs
<1>4. x \in PaneSet(r.t) /\ x \in S /\ x \in PaneSet(tree) \ r.gone
  <2>1. x \in PaneSet(r.t)
    BY <1>2, <1>x DEF PaneSet
  <2>2. PaneSet(r.t) = PaneSet(tree) \ r.gone
    BY DEF Passed
  <2> QED BY <1>x, <2>1, <2>2
<1>5. PaneSet(u) = PaneSet(tree) \ (r.gone \cup {x})
  BY <1>3 DEF Passed
<1>6. SameOrder(tree, u)
  <2>1. SameOrder(tree, r.t) /\ PaneSet(u) \subseteq PaneSet(r.t)
    BY <1>3 DEF Passed
  <2> QED BY <1>3, <2>1 DEF SameOrder
<1>7. a \subseteq Nodes(u)
  BY <1>3, AfterIs
<1> HIDE DEF a
<1>8. IsFiniteSet(r.indices \cup {r.i}) /\ r.indices \cup {r.i} \in SUBSET Nat
  <2>1. IsFiniteSet(r.indices) /\ r.indices \in SUBSET Nat
    BY DEF Passed
  <2> QED BY <1>0, <2>1, FS_AddElement
<1>9. ASSUME NEW y, S = {y} PROVE r.indices \cup {r.i} = {Index(tree, PathOf(tree, y))}
  <2>1. r.gone = {} /\ x = y
    BY <1>0, <1>4, <1>9
  <2>2. r.t = tree /\ r.indices = {} /\ Ahead(r.at, r.i, S, k)
    BY <2>1 DEF Passed
  <2>3. p \in DOMAIN tree.leaf /\ r.i = Rank(DOMAIN tree.leaf, p) /\ y = tree.leaf[p]
    BY <1>2, <1>x, <2>1, <2>2 DEF Ahead
  <2>4. PathOf(tree, y) = p
    BY <2>3, IndexIs
  <2>5. r.i = Index(tree, p)
    BY <2>3 DEF Rank, Index
  <2> QED BY <2>2, <2>4, <2>5
<1>10. v.t = u /\ v.at = a /\ v.i = r.i + 1 /\ v.gone = r.gone \cup {x} /\ v.indices = r.indices \cup {r.i}
  OBVIOUS
<1>11. v = [t |-> v.t, at |-> v.at, i |-> v.i, gone |-> v.gone, indices |-> v.indices]
  OBVIOUS
<1> HIDE DEF v
<1>12. v.gone # {}
  BY <1>10
<1>13. Passed(v, S, k + 1)
  <2>1. \A y : S = {y} /\ v.gone # {} => v.indices = {Index(tree, PathOf(tree, y))}
    BY <1>9, <1>10
  <2>2. v.gone \subseteq S /\ v.gone \subseteq PaneSet(tree) /\ v.i \in Nat
    BY <1>0, <1>4, <1>10
  <2>3. v.indices \in SUBSET Nat /\ IsFiniteSet(v.indices)
    BY <1>8, <1>10
  <2> QED BY <1>3, <1>5, <1>6, <1>7, <1>10, <1>11, <1>12, <2>1, <2>2, <2>3 DEF Passed
<1> QED BY <1>1, <1>13

LEMMA VisitIs ==
  ASSUME TreeOK(tree), size \in SizeType, NEW S, NEW k \in Nat, NEW r, Passed(r, S, k)
  PROVE  Passed(Visit(r, S), S, k + 1)
<1>1. CASE r.at = {}
  <2>1. Visit(r, S) = r
    BY <1>1 DEF Visit
  <2>2. r.gone = {} => Ahead(r.at, r.i, S, k + 1)
    BY <1>1 DEF Passed, Ahead
  <2> QED BY <2>1, <2>2 DEF Passed
<1>2. CASE r.at # {}
  BY <1>2, VisitSplit, VisitLeaf, VisitGone
<1> QED BY <1>1, <1>2

Trees ==
  {t \in [split : UNION {[D -> SplitType] : D \in SUBSET Pos}, leaf : UNION {[D -> Panes] : D \in SUBSET Pos}] :
     TreeOK(t)}

LEMMA TreesAre ==
  \A t : t \in Trees <=> TreeOK(t)
<1> SUFFICES ASSUME NEW t, TreeOK(t) PROVE t \in Trees
  BY DEF Trees
<1>1. t = [split |-> t.split, leaf |-> t.leaf]
      /\ t.split \in [DOMAIN t.split -> SplitType] /\ t.leaf \in [DOMAIN t.leaf -> Panes]
  BY DEF TreeOK
<1>2. DOMAIN t.split \in SUBSET Pos /\ DOMAIN t.leaf \in SUBSET Pos
  BY TreeIs
<1>3. t.split \in UNION {[D -> SplitType] : D \in SUBSET Pos}
  BY <1>1, <1>2
<1>4. t.leaf \in UNION {[D -> Panes] : D \in SUBSET Pos}
  BY <1>1, <1>2
<1>5. t \in [split : UNION {[D -> SplitType] : D \in SUBSET Pos}, leaf : UNION {[D -> Panes] : D \in SUBSET Pos}]
  BY <1>1, <1>3, <1>4
<1> QED BY <1>5 DEF Trees

(* The states of a pass *)
Passing(S) ==
  {r \in [t : Trees, at : SUBSET Pos, i : Nat, gone : SUBSET PaneSet(tree), indices : SUBSET Nat] :
     \E k \in Nat : Passed(r, S, k)}

LEMMA PassingIs ==
  ASSUME TreeOK(tree), NEW S, NEW r, NEW k \in Nat, Passed(r, S, k)
  PROVE  r \in Passing(S)
<1>1. r = [t |-> r.t, at |-> r.at, i |-> r.i, gone |-> r.gone, indices |-> r.indices]
  BY DEF Passed
<1>2. TreeOK(r.t) /\ r.at \subseteq Nodes(r.t) /\ r.i \in Nat /\ r.indices \in SUBSET Nat
      /\ r.gone \subseteq PaneSet(tree)
  BY DEF Passed
<1>3. r.t \in Trees /\ r.at \in SUBSET Pos
  BY <1>2, TreesAre, TreeIs
<1>4. r \in [t : Trees, at : SUBSET Pos, i : Nat, gone : SUBSET PaneSet(tree), indices : SUBSET Nat]
  BY <1>1, <1>2, <1>3
<1> QED BY <1>4 DEF Passing

LEMMA PassStarts ==
  ASSUME TreeOK(tree), Nodes(tree) # {}, NEW S,
         NEW a, a = [t |-> tree, at |-> {<<>>}, i |-> 0, gone |-> {}, indices |-> {}]
  PROVE  Passed(a, S, 0)
<1>1. a.t = tree /\ a.at = {<<>>} /\ a.i = 0 /\ a.gone = {} /\ a.indices = {}
      /\ a = [t |-> a.t, at |-> a.at, i |-> a.i, gone |-> a.gone, indices |-> a.indices]
  OBVIOUS
<1>2. <<>> \in Nodes(tree)
  BY RootIsNode
<1>3. DOMAIN tree.leaf \subseteq Pos /\ Nodes(tree) \subseteq Pos
  BY TreeIs
<1>4. Ahead({<<>>}, 0, S, 0)
  BY <1>2, <1>3, FirstRank DEF Ahead
<1>5. SameOrder(tree, tree)
  BY DEF SameOrder
<1>6. IsFiniteSet({})
  BY FS_EmptySet
<1> QED BY <1>1, <1>2, <1>4, <1>5, <1>6 DEF Passed

LEMMA VisitsAre ==
  ASSUME TreeOK(tree), Nodes(tree) # {}
  PROVE  /\ Visits \in Nat /\ Cardinality(Nodes(tree)) \in Nat /\ Visits >= Cardinality(Nodes(tree))
         /\ \A p \in Nodes(tree) : Rank(Nodes(tree), p) < Visits
<1> DEFINE n == Cardinality(Nodes(tree))
<1>1. n \in Nat /\ n # 0
  BY TreeIs, FS_CardinalityType, FS_EmptySet
<1>2. n * n \in Nat /\ n * n >= n
  <2>1. \A m \in Nat : m # 0 => m * m \in Nat /\ m * m >= m
    OBVIOUS
  <2> HIDE DEF n
  <2> QED BY <1>1, <2>1
<1>3. \A p \in Nodes(tree) : Rank(Nodes(tree), p) \in Nat /\ Rank(Nodes(tree), p) < n
  BY TreeIs, RankIs
<1>4. Visits = n * n
  BY DEF Visits
<1> HIDE DEF n
<1>5. \A p \in Nodes(tree) : Rank(Nodes(tree), p) < Visits
  BY <1>1, <1>2, <1>3, <1>4
<1> QED BY <1>1, <1>2, <1>4, <1>5 DEF n

(* f is a whole pass, visit by visit. *)
PassRuns(S, f) ==
  /\ f[0] = [t |-> tree, at |-> {<<>>}, i |-> 0, gone |-> {}, indices |-> {}]
  /\ \A k \in 1..Visits : f[k] = Visit(f[k - 1], S)
  /\ \A k \in 0..Visits : Passed(f[k], S, k)
  /\ Removal(S) = f[Visits]

LEMMA RemovalRuns ==
  ASSUME TreeOK(tree), Nodes(tree) # {}, size \in SizeType, NEW S
  PROVE  \E f : PassRuns(S, f)
<1> DEFINE N == Visits
           R == Passing(S)
           a == [t |-> tree, at |-> {<<>>}, i |-> 0, gone |-> {}, indices |-> {}]
           eq(f) == f = [k \in 0..N |-> IF k = 0 THEN a ELSE Visit(f[k - 1], S)]
           f == CHOOSE f : eq(f)
           G == [w \in R |-> Visit(w, S)]
<1>1. Removal(S) = f[N]
  BY DEF Removal
<1>2. N \in Nat
  BY VisitsAre
<1>a. Passed(a, S, 0)
  BY PassStarts
<1>3. a \in R
  <2> HIDE DEF a
  <2> QED BY <1>a, PassingIs
<1>4. ASSUME NEW w \in R PROVE Visit(w, S) \in R
  <2>1. PICK k \in Nat : Passed(w, S, k)
    BY DEF Passing
  <2>2. k + 1 \in Nat /\ Passed(Visit(w, S), S, k + 1)
    BY <2>1, VisitIs
  <2> QED BY <2>2, PassingIs
<1>5. G \in [R -> R] /\ \A w \in R : G[w] = Visit(w, S)
  <2> HIDE DEF R
  <2> QED BY <1>4
<1> HIDE DEF N, R, a, G
<1>6. \E g : eq(g)
  <2>a. PICK g : Runs(R, a, G, N, g)
    BY <1>2, <1>3, <1>5, LoopRecursion
  <2>1. g \in [0..N -> R] /\ g[0] = a /\ \A k \in 1..N : g[k] = G[g[k - 1]]
    BY <2>a DEF Runs
  <2>2. ASSUME NEW k \in 0..N PROVE g[k] = IF k = 0 THEN a ELSE Visit(g[k - 1], S)
    <3>1. CASE k = 0
      BY <2>1, <3>1
    <3>2. CASE k # 0
      <4>1. k \in 1..N /\ k - 1 \in 0..N
        BY <1>2, <3>2
      <4>2. g[k - 1] \in R
        BY <2>1, <4>1
      <4> QED BY <1>5, <2>1, <3>2, <4>1, <4>2
    <3> QED BY <3>1, <3>2
  <2>3. g = [k \in 0..N |-> g[k]]
    BY <2>1
  <2> QED BY <2>2, <2>3
<1>7. eq(f)
  <2> HIDE DEF eq
  <2> QED BY <1>6
<1> HIDE DEF f
<1>8. f[0] = a /\ \A k \in 1..N : f[k] = Visit(f[k - 1], S)
  BY <1>2, <1>7
<1>9. \A k \in 0..N : Passed(f[k], S, k)
  <2> DEFINE T == {k \in 0..N : Passed(f[k], S, k)}
  <2>1. 0 \in T
    BY <1>2, <1>a, <1>8
  <2>2. ASSUME NEW k \in 1..N, k - 1 \in T PROVE k \in T
    <3>1. k - 1 \in Nat /\ (k - 1) + 1 = k /\ k \in 0..N
      BY <1>2
    <3>2. Passed(f[k - 1], S, k - 1)
      BY <2>2
    <3>3. Passed(Visit(f[k - 1], S), S, (k - 1) + 1)
      BY <3>1, <3>2, VisitIs
    <3>4. Passed(f[k], S, k)
      BY <1>8, <3>1, <3>3
    <3> QED BY <3>1, <3>4
  <2> HIDE DEF T
  <2>3. 0..N \subseteq T
    BY <1>2, <2>1, <2>2, LoopInduction
  <2> QED BY <2>3 DEF T
<1>10. PassRuns(S, f)
  BY <1>1, <1>8, <1>9 DEF N, a, PassRuns
<1> QED BY <1>10

LEMMA RemovalIs ==
  ASSUME TreeOK(tree), Nodes(tree) # {}, size \in SizeType, NEW S
  PROVE  Passed(Removal(S), S, Visits)
<1>1. PICK f : PassRuns(S, f)
  BY RemovalRuns
<1>2. Visits \in 0..Visits
  BY VisitsAre
<1> QED BY <1>1, <1>2 DEF PassRuns

LEMMA SomeGo ==
  ASSUME TreeOK(tree), Nodes(tree) # {}, NEW S, NEW r, Passed(r, S, Visits), NEW x \in PaneSet(tree), x \in S
  PROVE  r.gone # {}
<1> SUFFICES ASSUME r.gone = {} PROVE FALSE
  OBVIOUS
<1>1. Ahead(r.at, r.i, S, Visits)
  BY DEF Passed
<1>2. ~\E p \in Nodes(tree) : Rank(Nodes(tree), p) = Visits
  <2> SUFFICES ASSUME NEW p \in Nodes(tree), Rank(Nodes(tree), p) = Visits PROVE FALSE
    OBVIOUS
  <2>1. Visits \in Nat /\ Rank(Nodes(tree), p) < Visits
    BY VisitsAre
  <2> QED BY <2>1
<1>3. \A q \in DOMAIN tree.leaf : tree.leaf[q] \notin S
  BY <1>1, <1>2 DEF Ahead
<1> QED BY <1>3 DEF PaneSet

LEMMA TakesSome ==
  TypeOK => PassTakesSome
<1> SUFFICES ASSUME TypeOK, NEW S \in (SUBSET PaneSet(tree)) \ {{}}
             PROVE  LET r == Removal(S) IN
                    /\ r.gone # {} /\ r.gone \subseteq S
                    /\ PaneSet(r.t) = PaneSet(tree) \ r.gone /\ IsInjective(r.t.leaf)
                    /\ \A p, q \in PaneSet(r.t) :
                         Before(PathOf(r.t, p), PathOf(r.t, q)) <=> Before(PathOf(tree, p), PathOf(tree, q))
  BY DEF PassTakesSome
<1> DEFINE r == Removal(S)
<1>1. TreeOK(tree) /\ size \in SizeType
  BY DEF TypeOK
<1>2. PICK x \in PaneSet(tree) : x \in S
  OBVIOUS
<1>3. Nodes(tree) # {}
  BY <1>2 DEF PaneSet, Nodes
<1>4. Passed(r, S, Visits)
  BY <1>1, <1>3, RemovalIs
<1> HIDE DEF r
<1>5. r.gone # {}
  BY <1>1, <1>2, <1>3, <1>4, SomeGo
<1>6. r.gone \subseteq S /\ PaneSet(r.t) = PaneSet(tree) \ r.gone
  BY <1>4 DEF Passed
<1>7. IsInjective(r.t.leaf)
  BY <1>4 DEF Passed, TreeOK
<1>8. \A p, q \in PaneSet(r.t) :
        Before(PathOf(r.t, p), PathOf(r.t, q)) <=> Before(PathOf(tree, p), PathOf(tree, q))
  BY <1>4 DEF Passed, SameOrder
<1> QED BY <1>5, <1>6, <1>7, <1>8 DEF r

-----------------------------------------------------------------------------
(* The operations keep a tree with every pane once. *)
LEMMA UsableIs ==
  ASSUME TypeOK, Usable
  PROVE  TreeOK(tree) /\ size \in SizeType /\ before \in SizeType /\ active \in Nat /\ Nodes(tree) # {}
BY DEF TypeOK, Usable, PaneSet, Nodes

LEMMA BecomesIs ==
  ASSUME TypeOK, NEW t \in Outcomes(tree), NEW s \in SizeType, Becomes(t, s)
  PROVE  TreeOK(tree') /\ size' \in SizeType /\ broken' \in BOOLEAN /\ PaneSet(tree') = PaneSet(tree)
<1>1. TreeOK(tree)
  BY DEF TypeOK
<1>2. CASE t = NoTree
  BY <1>2 DEF Becomes, TypeOK
<1>3. CASE t # NoTree
  <2>1. t \in Shape(tree)
    BY <1>3 DEF Outcomes
  <2>2. TreeOK(t) /\ PaneSet(t) = PaneSet(tree)
    BY <1>1, <2>1, ShapeIs, ShapeKeepsPanes
  <2> QED BY <1>3, <2>2 DEF Becomes, TypeOK
<1> QED BY <1>2, <1>3

LEMMA FocusedIs ==
  ASSUME TypeOK
  PROVE  /\ Focused \in PaneSet(tree) \cup {None}
         /\ zoomed = None /\ Focused # None => active \in 0..Cardinality(PaneSet(tree)) - 1
<1> DEFINE n == Cardinality(DOMAIN tree.leaf)
<1>1. TreeOK(tree) /\ active \in Nat /\ zoomed \in PaneSet(tree) \cup {None}
  BY DEF TypeOK
<1>2. n \in Nat /\ Cardinality(PaneSet(tree)) = n /\ \A i \in 0..n - 1 : LeafAt(tree, i) \in DOMAIN tree.leaf
  BY <1>1, IndexIs
<1>3. Focused = IF zoomed # None THEN zoomed ELSE IF active < n THEN tree.leaf[LeafAt(tree, active)] ELSE None
  BY DEF Focused
<1> HIDE DEF n
<1>4. active < n => active \in 0..n - 1
  BY <1>1, <1>2
<1>5. active < n => tree.leaf[LeafAt(tree, active)] \in PaneSet(tree)
  BY <1>2, <1>4 DEF PaneSet
<1> QED BY <1>1, <1>2, <1>3, <1>4, <1>5

LEMMA LeavesAre ==
  ASSUME NEW t, TreeOK(t), NEW f \in [DOMAIN t.leaf -> Panes], IsInjective(f),
         NEW u, u = [t EXCEPT !.leaf = f]
  PROVE  TreeOK(u) /\ PaneSet(u) = {f[p] : p \in DOMAIN t.leaf} /\ u.leaf = f
<1>1. t = [split |-> t.split, leaf |-> t.leaf]
  BY DEF TreeOK
<1>2. u = [split |-> t.split, leaf |-> f]
  BY <1>1
<1>3. u.split = t.split /\ u.leaf = f /\ DOMAIN u.leaf = DOMAIN t.leaf /\ u = [split |-> u.split, leaf |-> u.leaf]
  BY <1>2
<1>4. Nodes(u) = Nodes(t)
  BY <1>3 DEF Nodes
<1>5. PaneSet(u) = {f[p] : p \in DOMAIN t.leaf}
  BY <1>3 DEF PaneSet
<1> QED BY <1>3, <1>4, <1>5 DEF TreeOK

LEMMA OnlyRoot ==
  ASSUME NEW t, TreeOK(t), <<>> \in DOMAIN t.leaf
  PROVE  Cardinality(PaneSet(t)) = 1
<1>1. ASSUME NEW r \in DOMAIN t.leaf PROVE r = <<>>
  <2>1. r \in Nodes(t) /\ r \in Pos /\ <<>> \in Pos /\ <<>> \notin DOMAIN t.split
    BY TreeIs
  <2>2. IsPrefix(<<>>, r)
    BY <2>1, PrefixOrder
  <2> QED BY <2>1, <2>2, AboveIsSplit
<1>2. PaneSet(t) = {t.leaf[<<>>]}
  BY <1>1 DEF PaneSet
<1> QED BY <1>2, FS_Singleton

LEMMA AboveLeaf ==
  ASSUME NEW t, TreeOK(t), NEW p \in DOMAIN t.leaf, Cardinality(PaneSet(t)) > 1
  PROVE  Front(p) \in DOMAIN t.split
<1>1. p # <<>>
  <2> SUFFICES ASSUME p = <<>> PROVE FALSE
    OBVIOUS
  <2>1. Cardinality(PaneSet(t)) = 1
    BY OnlyRoot
  <2> QED BY <2>1
<1> QED BY <1>1, TreeIs

LEMMA InitType ==
  Init => TypeOK
<1> SUFFICES ASSUME Init PROVE TypeOK
  OBVIOUS
<1>1. PICK x \in Panes : tree = [split |-> <<>>, leaf |-> [q \in {<<>>} |-> x]]
  BY DEF Init
<1>2. DOMAIN tree.split = {} /\ tree.split = <<>> /\ tree.leaf = [q \in {<<>>} |-> x] /\ DOMAIN tree.leaf = {<<>>}
      /\ tree = [split |-> tree.split, leaf |-> tree.leaf]
  BY <1>1
<1>3. Nodes(tree) = {<<>>}
  BY <1>2 DEF Nodes
<1>4. Nodes(tree) \subseteq Seq(Bit) /\ IsFiniteSet(Nodes(tree))
  <2>1. <<>> \in Seq(Bit)
    OBVIOUS
  <2> QED BY <1>3, <2>1, FS_Singleton
<1>5. Nodes(tree) \ {<<>>} = Children(DOMAIN tree.split)
  BY <1>2, <1>3 DEF Children
<1>6. tree.split \in [DOMAIN tree.split -> SplitType] /\ tree.leaf \in [DOMAIN tree.leaf -> Panes]
      /\ IsInjective(tree.leaf) /\ DOMAIN tree.split \cap DOMAIN tree.leaf = {}
  BY <1>2 DEF IsInjective
<1>7. TreeOK(tree)
  BY <1>2, <1>4, <1>5, <1>6 DEF TreeOK
<1>8. size \in SizeType
  BY SplitAssumption DEF Init, SizeType
<1> QED BY <1>7, <1>8 DEF Init, TypeOK

LEMMA ResizeType ==
  ASSUME TypeOK, NEW s \in Sizes, Resize(s)
  PROVE  TypeOK'
<1>1. TreeOK(tree) /\ size \in SizeType /\ Nodes(tree) # {}
  BY UsableIs DEF Resize
<1>2. s \in SizeType
  BY SplitAssumption DEF SizeType
<1>3. TreeOK(tree') /\ size' \in SizeType /\ broken' \in BOOLEAN /\ PaneSet(tree') = PaneSet(tree)
  <2>1. CASE zoomed # None
    <3>1. tree \in Outcomes(tree) /\ Becomes(tree, s)
      BY <1>1, <2>1, ShapeIs DEF Outcomes, Resize
    <3> QED BY <1>2, <3>1, BecomesIs
  <2>2. CASE zoomed = None
    <3>1. Becomes(Resized(tree, size, s), AtLeast(tree, s))
      BY <2>2 DEF Resize
    <3> QED BY <1>1, <1>2, <3>1, BecomesIs, ResizedIs, AtLeastIs
  <2> QED BY <2>1, <2>2
<1> QED BY <1>3 DEF Resize, TypeOK

LEMMA ToggleZoomType ==
  ASSUME TypeOK, ToggleZoom
  PROVE  TypeOK'
<1>1. TreeOK(tree) /\ size \in SizeType /\ before \in SizeType /\ Nodes(tree) # {}
  BY UsableIs DEF ToggleZoom
<1>2. CASE zoomed # None
  <2>1. Becomes(Resized(tree, before, size), AtLeast(tree, size))
    BY <1>2 DEF ToggleZoom
  <2>2. TreeOK(tree') /\ size' \in SizeType /\ broken' \in BOOLEAN /\ PaneSet(tree') = PaneSet(tree)
    BY <1>1, <2>1, BecomesIs, ResizedIs, AtLeastIs
  <2> QED BY <1>2, <2>2 DEF ToggleZoom, TypeOK
<1>3. CASE zoomed = None
  <2>1. Focused \in PaneSet(tree) \cup {None}
    BY FocusedIs
  <2> QED BY <1>3, <2>1 DEF ToggleZoom, TypeOK
<1> QED BY <1>2, <1>3

LEMMA SplitsType ==
  ASSUME TypeOK, NEW pane \in Panes \ PaneSet(tree), NEW i \in Indices, NEW x \in Axes, NEW b \in {0, 1},
         NEW ask \in Requests, Split(pane, i, x, b, ask)
  PROVE  TypeOK'
<1> DEFINE q == LeafAt(tree, i)
           info == SplitInfo(Allotted(tree, size, q), x, b, ask)
<1>1. TreeOK(tree) /\ size \in SizeType /\ active \in Nat
  BY UsableIs DEF Split
<1>2. Cardinality(PaneSet(tree)) \in Nat /\ q \in DOMAIN tree.leaf /\ i \in Nat
  BY <1>1, IndexIs DEF Indices
<1>3. tree' = Inserted(tree, q, b, pane, info)
  BY DEF Split
<1> HIDE DEF q
<1>4. q \in Nodes(tree) /\ b \in Bit
  BY <1>1, <1>2, TreeIs DEF Bit
<1>5. info \in SplitType
  BY <1>1, <1>4, AllottedIs, SplitInfoIs
<1> HIDE DEF info
<1>6. TreeOK(tree')
  BY <1>1, <1>3, <1>4, <1>5, InsertedIsTree
<1> QED BY <1>1, <1>2, <1>6 DEF Split, TypeOK

LEMMA SplitTopType ==
  ASSUME TypeOK, NEW pane \in Panes \ PaneSet(tree), NEW x \in Axes, NEW b \in {0, 1},
         NEW ask \in Requests, SplitTop(pane, x, b, ask)
  PROVE  TypeOK'
<1> DEFINE info == SplitInfo(size, x, b, ask)
           share == IF b = 1 THEN info.first ELSE info.second
           t == Resized(tree, size, share)
           v == Inserted(t, <<>>, b, pane, info)
<1>1. TreeOK(tree) /\ size \in SizeType /\ active \in Nat /\ Nodes(tree) # {}
  BY UsableIs DEF SplitTop
<1>2. info \in SplitType
  BY <1>1, SplitInfoIs
<1>3. share \in SizeType
  BY <1>2, SizesAre
<1>4. /\ Becomes(IF t = NoTree THEN t ELSE v, AtLeast(tree, share))
      /\ active' = IF t = NoTree THEN active ELSE IF b = 1 THEN Cardinality(PaneSet(tree)) ELSE 0
      /\ zoomed' = None /\ before' = before
  BY DEF SplitTop
<1> HIDE DEF info, share
<1>5. t \in Outcomes(tree) /\ AtLeast(tree, share) \in SizeType
  BY <1>1, <1>3, ResizedIs, AtLeastIs
<1> HIDE DEF t
<1>6. active' \in Nat
  <2>1. Cardinality(PaneSet(tree)) \in Nat
    BY <1>1, IndexIs
  <2> QED BY <1>1, <1>4, <2>1
<1>7. TreeOK(tree') /\ size' \in SizeType /\ broken' \in BOOLEAN
  <2>1. CASE t = NoTree
    BY <1>4, <1>5, <2>1, BecomesIs
  <2>2. CASE t # NoTree
    <3>1. t \in Shape(tree)
      BY <1>5, <2>2 DEF Outcomes
    <3>2. TreeOK(t) /\ PaneSet(t) = PaneSet(tree) /\ Nodes(t) = Nodes(tree)
      BY <1>1, <3>1, ShapeIs, ShapeKeepsPanes
    <3>3. <<>> \in Nodes(t) /\ b \in Bit /\ pane \in Panes \ PaneSet(t)
      BY <1>1, <3>2, RootIsNode DEF Bit
    <3>4. TreeOK(v) /\ Nodes(v) # {}
      BY <1>2, <3>2, <3>3, InsertedIsTree
    <3> HIDE DEF v
    <3>5. v # NoTree
      BY <3>4, NoTreeOK
    <3>6. tree' = v /\ size' = AtLeast(tree, share) /\ broken' = broken
      BY <1>4, <2>2, <3>5 DEF Becomes
    <3> QED BY <1>5, <3>4, <3>6 DEF TypeOK
  <2> QED BY <2>1, <2>2
<1> QED BY <1>4, <1>6, <1>7 DEF TypeOK

LEMMA RemoveType ==
  ASSUME TypeOK, NEW S \in SUBSET Panes, RemoveIf(S)
  PROVE  TypeOK'
<1> DEFINE r == Removal(S)
           m == Cardinality({i \in r.indices : i <= active})
<1>1. TreeOK(tree) /\ size \in SizeType /\ active \in Nat /\ Nodes(tree) # {}
  BY UsableIs DEF RemoveIf
<1>2. Passed(r, S, Visits)
  BY <1>1, RemovalIs
<1>3. /\ tree' = r.t /\ active' = Less(active, m)
      /\ zoomed' = IF zoomed \in r.gone THEN None ELSE zoomed
      /\ size' = size /\ before' = before /\ broken' = broken
  BY DEF RemoveIf
<1> HIDE DEF r
<1>4. TreeOK(r.t) /\ PaneSet(r.t) = PaneSet(tree) \ r.gone /\ IsFiniteSet(r.indices)
  BY <1>2 DEF Passed
<1>5. m \in Nat
  BY <1>4, FS_Subset, FS_CardinalityType
<1> HIDE DEF m
<1>6. active' \in Nat
  BY <1>1, <1>3, <1>5 DEF Less
<1> QED BY <1>3, <1>4, <1>6 DEF TypeOK

LEMMA MoveSplitType ==
  ASSUME TypeOK, NEW p \in DOMAIN tree.split, NEW d \in Deltas, MoveSplit(p, d)
  PROVE  TypeOK'
<1> DEFINE t == Shifted(tree, p, d)
           u == IF t = NoTree THEN NoTree ELSE Cascade(t, size, p)
<1>1. TreeOK(tree) /\ size \in SizeType /\ d \in Int
  BY UsableIs, SplitAssumption DEF MoveSplit
<1>2. t \in Outcomes(tree)
  BY <1>1, ShiftedIs
<1>3. Becomes(u, size)
  BY DEF MoveSplit
<1> HIDE DEF t
<1>4. u \in Outcomes(tree)
  <2>1. CASE t = NoTree
    BY <2>1 DEF Outcomes
  <2>2. CASE t # NoTree
    <3>1. t \in Shape(tree)
      BY <1>2, <2>2 DEF Outcomes
    <3>2. TreeOK(t) /\ Nodes(t) = Nodes(tree) /\ Shape(t) = Shape(tree) /\ p \in Nodes(tree)
      BY <1>1, <3>1, ShapeIs, TreeIs
    <3> QED BY <1>1, <2>2, <3>2, CascadeIs DEF Outcomes
  <2> QED BY <2>1, <2>2
<1> HIDE DEF u
<1>5. TreeOK(tree') /\ size' \in SizeType /\ broken' \in BOOLEAN /\ PaneSet(tree') = PaneSet(tree)
  BY <1>1, <1>3, <1>4, BecomesIs
<1> QED BY <1>5 DEF MoveSplit, TypeOK

LEMMA ToggleDirectionType ==
  ASSUME TypeOK, ToggleDirection
  PROVE  TypeOK'
<1> DEFINE p     == Front(LeafAt(tree, active))
           x     == Cross(tree.split[p].axis)
           total == Extent(tree.split[p])
           half  == (total[x] - Gutter[x]) \div 2
           rest  == total[x] - Gutter[x] - half
           first == [total EXCEPT ![x] = half]
           second == [total EXCEPT ![x] = rest]
           info  == [axis |-> x, first |-> first, second |-> second]
           t     == IF total[x] < Gutter[x] + 2 THEN tree ELSE [tree EXCEPT !.split[p] = info]
<1>1. TreeOK(tree) /\ size \in SizeType
  BY UsableIs DEF ToggleDirection
<1>2. zoomed = None /\ Focused # None /\ Cardinality(PaneSet(tree)) > 1 /\ zoomed' = None
      /\ active' = active /\ size' = size /\ before' = before /\ broken' = broken
  BY DEF ToggleDirection
<1>3. tree' = Cascade(t, size, p)
  BY DEF ToggleDirection
<1>4. p \in DOMAIN tree.split /\ p \in Nodes(tree)
  <2>1. active \in 0..Cardinality(PaneSet(tree)) - 1
    BY <1>2, FocusedIs
  <2>2. LeafAt(tree, active) \in DOMAIN tree.leaf
    BY <1>1, <2>1, IndexIs
  <2>3. p \in DOMAIN tree.split
    BY <1>1, <1>2, <2>2, AboveLeaf
  <2> QED BY <1>1, <2>3, TreeIs
<1> HIDE DEF p
<1>5. tree.split[p] \in SplitType
  BY <1>1, <1>4 DEF TreeOK
<1>6. total \in SizeType /\ x \in Axes /\ Gutter[x] \in Nat
  BY <1>5, SizesAre
<1> HIDE DEF total, x
<1>7. total[x] \in Nat
  BY <1>6 DEF SizeType
<1>8. ASSUME ~(total[x] < Gutter[x] + 2) PROVE info \in SplitType
  <2>1. \A a, b \in Nat : ~(a < b + 2) => (a - b) \div 2 \in Nat /\ a - b - ((a - b) \div 2) \in Nat
    OBVIOUS
  <2>2. half \in Nat /\ rest \in Nat
    BY <1>6, <1>7, <1>8, <2>1
  <2> HIDE DEF half, rest
  <2>3. first \in SizeType /\ second \in SizeType
    BY <1>6, <2>2 DEF SizeType
  <2> HIDE DEF first, second
  <2> QED BY <1>6, <2>3 DEF SplitType
<1> HIDE DEF info
<1>9. t \in Shape(tree)
  BY <1>1, <1>4, <1>8, ShapeIs, NewSplitInShape
<1> HIDE DEF t
<1>10. TreeOK(t) /\ Nodes(t) = Nodes(tree) /\ Shape(t) = Shape(tree)
  BY <1>1, <1>9, ShapeIs
<1>11. tree' \in Shape(tree)
  BY <1>1, <1>3, <1>4, <1>10, CascadeIs
<1>12. TreeOK(tree')
  BY <1>1, <1>11, ShapeIs
<1> QED BY <1>2, <1>12 DEF TypeOK

LEMMA RotateType ==
  ASSUME TypeOK, NEW clockwise \in BOOLEAN, Rotate(clockwise)
  PROVE  TypeOK'
<1> DEFINE n == Cardinality(PaneSet(tree))
           from(i) == IF clockwise THEN IF i = 0 THEN n - 1 ELSE i - 1
                      ELSE IF i = n - 1 THEN 0 ELSE i + 1
           back(i) == IF clockwise THEN IF i = n - 1 THEN 0 ELSE i + 1
                      ELSE IF i = 0 THEN n - 1 ELSE i - 1
           D == DOMAIN tree.leaf
           f == [p \in D |-> tree.leaf[LeafAt(tree, from(Index(tree, p)))]]
<1>1. TreeOK(tree)
  BY DEF TypeOK
<1>2. tree' = [tree EXCEPT !.leaf = f] /\ zoomed' = zoomed
      /\ active' = active /\ size' = size /\ before' = before /\ broken' = broken
  BY DEF Rotate
<1>3. /\ n \in Nat
      /\ \A p \in D : Index(tree, p) \in 0..n - 1 /\ LeafAt(tree, Index(tree, p)) = p
      /\ \A i \in 0..n - 1 : LeafAt(tree, i) \in D /\ Index(tree, LeafAt(tree, i)) = i
  BY <1>1, IndexIs
<1> HIDE DEF n
<1>4. \A i \in 0..n - 1 : /\ from(i) \in 0..n - 1 /\ back(i) \in 0..n - 1
                          /\ from(back(i)) = i /\ back(from(i)) = i
  BY <1>3
<1> HIDE DEF from, back
<1>5. \A p \in D : f[p] = tree.leaf[LeafAt(tree, from(Index(tree, p)))] /\ LeafAt(tree, from(Index(tree, p))) \in D
  BY <1>3, <1>4
<1>6. tree.leaf \in [D -> Panes] /\ \A p, q \in D : tree.leaf[p] = tree.leaf[q] => p = q
  BY <1>1 DEF TreeOK, IsInjective
<1>7. f \in [D -> Panes]
  BY <1>5, <1>6
<1>d. f = [p \in D |-> f[p]]
  OBVIOUS
<1> HIDE DEF f
<1>8. ASSUME NEW p \in D, NEW q \in D, f[p] = f[q] PROVE p = q
  <2>1. LeafAt(tree, from(Index(tree, p))) = LeafAt(tree, from(Index(tree, q)))
    BY <1>5, <1>6, <1>8
  <2>2. Index(tree, p) \in 0..n - 1 /\ Index(tree, q) \in 0..n - 1
    BY <1>3
  <2>3. from(Index(tree, p)) = from(Index(tree, q))
    BY <1>3, <1>4, <2>1, <2>2
  <2>4. Index(tree, p) = Index(tree, q)
    BY <1>4, <2>2, <2>3
  <2> QED BY <1>3, <2>4
<1>9. IsInjective(f)
  BY <1>8, <1>7 DEF IsInjective
<1>10. TreeOK(tree') /\ PaneSet(tree') = {f[p] : p \in D}
  BY <1>1, <1>2, <1>7, <1>9, LeavesAre
<1>11. ASSUME NEW y \in PaneSet(tree) PROVE y \in PaneSet(tree')
  <2>1. PICK r \in D : y = tree.leaf[r]
    BY DEF PaneSet
  <2> DEFINE i == Index(tree, r)
             p == LeafAt(tree, back(i))
  <2>2. i \in 0..n - 1 /\ LeafAt(tree, i) = r
    BY <1>3
  <2> HIDE DEF i
  <2>3. back(i) \in 0..n - 1 /\ from(back(i)) = i
    BY <1>4, <2>2
  <2>4. p \in D /\ Index(tree, p) = back(i)
    BY <1>3, <2>3
  <2> HIDE DEF p
  <2>5. f[p] = y
    BY <1>5, <2>1, <2>2, <2>3, <2>4
  <2> QED BY <1>10, <2>4, <2>5
<1> QED BY <1>2, <1>10, <1>11 DEF TypeOK

LEMMA SwapType ==
  ASSUME TypeOK, NEW i \in Indices, NEW keepFocus \in BOOLEAN, Swap(i, keepFocus)
  PROVE  TypeOK'
<1> DEFINE a == LeafAt(tree, active)
           p == LeafAt(tree, i)
           x == tree.leaf[a]
           y == tree.leaf[p]
           D == DOMAIN tree.leaf
           f == [q \in D |-> IF q = p THEN x ELSE IF q = a THEN y ELSE tree.leaf[q]]
<1>1. TreeOK(tree) /\ active \in Nat
  BY DEF TypeOK
<1>2. zoomed = None /\ Focused # None /\ zoomed' = None
      /\ active' = (IF keepFocus THEN i ELSE active) /\ size' = size /\ before' = before /\ broken' = broken
  BY DEF Swap
<1>3. tree' = [tree EXCEPT !.leaf[a] = y, !.leaf[p] = x]
  BY DEF Swap
<1>4. active \in 0..Cardinality(PaneSet(tree)) - 1 /\ i \in 0..Cardinality(PaneSet(tree)) - 1
  BY <1>2, FocusedIs DEF Indices
<1>5. a \in D /\ p \in D /\ i \in Nat
  BY <1>1, <1>4, IndexIs
<1> HIDE DEF a, p
<1>6. tree.leaf \in [D -> Panes] /\ (\A q, r \in D : tree.leaf[q] = tree.leaf[r] => q = r)
      /\ tree = [split |-> tree.split, leaf |-> tree.leaf]
  BY <1>1 DEF TreeOK, IsInjective
<1>7. x \in Panes /\ y \in Panes
  BY <1>5, <1>6
<1>8. tree' = [tree EXCEPT !.leaf = f]
  <2> DEFINE g == [tree.leaf EXCEPT ![a] = y]
             u == [tree EXCEPT !.leaf = g]
             h == [g EXCEPT ![p] = x]
  <2> HIDE DEF x, y
  <2>1. tree' = [u EXCEPT !.leaf[p] = x]
    BY <1>3
  <2>2. u.leaf = g
    BY <1>6
  <2>3. tree' = [u EXCEPT !.leaf = h]
    BY <2>1, <2>2
  <2>4. h = f
    BY <1>5, <1>6
  <2> HIDE DEF g, h, f
  <2>5. [u EXCEPT !.leaf = h] = [tree EXCEPT !.leaf = h]
    BY <1>6
  <2> QED BY <2>3, <2>4, <2>5
<1>9. f \in [D -> Panes]
  BY <1>6, <1>7
<1>10. ASSUME NEW q \in D, NEW r \in D, f[q] = f[r] PROVE q = r
  BY <1>5, <1>6, <1>10
<1>11. IsInjective(f)
  <2>1. DOMAIN f = D
    BY <1>9
  <2> HIDE DEF f
  <2> QED BY <1>10, <2>1 DEF IsInjective
<1> HIDE DEF f
<1>12. TreeOK(tree')
  BY <1>1, <1>8, <1>9, <1>11, LeavesAre
<1> QED BY <1>1, <1>2, <1>5, <1>12 DEF TypeOK

LEMMA ActivateType ==
  ASSUME TypeOK, NEW pane \in PaneSet(tree), Activate(pane)
  PROVE  TypeOK'
<1>1. TreeOK(tree) /\ size \in SizeType /\ before \in SizeType /\ Nodes(tree) # {}
  BY UsableIs DEF Activate
<1>2. active' \in Nat
  <2>1. PathOf(tree, pane) \in DOMAIN tree.leaf
    BY <1>1, IndexIs
  <2>2. Index(tree, PathOf(tree, pane)) \in Nat
    BY <1>1, <2>1, IndexIs
  <2> QED BY <2>2 DEF Activate
<1>3. CASE zoomed = None
  BY <1>2, <1>3 DEF Activate, TypeOK
<1>4. CASE zoomed # None
  <2>1. Becomes(Resized(tree, before, size), AtLeast(tree, size))
    BY <1>4 DEF Activate
  <2>2. TreeOK(tree') /\ size' \in SizeType /\ broken' \in BOOLEAN /\ PaneSet(tree') = PaneSet(tree)
    BY <1>1, <2>1, BecomesIs, ResizedIs, AtLeastIs
  <2> QED BY <1>2, <2>2 DEF Activate, TypeOK
<1> QED BY <1>3, <1>4

LEMMA ActivateIndexType ==
  ASSUME TypeOK, NEW i \in Indices, ActivateIndex(i)
  PROVE  TypeOK'
<1>1. i \in Nat
  BY IndexIs DEF Indices, TypeOK
<1> QED BY <1>1 DEF ActivateIndex, TypeOK

LEMMA NextType ==
  TypeOK /\ [Next]_vars => TypeOK'
<1> SUFFICES ASSUME TypeOK, [Next]_vars PROVE TypeOK'
  OBVIOUS
<1>1. CASE UNCHANGED vars
  BY <1>1 DEF vars, TypeOK
<1>2. ASSUME NEW s \in Sizes, Resize(s) PROVE TypeOK'
  BY <1>2, ResizeType
<1>3. CASE ToggleZoom
  BY <1>3, ToggleZoomType
<1>4. CASE ToggleDirection
  BY <1>4, ToggleDirectionType
<1>5. ASSUME NEW pane \in Panes \ PaneSet(tree), NEW x \in Axes, NEW b \in {0, 1}, NEW ask \in Requests,
             SplitTop(pane, x, b, ask) \/ \E i \in Indices : Split(pane, i, x, b, ask)
      PROVE  TypeOK'
  BY <1>5, SplitTopType, SplitsType
<1>6. ASSUME NEW S \in SUBSET Panes, RemoveIf(S) PROVE TypeOK'
  BY <1>6, RemoveType
<1>7. ASSUME NEW p \in DOMAIN tree.split, NEW d \in Deltas, MoveSplit(p, d) PROVE TypeOK'
  BY <1>7, MoveSplitType
<1>8. ASSUME NEW clockwise \in BOOLEAN, Rotate(clockwise) PROVE TypeOK'
  BY <1>8, RotateType
<1>9. ASSUME NEW i \in Indices, ActivateIndex(i) \/ \E keepFocus \in BOOLEAN : Swap(i, keepFocus) PROVE TypeOK'
  BY <1>9, ActivateIndexType, SwapType
<1>10. ASSUME NEW pane \in PaneSet(tree), Activate(pane) PROVE TypeOK'
  BY <1>10, ActivateType
<1>11. ASSUME NEW i \in Indices, NEW x \in Axes, NEW b \in {0, 1}, NEW ask \in Requests, SplitBreaks(i, x, b, ask)
       PROVE  TypeOK'
  BY <1>11 DEF SplitBreaks, TypeOK
<1> QED BY <1>1, <1>2, <1>3, <1>4, <1>5, <1>6, <1>7, <1>8, <1>9, <1>10, <1>11 DEF Next

(* Every operation leaves a proper tree with each of its panes once. *)
THEOREM SplitTypeCorrect == Spec => []TypeOK
<1> QED BY InitType, NextType, PTL DEF Spec

(* A pass of remove_pane_if takes some of the panes that are to go. *)
THEOREM PassAlwaysTakesSome == Spec => []PassTakesSome
<1> QED BY InitType, NextType, TakesSome, PTL DEF Spec

-----------------------------------------------------------------------------
(* The focus. *)
PanesAhead(t, x) == {y \in PaneSet(t) : Before(PathOf(t, y), PathOf(t, x))}

LEMMA IndexByPanes ==
  ASSUME NEW t, TreeOK(t), NEW x \in PaneSet(t)
  PROVE  /\ IsFiniteSet(PanesAhead(t, x)) /\ Index(t, PathOf(t, x)) = Cardinality(PanesAhead(t, x))
         /\ \A y \in PaneSet(t) : y # x =>
              (y \in PanesAhead(t, x) <=> Index(t, PathOf(t, y)) < Index(t, PathOf(t, x)))
<1> DEFINE D == DOMAIN t.leaf
           A == {q \in D : Before(q, PathOf(t, x))}
           f == [q \in A |-> t.leaf[q]]
<1>1. /\ \A q \in D : PathOf(t, t.leaf[q]) = q
      /\ \A y \in PaneSet(t) : PathOf(t, y) \in D /\ t.leaf[PathOf(t, y)] = y
      /\ IsFiniteSet(D) /\ IsFiniteSet(PaneSet(t))
  BY IndexIs
<1>2. \A q, r \in D : t.leaf[q] = t.leaf[r] => q = r
  BY DEF TreeOK, IsInjective
<1>3. IsFiniteSet(A)
  BY <1>1, FS_Subset
<1>4. \A q \in A : t.leaf[q] \in PanesAhead(t, x)
  BY <1>1 DEF PanesAhead, PaneSet
<1>5. \A y \in PanesAhead(t, x) : PathOf(t, y) \in A /\ t.leaf[PathOf(t, y)] = y
  BY <1>1 DEF PanesAhead
<1>6. f \in Surjection(A, PanesAhead(t, x)) /\ f \in Injection(A, PanesAhead(t, x))
  <2>1. f \in [A -> PanesAhead(t, x)]
    BY <1>4
  <2>2. \A q, r \in A : f[q] = f[r] => q = r
    BY <1>2
  <2>3. \A y \in PanesAhead(t, x) : \E q \in A : f[q] = y
    BY <1>5
  <2> HIDE DEF f, A
  <2> QED BY <2>1, <2>2, <2>3 DEF Surjection, Injection, IsInjective
<1> HIDE DEF f
<1>7. Cardinality(PanesAhead(t, x)) = Cardinality(A) /\ IsFiniteSet(PanesAhead(t, x))
  BY <1>3, <1>6, FS_Surjection
<1>8. Index(t, PathOf(t, x)) = Cardinality(A)
  BY DEF Index
<1>9. ASSUME NEW y \in PaneSet(t), y # x
      PROVE  y \in PanesAhead(t, x) <=> Index(t, PathOf(t, y)) < Index(t, PathOf(t, x))
  <2> DEFINE p == PathOf(t, x)
             q == PathOf(t, y)
  <2>1. p \in D /\ q \in D /\ p # q
    BY <1>1, <1>9
  <2>2. D \subseteq Pos
    BY TreeIs
  <2>3. y \in PanesAhead(t, x) <=> Before(q, p)
    BY DEF PanesAhead
  <2> HIDE DEF p, q
  <2>4. p \in Pos /\ q \in Pos /\ (Before(p, q) \/ Before(q, p))
    BY <2>1, <2>2, BeforeIsOrder
  <2>5. Rank(D, p) \in Nat /\ Rank(D, q) \in Nat
        /\ (Before(p, q) => Rank(D, p) < Rank(D, q)) /\ (Before(q, p) => Rank(D, q) < Rank(D, p))
    BY <1>1, <2>1, <2>2, <2>4, RankIs
  <2>6. Before(q, p) <=> Rank(D, q) < Rank(D, p)
    BY <2>4, <2>5
  <2>7. Index(t, p) = Rank(D, p) /\ Index(t, q) = Rank(D, q)
    BY DEF Index, Rank
  <2> QED BY <2>3, <2>6, <2>7 DEF p, q
<1> QED BY <1>7, <1>8, <1>9

LEMMA IndexAfterRemoval ==
  ASSUME NEW t, TreeOK(t), NEW u, TreeOK(u), NEW x \in PaneSet(t), PaneSet(u) = PaneSet(t) \ {x}, SameOrder(t, u),
         NEW y \in PaneSet(u)
  PROVE  Index(u, PathOf(u, y)) =
           IF Index(t, PathOf(t, x)) < Index(t, PathOf(t, y)) THEN Index(t, PathOf(t, y)) - 1
           ELSE Index(t, PathOf(t, y))
<1>1. y \in PaneSet(t) /\ y # x
  OBVIOUS
<1>2. PanesAhead(u, y) = PanesAhead(t, y) \ {x}
  BY <1>1 DEF PanesAhead, SameOrder
<1>3. IsFiniteSet(PanesAhead(t, y)) /\ Index(t, PathOf(t, y)) = Cardinality(PanesAhead(t, y))
      /\ (x \in PanesAhead(t, y) <=> Index(t, PathOf(t, x)) < Index(t, PathOf(t, y)))
  BY <1>1, IndexByPanes
<1>4. Index(u, PathOf(u, y)) = Cardinality(PanesAhead(u, y))
  BY IndexByPanes
<1>5. Cardinality(PanesAhead(t, y) \ {x}) =
        IF x \in PanesAhead(t, y) THEN Cardinality(PanesAhead(t, y)) - 1 ELSE Cardinality(PanesAhead(t, y))
  BY <1>3, FS_RemoveElement
<1> QED BY <1>2, <1>3, <1>4, <1>5

LEMMA OneGoes ==
  ASSUME TypeOK, NEW x \in Panes, RemoveIf({x}), x # Focused
  PROVE  Focused' = Focused
<1> DEFINE S == {x}
           r == Removal(S)
           j == Index(tree, PathOf(tree, x))
           n == Cardinality(DOMAIN tree.leaf)
           m == Cardinality(DOMAIN r.t.leaf)
<1>1. TreeOK(tree) /\ size \in SizeType /\ active \in Nat /\ Nodes(tree) # {}
  BY UsableIs DEF RemoveIf
<1>2. Passed(r, S, Visits)
  BY <1>1, RemovalIs
<1>3. /\ tree' = r.t /\ active' = Less(active, Cardinality({i \in r.indices : i <= active}))
      /\ zoomed' = IF zoomed \in r.gone THEN None ELSE zoomed
      /\ x \in PaneSet(tree)
  BY DEF RemoveIf
<1>4. r.gone # {}
  BY <1>1, <1>2, <1>3, SomeGo
<1>5. TreeOK(r.t) /\ PaneSet(r.t) = PaneSet(tree) \ {x} /\ SameOrder(tree, r.t) /\ r.indices = {j} /\ r.gone = {x}
  BY <1>2, <1>4 DEF Passed
<1>f. Focused' = IF zoomed' # None THEN zoomed'
                 ELSE IF active' < Cardinality(DOMAIN tree'.leaf) THEN tree'.leaf[LeafAt(tree', active')]
                 ELSE None
  BY DEF Focused
<1>m. m = Cardinality(DOMAIN r.t.leaf)
  OBVIOUS
<1> HIDE DEF r, m
<1>6. n \in Nat /\ j \in 0..n - 1 /\ Cardinality(PaneSet(tree)) = n /\ IsFiniteSet(PaneSet(tree))
  BY <1>1, <1>3, IndexIs
<1>7. m \in Nat /\ Cardinality(PaneSet(r.t)) = m
  <2>1. ASSUME NEW u, TreeOK(u)
        PROVE  Cardinality(DOMAIN u.leaf) \in Nat /\ Cardinality(PaneSet(u)) = Cardinality(DOMAIN u.leaf)
    BY <2>1, IndexIs
  <2> QED BY <1>5, <1>m, <2>1
<1>8. m = n - 1
  BY <1>3, <1>5, <1>6, <1>7, FS_RemoveElement
<1>n. n = Cardinality(DOMAIN tree.leaf)
  OBVIOUS
<1> HIDE DEF n
<1>9. active' = IF j <= active /\ active # 0 THEN active - 1 ELSE active
  <2>1. CASE j <= active
    <3>1. {i \in r.indices : i <= active} = {j}
      BY <1>5, <2>1
    <3>2. Cardinality({i \in r.indices : i <= active}) = 1
      BY <3>1, FS_Singleton
    <3> QED BY <1>1, <1>3, <2>1, <3>2 DEF Less
  <2>2. CASE ~(j <= active)
    <3>1. {i \in r.indices : i <= active} = {}
      BY <1>5, <2>2
    <3>2. Cardinality({i \in r.indices : i <= active}) = 0
      BY <3>1, FS_EmptySet
    <3> QED BY <1>1, <1>3, <2>2, <3>2 DEF Less
  <2> QED BY <2>1, <2>2
<1>10. CASE zoomed # None
  <2>1. Focused = zoomed /\ zoomed # x
    BY <1>10 DEF Focused
  <2>2. zoomed' = zoomed
    BY <1>3, <1>5, <2>1
  <2> QED BY <1>10, <1>f, <2>1, <2>2
<1>11. CASE zoomed = None /\ active < n
  <2> DEFINE y == tree.leaf[LeafAt(tree, active)]
  <2>1. Focused = y
    BY <1>11, <1>n DEF Focused
  <2>2. active \in 0..n - 1
    BY <1>1, <1>6, <1>11
  <2>3. LeafAt(tree, active) \in DOMAIN tree.leaf /\ Index(tree, LeafAt(tree, active)) = active
    BY <1>1, <1>n, <2>2, IndexIs
  <2>4. PathOf(tree, y) = LeafAt(tree, active) /\ y \in PaneSet(tree)
    BY <1>1, <2>3, IndexIs DEF PaneSet
  <2> HIDE DEF y
  <2>5. Index(tree, PathOf(tree, y)) = active /\ y \in PaneSet(r.t) /\ y # x
    BY <1>5, <2>1, <2>3, <2>4
  <2>6. j # active
    <3>1. PathOf(tree, x) \in DOMAIN tree.leaf /\ tree.leaf[PathOf(tree, x)] = x
      BY <1>1, <1>3, IndexIs
    <3>2. PathOf(tree, y) \in DOMAIN tree.leaf /\ tree.leaf[PathOf(tree, y)] = y
      BY <1>1, <2>4, IndexIs
    <3> SUFFICES ASSUME j = active PROVE FALSE
      OBVIOUS
    <3>3. LeafAt(tree, Index(tree, PathOf(tree, x))) = PathOf(tree, x)
          /\ LeafAt(tree, Index(tree, PathOf(tree, y))) = PathOf(tree, y)
      BY <1>1, <3>1, <3>2, IndexIs
    <3> QED BY <2>5, <3>1, <3>2, <3>3
  <2>7. Index(r.t, PathOf(r.t, y)) =
          IF Index(tree, PathOf(tree, x)) < Index(tree, PathOf(tree, y)) THEN Index(tree, PathOf(tree, y)) - 1
          ELSE Index(tree, PathOf(tree, y))
    BY <1>1, <1>3, <1>5, <2>5, IndexAfterRemoval
  <2>8. Index(r.t, PathOf(r.t, y)) = IF j < active THEN active - 1 ELSE active
    BY <2>5, <2>7
  <2>9. PathOf(r.t, y) \in DOMAIN r.t.leaf /\ r.t.leaf[PathOf(r.t, y)] = y
    BY <1>5, <2>5, IndexIs
  <2>10. Index(r.t, PathOf(r.t, y)) \in 0..m - 1 /\ LeafAt(r.t, Index(r.t, PathOf(r.t, y))) = PathOf(r.t, y)
    BY <1>5, <1>m, <2>9, IndexIs
  <2> HIDE DEF j
  <2>11. active' = Index(r.t, PathOf(r.t, y))
    BY <1>1, <1>6, <1>9, <2>6, <2>8
  <2>12. active' < m /\ r.t.leaf[LeafAt(r.t, active')] = y
    BY <1>7, <2>9, <2>10, <2>11
  <2>13. zoomed' = None
    BY <1>3, <1>11
  <2> QED BY <1>3, <1>f, <1>m, <2>1, <2>12, <2>13
<1>12. CASE zoomed = None /\ ~(active < n)
  <2>1. Focused = None
    BY <1>12, <1>n DEF Focused
  <2> HIDE DEF j
  <2>2. ~(active' < m)
    BY <1>1, <1>6, <1>8, <1>9, <1>12
  <2>3. zoomed' = None
    BY <1>3, <1>12
  <2> QED BY <1>3, <1>f, <1>m, <2>1, <2>2, <2>3
<1> QED BY <1>10, <1>11, <1>12

(* To close one pane leaves the focus where it is, unless it has it. *)
THEOREM FocusAlwaysStays == Spec => FocusStays
<1>1. TypeOK => (Focused' # Focused /\ tree' # tree => \A p \in Panes \ {Focused} : ~RemoveIf({p}))
  BY OneGoes
<1>2. TypeOK /\ [Next]_vars =>
        [Focused' # Focused /\ tree' # tree => \A p \in Panes \ {Focused} : ~RemoveIf({p})]_vars
  BY <1>1
<1> QED BY <1>2, InitType, NextType, PTL DEF Spec, FocusStays

-----------------------------------------------------------------------------
(* Tilings. *)
Solid(s) ==
  /\ s.second[Cross(s.axis)] = s.first[Cross(s.axis)]
  /\ \A x \in Axes : s.first[x] > 0 /\ s.second[x] > 0

LEMMA TiledIs ==
  \A t, s : Tiled(t, s) <=> \A p \in DOMAIN t.split : Extent(t.split[p]) = Allotted(t, s, p) /\ Solid(t.split[p])
BY DEF Tiled, Solid

LEMMA SameSizes ==
  ASSUME NEW x \in SizeType, NEW y \in SizeType, \A a \in Axes : x[a] = y[a]
  PROVE  x = y
BY DEF SizeType

LEMMA InsertedTiles ==
  ASSUME NEW t, TreeOK(t), NEW q \in DOMAIN t.leaf, NEW b \in Bit, NEW pane, NEW info, NEW s,
         Tiled(t, s), Extent(info) = Allotted(t, s, q), Solid(info),
         NEW v, v = Inserted(t, q, b, pane, info)
  PROVE  Tiled(v, s)
<1> DEFINE at == GrowMap(t, q, 1 - b)
           u == Relocated(t, at)
<1>0. q \in Nodes(t) /\ q \in Pos /\ q \notin DOMAIN t.split /\ 1 - b \in Bit /\ \A r \in Nodes(t) : r \in Pos
  <2>1. 1 - b \in Bit
    BY DEF Bit
  <2> QED BY <2>1, TreeIs
<1>a. at = GrowMap(t, q, 1 - b) /\ u = Relocated(t, at)
  OBVIOUS
<1> HIDE DEF at, u
<1>1. v = [split |-> With(u.split, q, info), leaf |-> With(u.leaf, Append(q, b), pane)]
  BY <1>0, <1>a, InsertedIs
<1>2. GrowFits(t, q, 1 - b, at)
  BY <1>0, <1>a, GrowMapFits
<1>3. DOMAIN at = Nodes(t) /\ IsInjective(at) /\ (\A r \in Nodes(t) : ~IsPrefix(q, r) => at[r] = r)
  BY <1>2 DEF GrowFits
<1>4. \A r \in DOMAIN t.split : r \in DOMAIN at /\ at[r] = r
  <2> SUFFICES ASSUME NEW r \in DOMAIN t.split PROVE r \in DOMAIN at /\ at[r] = r
    OBVIOUS
  <2>1. r \in Nodes(t) /\ r # q
    BY <1>0, TreeIs
  <2>2. ~IsPrefix(q, r)
    BY <1>0, <2>1, AboveIsSplit
  <2> QED BY <1>3, <2>1, <2>2
<1>5. /\ \A r \in DOMAIN at : r \in DOMAIN t.split => at[r] \in DOMAIN u.split /\ u.split[at[r]] = t.split[r]
      /\ \A p \in DOMAIN u.split : \E r \in DOMAIN at : r \in DOMAIN t.split /\ p = at[r]
  BY <1>3, <1>a, RelocatedIs
<1>6. DOMAIN u.split = DOMAIN t.split /\ \A r \in DOMAIN t.split : u.split[r] = t.split[r]
  BY <1>4, <1>5
<1>7. v.split = With(u.split, q, info)
  BY <1>1
<1>8. DOMAIN v.split = DOMAIN t.split \cup {q} /\ v.split[q] = info
      /\ \A r \in DOMAIN t.split : v.split[r] = t.split[r]
  <2>1. /\ DOMAIN With(u.split, q, info) = DOMAIN u.split \cup {q} /\ With(u.split, q, info)[q] = info
        /\ \A r \in DOMAIN u.split : r # q => With(u.split, q, info)[r] = u.split[r]
    BY DEF With
  <2>2. q \notin DOMAIN u.split
    BY <1>0, <1>6
  <2>3. DOMAIN v.split = DOMAIN t.split \cup {q} /\ v.split[q] = info
    BY <1>6, <1>7, <2>1
  <2>4. \A r \in DOMAIN t.split : v.split[r] = t.split[r]
    BY <1>6, <1>7, <2>1, <2>2
  <2> QED BY <2>3, <2>4
<1>9. \A p \in Nodes(t) : Allotted(v, s, p) = Allotted(t, s, p)
  <2> SUFFICES ASSUME NEW p \in Nodes(t), p # <<>> PROVE Allotted(v, s, p) = Allotted(t, s, p)
    BY DEF Allotted
  <2>1. Front(p) \in DOMAIN t.split
    BY TreeIs
  <2>2. v.split[Front(p)] = t.split[Front(p)]
    BY <1>8, <2>1
  <2> QED BY <2>2 DEF Allotted
<1>10. ASSUME NEW p \in DOMAIN v.split PROVE Extent(v.split[p]) = Allotted(v, s, p) /\ Solid(v.split[p])
  <2>1. CASE p = q
    BY <1>0, <1>8, <1>9, <2>1
  <2>2. CASE p # q
    <3>1. p \in DOMAIN t.split /\ v.split[p] = t.split[p] /\ p \in Nodes(t)
      BY <1>8, <2>2, TreeIs
    <3>2. Extent(t.split[p]) = Allotted(t, s, p) /\ Solid(t.split[p])
      BY <3>1, TiledIs
    <3> QED BY <1>9, <3>1, <3>2
  <2> QED BY <2>1, <2>2
<1> QED BY <1>10, TiledIs

LEMMA SplitInfoTiles ==
  ASSUME NEW s \in SizeType, NEW x \in Axes, NEW b \in Bit, NEW ask \in Requests,
         NEW info, info = SplitInfo(s, x, b, ask),
         \A y \in Axes : info.first[y] > 0 /\ info.second[y] > 0
  PROVE  Extent(info) = s /\ Solid(info)
<1> DEFINE n == IF ask.unit = "percent" THEN (s[x] * ask.n) \div 100 ELSE ask.n
           target == Max({1, n})
           remain == Less(s[x], target + Gutter[x])
           f == [s EXCEPT ![x] = IF b = 1 THEN remain ELSE target]
           g == [s EXCEPT ![x] = IF b = 1 THEN target ELSE remain]
<1>1. info = [axis |-> x, first |-> f, second |-> g]
  BY DEF SplitInfo
<1>2. info.axis = x /\ info.first = f /\ info.second = g
  BY <1>1
<1>3. Gutter[x] \in Nat /\ Cross(x) \in Axes /\ Cross(x) # x /\ (\A y \in Axes : y = x \/ y = Cross(x))
  BY SizesAre
<1>4. \A y \in Axes : s[y] \in Nat
  BY DEF SizeType
<1>5. target \in Nat
  <2>1. ask.n \in Nat
    BY SplitAssumption
  <2>2. \A a, c \in Nat : (a * c) \div 100 \in Nat
    OBVIOUS
  <2>3. n \in Nat
    BY <1>4, <2>1, <2>2
  <2> HIDE DEF n
  <2>4. Max({1, n}) = IF 1 > n THEN 1 ELSE n
    BY <2>3, MaxIs
  <2> QED BY <2>3, <2>4
<1> HIDE DEF target
<1>6. remain > 0
  <2>1. f[x] > 0 /\ g[x] > 0
    BY <1>2
  <2>2. DOMAIN s = Axes
    BY DEF SizeType
  <2>3. f[x] = remain \/ g[x] = remain
    BY <2>2 DEF Bit
  <2> QED BY <2>1, <2>3
<1>7. remain = s[x] - (target + Gutter[x]) /\ remain \in Nat
  <2>1. remain = IF s[x] > target + Gutter[x] THEN s[x] - (target + Gutter[x]) ELSE 0
    BY DEF Less
  <2> HIDE DEF remain
  <2> QED BY <1>3, <1>4, <1>5, <1>6, <2>1
<1> HIDE DEF remain
<1>8. /\ f[x] + g[x] = target + remain
      /\ \A y \in Axes : y # x => f[y] = s[y] /\ g[y] = s[y]
  <2>1. DOMAIN s = Axes
    BY DEF SizeType
  <2>2. (f[x] = remain /\ g[x] = target) \/ (f[x] = target /\ g[x] = remain)
    BY <2>1 DEF Bit
  <2>3. \A y \in Axes : y # x => f[y] = s[y] /\ g[y] = s[y]
    BY <2>1
  <2> HIDE DEF f, g
  <2> QED BY <1>5, <1>7, <2>2, <2>3
<1> HIDE DEF f, g
<1>9. Solid(info)
  BY <1>2, <1>3, <1>8 DEF Solid
<1>10. Extent(info) = [y \in Axes |-> IF y = x THEN f[y] + g[y] + Gutter[y] ELSE f[y]]
  BY <1>2 DEF Extent
<1>11. \A y \in Axes : (IF y = x THEN f[y] + g[y] + Gutter[y] ELSE f[y]) = s[y]
  BY <1>3, <1>4, <1>5, <1>7, <1>8
<1>12. s = [y \in Axes |-> s[y]]
  BY DEF SizeType
<1>13. Extent(info) = s
  BY <1>10, <1>11, <1>12
<1> QED BY <1>9, <1>13

LEMMA SplitTiles ==
  ASSUME TypeOK, Tiled(tree, size), NEW pane \in Panes \ PaneSet(tree), NEW i \in Indices, NEW x \in Axes,
         NEW b \in {0, 1}, NEW ask \in Requests, Split(pane, i, x, b, ask)
  PROVE  Tiled(tree', size')
<1> DEFINE q == LeafAt(tree, i)
           info == SplitInfo(Allotted(tree, size, q), x, b, ask)
<1>1. TreeOK(tree) /\ size \in SizeType
  BY UsableIs DEF Split
<1>2. q \in DOMAIN tree.leaf
  BY <1>1, IndexIs DEF Indices
<1>3. tree' = Inserted(tree, q, b, pane, info) /\ HasSpace(info) /\ size' = size
  BY DEF Split
<1> HIDE DEF q
<1>4. q \in Nodes(tree) /\ b \in Bit
  BY <1>1, <1>2, TreeIs DEF Bit
<1>5. Allotted(tree, size, q) \in SizeType
  BY <1>1, <1>4, AllottedIs
<1>i. info = SplitInfo(Allotted(tree, size, q), x, b, ask)
  OBVIOUS
<1> HIDE DEF info
<1>6. \A y \in Axes : info.first[y] > 0 /\ info.second[y] > 0
  BY <1>3 DEF HasSpace
<1>7. Extent(info) = Allotted(tree, size, q) /\ Solid(info)
  BY <1>4, <1>5, <1>6, <1>i, SplitInfoTiles
<1>8. Tiled(tree', size)
  BY <1>1, <1>2, <1>3, <1>4, <1>7, InsertedTiles
<1> QED BY <1>3, <1>8

(* A tree whose splits fit in what their parents keep, those of D exactly *)
Nearly(t, s, D) ==
  \A p \in DOMAIN t.split :
    /\ Solid(t.split[p]) /\ Larger(Allotted(t, s, p), Extent(t.split[p]))
    /\ p \in D => Extent(t.split[p]) = Allotted(t, s, p)

LEMMA NearlyTiled ==
  ASSUME NEW t, TreeOK(t), NEW s, NEW D
  PROVE  /\ Tiled(t, s) => Nearly(t, s, D)
         /\ Nearly(t, s, D) /\ DOMAIN t.split \subseteq D => Tiled(t, s)
         /\ \A B : Nearly(t, s, D) /\ B \cap DOMAIN t.split \subseteq D => Nearly(t, s, B)
<1>1. ASSUME Tiled(t, s) PROVE Nearly(t, s, D)
  <2> SUFFICES ASSUME NEW p \in DOMAIN t.split PROVE Larger(Extent(t.split[p]), Extent(t.split[p]))
    BY <1>1, TiledIs DEF Nearly
  <2>1. Extent(t.split[p]) \in SizeType
    BY SizesAre DEF TreeOK
  <2> QED BY <2>1 DEF Larger, SizeType
<1>2. ASSUME Nearly(t, s, D), DOMAIN t.split \subseteq D PROVE Tiled(t, s)
  BY <1>2, TiledIs DEF Nearly
<1>3. ASSUME NEW B, Nearly(t, s, D), B \cap DOMAIN t.split \subseteq D PROVE Nearly(t, s, B)
  BY <1>3 DEF Nearly
<1> QED BY <1>1, <1>2, <1>3

(* What apply_pane_size makes of a split that fits in a *)
Expanded(r, a) ==
  [axis |-> r.axis,
   first |-> [r.first EXCEPT ![Cross(r.axis)] = a[Cross(r.axis)]],
   second |-> [y \in Axes |-> IF y = r.axis THEN Less(a[y], Gutter[y] + r.first[y]) ELSE a[y]]]

LEMMA ExpandedIs ==
  ASSUME NEW r \in SplitType, NEW a \in SizeType, Solid(r), Larger(a, Extent(r)), NEW w, w = Expanded(r, a)
  PROVE  /\ Extent(w) = a /\ Solid(w)
         /\ \A b \in Bit : Larger(Side(w, b), Side(r, b))
<1> DEFINE x == r.axis
           z == Cross(x)
<1>1. x \in Axes /\ z \in Axes /\ z # x /\ (\A y \in Axes : y = x \/ y = z)
      /\ r.first \in SizeType /\ r.second \in SizeType /\ Gutter[x] \in Nat
  BY SizesAre
<1>2. /\ a[x] \in Nat /\ a[z] \in Nat /\ r.first[x] \in Nat /\ r.first[z] \in Nat
      /\ r.second[x] \in Nat /\ r.second[z] \in Nat /\ DOMAIN r.first = Axes
  BY <1>1 DEF SizeType
<1>3. a[x] >= r.first[x] + r.second[x] + Gutter[x] /\ a[z] >= r.first[z]
  BY <1>1 DEF Larger, Extent
<1>4. r.second[z] = r.first[z] /\ r.first[x] > 0 /\ r.second[x] > 0 /\ r.first[z] > 0 /\ r.second[z] > 0
  BY <1>1 DEF Solid
<1>5. w.axis = x /\ w.first = [r.first EXCEPT ![z] = a[z]]
      /\ w.second = [y \in Axes |-> IF y = x THEN Less(a[y], Gutter[y] + r.first[y]) ELSE a[y]]
  BY DEF Expanded
<1>x. x = r.axis /\ z = Cross(x)
  OBVIOUS
<1> HIDE DEF x, z
<1>6. w.first[x] = r.first[x] /\ w.first[z] = a[z] /\ w.second[z] = a[z]
      /\ w.second[x] = Less(a[x], Gutter[x] + r.first[x])
  BY <1>1, <1>2, <1>5
<1>7. w.second[x] = a[x] - (Gutter[x] + r.first[x])
  <2>1. a[x] > Gutter[x] + r.first[x]
    BY <1>1, <1>2, <1>3, <1>4
  <2> QED BY <1>6, <2>1 DEF Less
<1>8. w.second[x] >= r.second[x]
  BY <1>1, <1>2, <1>3, <1>7
<1>9. Solid(w)
  <2>1. w.second[z] = w.first[z] /\ w.first[x] > 0 /\ w.second[x] > 0 /\ w.first[z] > 0 /\ w.second[z] > 0
    BY <1>1, <1>2, <1>3, <1>4, <1>6, <1>7
  <2> QED BY <1>1, <1>5, <1>x, <2>1 DEF Solid
<1>10. Extent(w) = a
  <2>1. Extent(w) = [y \in Axes |-> IF y = x THEN w.first[y] + w.second[y] + Gutter[y] ELSE w.first[y]]
    BY <1>5 DEF Extent
  <2>2. w.first[x] + w.second[x] + Gutter[x] = a[x]
    BY <1>1, <1>2, <1>6, <1>7
  <2>3. \A y \in Axes : (IF y = x THEN w.first[y] + w.second[y] + Gutter[y] ELSE w.first[y]) = a[y]
    BY <1>1, <1>6, <2>2
  <2>4. a = [y \in Axes |-> a[y]]
    BY DEF SizeType
  <2> QED BY <2>1, <2>3, <2>4
<1>11. \A y \in Axes : w.first[y] >= r.first[y] /\ w.second[y] >= r.second[y]
  <2>1. w.first[x] >= r.first[x] /\ w.first[z] >= r.first[z] /\ w.second[z] >= r.second[z]
    BY <1>2, <1>3, <1>4, <1>6
  <2> QED BY <1>1, <1>8, <2>1
<1>12. \A b \in Bit : Larger(Side(w, b), Side(r, b))
  BY <1>11 DEF Bit, Larger, Side
<1> QED BY <1>9, <1>10, <1>12

LEMMA ApplySizeTiles ==
  ASSUME NEW t, TreeOK(t), NEW s \in SizeType, NEW p \in Nodes(t), NEW a, a = Allotted(t, s, p),
         NEW D, Nearly(t, s, D), \A c \in Bit : Append(p, c) \notin D,
         NEW v, v = ApplySize(t, p, a)
  PROVE  Nearly(v, s, D \cup {p})
<1>1. CASE p \notin DOMAIN t.split
  <2>1. v = t
    BY <1>1 DEF ApplySize
  <2> QED BY <1>1, <2>1 DEF Nearly
<1>2. CASE p \in DOMAIN t.split
  <2> DEFINE r == t.split[p]
             w == Expanded(r, a)
  <2>1. a \in SizeType /\ r \in SplitType /\ Solid(r) /\ Larger(a, Extent(r))
    BY <1>2, AllottedIs DEF TreeOK, Nearly
  <2>r. r = t.split[p]
    OBVIOUS
  <2>w. w = Expanded(r, a)
    OBVIOUS
  <2>2. v = [t EXCEPT !.split[p] = w]
    BY <1>2, <2>1, ApplySizeIs DEF Expanded
  <2> HIDE DEF w, r
  <2>3. Extent(w) = a /\ Solid(w) /\ \A b \in Bit : Larger(Side(w, b), Side(r, b))
    BY <2>1, <2>w, ExpandedIs
  <2>4. v.split = [t.split EXCEPT ![p] = w]
    <3>1. t = [split |-> t.split, leaf |-> t.leaf]
      BY DEF TreeOK
    <3> QED BY <2>2, <3>1
  <2>5. DOMAIN v.split = DOMAIN t.split /\ v.split[p] = w
        /\ \A q \in DOMAIN t.split : q # p => v.split[q] = t.split[q]
    BY <1>2, <2>4
  <2>6. ASSUME NEW q \in Nodes(t), q = <<>> \/ Front(q) # p PROVE Allotted(v, s, q) = Allotted(t, s, q)
    <3>1. CASE q = <<>>
      BY <3>1 DEF Allotted
    <3>2. CASE q # <<>>
      <4>1. Front(q) \in DOMAIN t.split
        BY <3>2, TreeIs
      <4>2. v.split[Front(q)] = t.split[Front(q)]
        BY <2>5, <2>6, <3>2, <4>1
      <4> QED BY <3>2, <4>2 DEF Allotted
    <3> QED BY <3>1, <3>2
  <2>7. ASSUME NEW q \in Nodes(t), q # <<>>, Front(q) = p
        PROVE  q \notin D \cup {p} /\ Larger(Allotted(v, s, q), Allotted(t, s, q))
    <3>1. Last(q) \in Bit /\ q = Append(p, Last(q)) /\ p \in Pos
      BY <2>7, TreeIs
    <3>2. q # p
      <4>1. Len(Append(p, Last(q))) = Len(p) + 1 /\ Len(p) \in Nat
        BY <3>1, ChildIs
      <4> QED BY <3>1, <4>1
    <3>3. Allotted(v, s, q) = Side(w, Last(q)) /\ Allotted(t, s, q) = Side(r, Last(q))
      BY <2>5, <2>7, <2>r DEF Allotted
    <3> QED BY <2>3, <3>1, <3>2, <3>3
  <2>8. p = <<>> \/ Front(p) # p
    <3> SUFFICES ASSUME p # <<>>, Front(p) = p PROVE FALSE
      OBVIOUS
    <3>1. Last(p) \in Bit /\ p = Append(p, Last(p)) /\ p \in Pos
      BY TreeIs
    <3>2. Len(Append(p, Last(p))) = Len(p) + 1 /\ Len(p) \in Nat
      BY <3>1, ChildIs
    <3> QED BY <3>1, <3>2
  <2>9. ASSUME NEW q \in DOMAIN v.split
        PROVE  /\ Solid(v.split[q]) /\ Larger(Allotted(v, s, q), Extent(v.split[q]))
               /\ q \in D \cup {p} => Extent(v.split[q]) = Allotted(v, s, q)
    <3>0. q \in DOMAIN t.split /\ q \in Nodes(t)
      BY <2>5, TreeIs
    <3>1. CASE q = p
      <4>1. Allotted(v, s, p) = a
        BY <2>6, <2>8
      <4>2. Larger(a, a)
        BY <2>1 DEF Larger, SizeType
      <4> QED BY <2>3, <2>5, <3>1, <4>1, <4>2
    <3>2. CASE q # p
      <4>1. v.split[q] = t.split[q]
        BY <2>5, <3>0, <3>2
      <4>2. /\ Solid(t.split[q]) /\ Larger(Allotted(t, s, q), Extent(t.split[q]))
            /\ q \in D => Extent(t.split[q]) = Allotted(t, s, q)
        BY <3>0 DEF Nearly
      <4>3. CASE q = <<>> \/ Front(q) # p
        BY <2>6, <3>0, <3>2, <4>1, <4>2, <4>3
      <4>4. CASE q # <<>> /\ Front(q) = p
        <5>1. q \notin D \cup {p} /\ Larger(Allotted(v, s, q), Allotted(t, s, q))
          BY <2>7, <3>0, <4>4
        <5>2. Allotted(t, s, q) \in SizeType /\ Extent(t.split[q]) \in SizeType
          BY <3>0, AllottedIs, SizesAre DEF TreeOK
        <5>3. Allotted(v, s, q) \in SizeType
          <6>1. TreeOK(v) /\ Nodes(v) = Nodes(t)
            BY <2>1, ApplySizeIs, ShapeIs
          <6> QED BY <3>0, <6>1, AllottedIs
        <5>4. Larger(Allotted(v, s, q), Extent(t.split[q]))
          <6>1. \A l, m, n \in SizeType : Larger(l, m) /\ Larger(m, n) => Larger(l, n)
            BY DEF Larger, SizeType
          <6> QED BY <4>2, <5>1, <5>2, <5>3, <6>1
        <5> QED BY <4>1, <4>2, <5>1, <5>4
      <4> QED BY <4>3, <4>4
    <3> QED BY <3>1, <3>2
  <2> QED BY <2>9 DEF Nearly
<1> QED BY <1>1, <1>2

Behind(p) == {r \in Pos : Before(r, p)}

LEMMA BehindIs ==
  /\ \A p, r \in Pos : r \in Behind(p) <=> Before(r, p)
  /\ \A p \in Pos, c \in Bit : p \in Behind(Append(p, c)) /\ Append(p, c) \notin Behind(p)
<1>1. ASSUME NEW p \in Pos, NEW c \in Bit PROVE p \in Behind(Append(p, c)) /\ Append(p, c) \notin Behind(p)
  <2> DEFINE n == Append(p, c)
  <2>1. n \in Pos /\ Len(n) = Len(p) + 1 /\ Len(p) \in Nat /\ IsPrefix(p, n)
    BY ChildIs, PrefixOfChild
  <2> HIDE DEF n
  <2>2. p # n
    BY <2>1
  <2>3. Before(p, n)
    BY <2>1, <2>2 DEF Before
  <2>4. ~Before(n, p)
    BY <2>1, <2>3, BeforeIsOrder
  <2>5. p \in Behind(n) /\ n \notin Behind(p)
    BY <2>3, <2>4 DEF Behind
  <2> QED BY <2>5 DEF n
<1> QED BY <1>1 DEF Behind

LEMMA FewerNodes ==
  ASSUME NEW t, TreeOK(t), NEW q \in DOMAIN t.split, NEW b \in Bit, NEW at, at = CutMap(t, q, b)
  PROVE  Cardinality(Range(at)) < Cardinality(Nodes(t))
<1>1. DOMAIN at \subseteq Nodes(t) /\ q \notin DOMAIN at /\ q \in Nodes(t) /\ IsFiniteSet(Nodes(t))
  BY CutMapIs, TreeIs
<1>2. IsFiniteSet(DOMAIN at) /\ Cardinality(DOMAIN at) < Cardinality(Nodes(t))
  <2>1. IsFiniteSet(DOMAIN at) /\ Cardinality(DOMAIN at) <= Cardinality(Nodes(t))
        /\ (Cardinality(Nodes(t)) = Cardinality(DOMAIN at) => Nodes(t) = DOMAIN at)
    BY <1>1, FS_Subset
  <2>2. Cardinality(DOMAIN at) \in Nat /\ Cardinality(Nodes(t)) \in Nat
    BY <1>1, <2>1, FS_CardinalityType
  <2> QED BY <1>1, <2>1, <2>2
<1>3. at \in Surjection(DOMAIN at, Range(at))
  <2>1. at = [r \in DOMAIN at |-> at[r]]
    BY DEF CutMap
  <2>2. at \in [DOMAIN at -> Range(at)]
    BY <2>1 DEF Range
  <2> QED BY <2>2 DEF Surjection, Range
<1>4. IsFiniteSet(Range(at)) /\ Cardinality(Range(at)) <= Cardinality(DOMAIN at)
  BY <1>2, <1>3, FS_Surjection
<1>5. Cardinality(Range(at)) \in Nat /\ Cardinality(DOMAIN at) \in Nat /\ Cardinality(Nodes(t)) \in Nat
  BY <1>1, <1>2, <1>4, FS_CardinalityType
<1> QED BY <1>2, <1>4, <1>5

(* What is left when the child p of q goes, before q is resized *)
Gone(t, s, q, w) ==
  /\ Nearly(w, s, Behind(q)) /\ Allotted(w, s, q) = Extent(t.split[q])
  /\ Cardinality(Nodes(w)) < Cardinality(Nodes(t))

LEMMA UnsplitTiles ==
  ASSUME NEW t, TreeOK(t), NEW s \in SizeType, NEW q \in DOMAIN t.split, NEW c \in Bit, NEW p, p = Append(q, c),
         Nearly(t, s, Behind(p)), NEW w, w = Unsplit(t, q, 1 - c)
  PROVE  Gone(t, s, q, w)
<1> DEFINE b == 1 - c
           at == CutMap(t, q, b)
           x == Append(q, b)
<1>0. b \in Bit /\ b # c
  BY DEF Bit
<1>b. b = 1 - c
  OBVIOUS
<1> HIDE DEF b
<1>a. at = CutMap(t, q, b)
  OBVIOUS
<1> HIDE DEF at
<1>1. w = Relocated(t, at) /\ Fits(t, at) /\ TreeOK(w) /\ Nodes(w) = Range(at)
  BY <1>0, <1>a, <1>b, UnsplitIsTree
<1>2. q \in Pos /\ (\A r \in Nodes(t) : r \in Pos) /\ q \in Nodes(t) /\ p \in Nodes(t)
  BY TreeIs
<1>3. /\ DOMAIN at \subseteq Nodes(t) /\ q \notin DOMAIN at
      /\ \A r \in DOMAIN at : /\ r \in Pos /\ at[r] \in Pos
                              /\ ~IsPrefix(q, r) => at[r] = r
                              /\ IsPrefix(q, r) => IsPrefix(x, r) /\ IsPrefix(q, at[r])
      /\ \A r \in Nodes(t) \ DOMAIN at : IsPrefix(q, r) /\ ~IsPrefix(x, r)
  BY <1>0, <1>a, CutMapIs
<1>4. /\ x \in DOMAIN at /\ at[x] = q
      /\ \A r, v \in DOMAIN at : at[r] = at[v] => r = v
      /\ \A r \in DOMAIN at, d \in Bit : r \in DOMAIN t.split /\ Append(r, d) # q =>
           Append(r, d) \in DOMAIN at /\ at[Append(r, d)] = Append(at[r], d)
  <2>1. CutFits(t, q, b, at)
    BY <1>0, <1>a, CutMapFits
  <2> QED BY <2>1 DEF CutFits
<1>5. /\ \A r \in DOMAIN at : r \in DOMAIN t.split => at[r] \in DOMAIN w.split /\ w.split[at[r]] = t.split[r]
      /\ \A v \in DOMAIN w.split : \E r \in DOMAIN at : r \in DOMAIN t.split /\ v = at[r]
  <2>1. IsInjective(at)
    BY <1>1 DEF Fits
  <2> QED BY <1>1, <2>1, RelocatedIs
<1>6. Cardinality(Nodes(w)) < Cardinality(Nodes(t))
  BY <1>0, <1>1, <1>a, FewerNodes
<1>x. x = Append(q, b) /\ x \in Pos /\ x # <<>> /\ Front(x) = q /\ Last(x) = b /\ x \in Nodes(t)
  BY <1>0, <1>2, ChildIs, TreeIs
<1> HIDE DEF x
<1>7. Extent(t.split[q]) = Allotted(t, s, q)
  <2>1. q \in Behind(p)
    BY <1>2, BehindIs
  <2> QED BY <2>1 DEF Nearly
<1>8. Allotted(w, s, q) = Allotted(t, s, q)
  <2>1. CASE q = <<>>
    BY <2>1 DEF Allotted
  <2>2. CASE q # <<>>
    <3> DEFINE f == Front(q)
    <3>1. f \in DOMAIN t.split /\ Last(q) \in Bit /\ q = Append(f, Last(q)) /\ f \in Nodes(t) /\ f \in Pos
      BY <1>2, <2>2, TreeIs
    <3> HIDE DEF f
    <3>2. ~IsPrefix(q, f)
      <4>1. Len(q) = Len(f) + 1 /\ Len(f) \in Nat
        BY <3>1, ChildIs
      <4>2. IsPrefix(q, f) => Len(q) <= Len(f)
        BY <1>2, <3>1, PrefixOrder
      <4> QED BY <4>1, <4>2
    <3>3. f \in DOMAIN at /\ at[f] = f
      BY <1>3, <3>1, <3>2
    <3>4. w.split[f] = t.split[f]
      BY <1>5, <3>1, <3>3
    <3> QED BY <2>2, <3>4 DEF Allotted, f
  <2> QED BY <2>1, <2>2
<1>9. ASSUME NEW r \in DOMAIN at, r # x PROVE at[r] # q /\ Allotted(w, s, at[r]) = Allotted(t, s, r)
  <2>0. at[r] # q /\ r # q /\ r \in Nodes(t)
    BY <1>3, <1>4, <1>9
  <2>1. CASE r = <<>>
    <3>1. ~IsPrefix(q, r)
      <4>1. IsPrefix(q, r) => q = <<>>
        BY <1>2, <2>1, PrefixOrder
      <4> QED BY <2>0, <2>1, <4>1
    <3>2. at[r] = r
      BY <1>3, <3>1
    <3> QED BY <2>0, <2>1, <3>2 DEF Allotted
  <2>2. CASE r # <<>>
    <3> DEFINE f == Front(r)
               d == Last(r)
    <3>1. f \in DOMAIN t.split /\ d \in Bit /\ r = Append(f, d) /\ f \in Nodes(t) /\ f \in Pos
      BY <2>0, <2>2, TreeIs
    <3>d. f = Front(r) /\ d = Last(r)
      OBVIOUS
    <3> HIDE DEF f, d
    <3>2. f \in DOMAIN at
      <4> SUFFICES ASSUME f \notin DOMAIN at PROVE FALSE
        OBVIOUS
      <4>1. IsPrefix(q, f) /\ ~IsPrefix(x, f)
        BY <1>3, <3>1
      <4>2. IsPrefix(q, r)
        BY <1>2, <3>1, <4>1, PrefixOfChild
      <4>3. IsPrefix(x, r)
        BY <1>3, <4>2
      <4>4. x = r \/ IsPrefix(x, f)
        BY <1>x, <3>1, <4>3, PrefixOfChild
      <4> QED BY <1>9, <4>1, <4>4
    <3>3. at[r] = Append(at[f], d)
      BY <1>4, <2>0, <3>1, <3>2
    <3>4. at[r] # <<>> /\ Front(at[r]) = at[f] /\ Last(at[r]) = d
      <4> DEFINE g == at[f]
      <4>1. g \in Pos
        BY <1>3, <3>2
      <4> HIDE DEF g
      <4>2. Append(g, d) # <<>> /\ Front(Append(g, d)) = g /\ Last(Append(g, d)) = d
        BY <3>1, <4>1, ChildIs
      <4> QED BY <3>3, <4>2 DEF g
    <3>5. w.split[at[f]] = t.split[f]
      BY <1>5, <3>1, <3>2
    <3>6. Allotted(w, s, at[r]) = Side(w.split[at[f]], d)
      BY <3>4 DEF Allotted
    <3>7. Allotted(t, s, r) = Side(t.split[f], d)
      BY <2>2, <3>d DEF Allotted
    <3> QED BY <2>0, <3>5, <3>6, <3>7
  <2> QED BY <2>1, <2>2
<1>10. Larger(Allotted(w, s, q), Allotted(t, s, x))
  <2>1. Allotted(t, s, x) = Side(t.split[q], b)
    BY <1>x DEF Allotted
  <2>2. t.split[q] \in SplitType /\ Solid(t.split[q])
    BY DEF TreeOK, Nearly
  <2>3. Larger(Extent(t.split[q]), Side(t.split[q], b))
    <3> DEFINE k == t.split[q]
    <3>1. k \in SplitType /\ Solid(k)
      BY <2>2
    <3> HIDE DEF k
    <3>2. k.axis \in Axes /\ k.first \in SizeType /\ k.second \in SizeType /\ Cross(k.axis) \in Axes
          /\ \A y \in Axes : Gutter[y] \in Nat /\ (y = k.axis \/ y = Cross(k.axis))
      BY <3>1, SizesAre
    <3>3. k.second[Cross(k.axis)] = k.first[Cross(k.axis)]
      BY <3>1 DEF Solid
    <3>4. ASSUME NEW y \in Axes PROVE Extent(k)[y] >= k.first[y] /\ Extent(k)[y] >= k.second[y]
      <4>1. Extent(k)[y] = IF y = k.axis THEN k.first[y] + k.second[y] + Gutter[y] ELSE k.first[y]
        BY DEF Extent
      <4>2. k.first[y] \in Nat /\ k.second[y] \in Nat /\ Gutter[y] \in Nat
        BY <3>2 DEF SizeType
      <4> QED BY <3>2, <3>3, <4>1, <4>2
    <3>5. Larger(Extent(k), Side(k, b))
      BY <1>0, <3>4 DEF Larger, Side
    <3> QED BY <3>5 DEF k
  <2> QED BY <1>7, <1>8, <2>1, <2>3
<1>11. ASSUME NEW v \in DOMAIN w.split
       PROVE  /\ Solid(w.split[v]) /\ Larger(Allotted(w, s, v), Extent(w.split[v]))
              /\ v \in Behind(q) => Extent(w.split[v]) = Allotted(w, s, v)
  <2>1. PICK r \in DOMAIN at : r \in DOMAIN t.split /\ v = at[r]
    BY <1>5
  <2>2. w.split[v] = t.split[r]
    BY <1>5, <2>1
  <2>3. /\ Solid(t.split[r]) /\ Larger(Allotted(t, s, r), Extent(t.split[r]))
        /\ r \in Behind(p) => Extent(t.split[r]) = Allotted(t, s, r)
    BY <2>1 DEF Nearly
  <2>4. CASE r = x
    <3>1. v = q
      BY <1>4, <2>1, <2>4
    <3>2. v \notin Behind(q)
      BY <1>2, <3>1, BeforeIsOrder DEF Behind
    <3>3. Allotted(w, s, q) \in SizeType /\ Allotted(t, s, x) \in SizeType /\ Extent(t.split[x]) \in SizeType
      BY <1>1, <1>2, <1>7, <1>8, <1>x, <2>1, <2>4, AllottedIs, SizesAre DEF TreeOK
    <3>4. \A l, m, n \in SizeType : Larger(l, m) /\ Larger(m, n) => Larger(l, n)
      BY DEF Larger, SizeType
    <3>5. Larger(Allotted(w, s, q), Extent(t.split[x]))
      BY <1>10, <2>3, <2>4, <3>3, <3>4
    <3> QED BY <2>2, <2>3, <2>4, <3>1, <3>2, <3>5
  <2>5. CASE r # x
    <3>1. Allotted(w, s, v) = Allotted(t, s, r)
      BY <1>9, <2>1, <2>5
    <3>2. ASSUME v \in Behind(q) PROVE r \in Behind(p)
      <4>1. v \in Pos /\ r \in Pos /\ p \in Pos /\ Before(v, q)
        BY <1>2, <1>3, <2>1, <3>2 DEF Behind
      <4>2. ~IsPrefix(q, v)
        <5>1. IsPrefix(q, v) /\ q # v => Before(q, v)
          BY DEF Before
        <5> QED BY <1>2, <4>1, <5>1, BeforeIsOrder
      <4>3. v = r
        BY <1>3, <2>1, <4>2
      <4>4. Before(q, p)
        BY <1>2, BehindIs DEF Behind
      <4> QED BY <1>2, <4>1, <4>3, <4>4, BeforeIsOrder DEF Behind
    <3> QED BY <2>2, <2>3, <3>1, <3>2
  <2> QED BY <2>4, <2>5
<1>12. Nearly(w, s, Behind(q))
  BY <1>11 DEF Nearly
<1> QED BY <1>6, <1>7, <1>8, <1>12 DEF Gone

LEMMA Squares ==
  ASSUME NEW l \in Nat, NEW m \in Nat, m < l
  PROVE  l * l \in Nat /\ m * m \in Nat /\ m * m + l < l * l + 1
<1>1. \A a, b \in Nat : (m + 1 + a) * b = m * b + b + a * b
  OBVIOUS
<1>2. \A a, b \in Nat : a * b \in Nat
  OBVIOUS
<1> DEFINE a == l - m - 1
<1>3. a \in Nat /\ l = m + 1 + a
  OBVIOUS
<1> HIDE DEF a
<1>4. l * l = m * l + l + a * l
  BY <1>1, <1>3
<1>5. m * l = m * m + m + m * a
  <2>1. \A x, y, z \in Nat : x * (y + 1 + z) = x * y + x + x * z
    OBVIOUS
  <2> QED BY <1>3, <2>1
<1>6. m * a \in Nat /\ a * l \in Nat /\ m * l \in Nat /\ l * l \in Nat /\ m * m \in Nat
  BY <1>2, <1>3
<1> QED BY <1>4, <1>5, <1>6

(* Where a pass is in tiling the tree again after k visits: at the end, or *)
(* before p with all that comes before it done, and visits left.           *)
Tiling(t, at, k) ==
  \/ at = {} /\ Tiled(t, size)
  \/ \E p \in Nodes(t) :
       /\ at = {p} /\ Nearly(t, size, Behind(p))
       /\ k + Cardinality(Nodes(t)) * Cardinality(Nodes(t)) <= Visits + Rank(Nodes(t), p)

LEMMA Onward ==
  ASSUME NEW v, TreeOK(v), NEW p \in Nodes(v), Nearly(v, size, Behind(p) \cup {p}), NEW k \in Nat, Visits \in Nat,
         k + Cardinality(Nodes(v)) * Cardinality(Nodes(v)) <= Visits + Rank(Nodes(v), p)
  PROVE  Tiling(v, After(v, p), k + 1)
<1>1. (\A q \in Nodes(v) : q \in Pos) /\ DOMAIN v.split \subseteq Nodes(v) /\ IsFiniteSet(Nodes(v))
  BY TreeIs
<1>2. CASE After(v, p) = {} /\ \A q \in Nodes(v) : ~Before(p, q)
  <2>1. ASSUME NEW q \in DOMAIN v.split PROVE q \in Behind(p) \cup {p}
    BY <1>1, <1>2, BeforeIsOrder DEF Behind
  <2>2. Tiled(v, size)
    BY <2>1, NearlyTiled
  <2> QED BY <1>2, <2>2 DEF Tiling
<1>3. ASSUME NEW n, After(v, p) = {n}, Follows(v, p, n) PROVE Tiling(v, After(v, p), k + 1)
  <2>1. n \in Nodes(v) /\ \A q \in Nodes(v) : Before(q, n) => q = p \/ Before(q, p)
    BY <1>3 DEF Follows
  <2>2. Behind(n) \cap DOMAIN v.split \subseteq Behind(p) \cup {p}
    BY <1>1, <2>1 DEF Behind
  <2>3. Nearly(v, size, Behind(n))
    BY <2>2, NearlyTiled
  <2>4. Rank(Nodes(v), n) = Rank(Nodes(v), p) + 1
    BY <1>3, NextRank
  <2>5. Rank(Nodes(v), p) \in Nat
    BY <1>1, RankIs
  <2>6. Cardinality(Nodes(v)) * Cardinality(Nodes(v)) \in Nat
    <3>1. \A a \in Nat : a * a \in Nat
      OBVIOUS
    <3> QED BY <1>1, <3>1, FS_CardinalityType
  <2>7. (k + 1) + Cardinality(Nodes(v)) * Cardinality(Nodes(v)) <= Visits + Rank(Nodes(v), n)
    BY <2>4, <2>5, <2>6
  <2> QED BY <1>3, <2>1, <2>3, <2>7 DEF Tiling
<1> QED BY <1>2, <1>3, AfterIs

LEMMA VisitTilesSplit ==
  ASSUME TreeOK(tree), size \in SizeType, Tiled(tree, size), Visits \in Nat, NEW S, NEW k \in Nat, NEW r,
         Passed(r, S, k), NEW p \in DOMAIN r.t.split, r.at = {p}, Tiling(r.t, r.at, k),
         NEW t, t = IF r.gone = {} THEN r.t ELSE ApplySize(r.t, p, Allotted(r.t, size, p))
  PROVE  Tiling(t, After(t, p), k + 1)
<1>1. TreeOK(r.t) /\ (r.gone = {} => r.t = tree)
  BY DEF Passed
<1>2. p \in Nodes(r.t) /\ p \in Pos
  BY <1>1, TreeIs
<1>3. Nearly(r.t, size, Behind(p))
      /\ k + Cardinality(Nodes(r.t)) * Cardinality(Nodes(r.t)) <= Visits + Rank(Nodes(r.t), p)
  BY DEF Tiling
<1>4. TreeOK(t) /\ Nodes(t) = Nodes(r.t)
  BY <1>1, <1>2, AllottedIs, ApplySizeIs, ShapeIs
<1>5. Nearly(t, size, Behind(p) \cup {p})
  <2>1. CASE r.gone = {}
    BY <1>1, <2>1, NearlyTiled
  <2>2. CASE r.gone # {}
    <3>1. t = ApplySize(r.t, p, Allotted(r.t, size, p))
      BY <2>2
    <3>2. \A c \in Bit : Append(p, c) \notin Behind(p)
      BY <1>2, BehindIs
    <3> QED BY <1>1, <1>2, <1>3, <3>1, <3>2, ApplySizeTiles
  <2> QED BY <2>1, <2>2
<1>6. k + Cardinality(Nodes(t)) * Cardinality(Nodes(t)) <= Visits + Rank(Nodes(t), p)
  BY <1>3, <1>4
<1> QED BY <1>2, <1>4, <1>5, <1>6, Onward

LEMMA VisitTilesGone ==
  ASSUME size \in SizeType, Visits \in Nat, NEW t, TreeOK(t), NEW k \in Nat, NEW p \in DOMAIN t.leaf, p # <<>>,
         Tiling(t, {p}, k), NEW u, u = Without(t, p)
  PROVE  Tiling(u, After(u, Front(p)), k + 1)
<1> DEFINE q == Front(p)
           c == Last(p)
           w == Unsplit(t, q, 1 - c)
<1>1. q \in DOMAIN t.split /\ c \in Bit /\ p = Append(q, c) /\ q \in Pos /\ p \in Nodes(t)
  BY TreeIs
<1>2. u = ApplySize(w, q, Extent(t.split[q]))
  BY DEF Without
<1>q. q = Front(p) /\ w = Unsplit(t, q, 1 - c)
  OBVIOUS
<1> HIDE DEF q, c, w
<1>3. Nearly(t, size, Behind(p))
      /\ k + Cardinality(Nodes(t)) * Cardinality(Nodes(t)) <= Visits + Rank(Nodes(t), p)
  BY DEF Tiling
<1>4. Gone(t, size, q, w)
  BY <1>1, <1>3, <1>q, UnsplitTiles
<1>5. Takes(t, q, p, w)
  BY <1>1, <1>q, UnsplitTakes
<1>6. /\ TreeOK(w) /\ q \in Nodes(w) /\ Nearly(w, size, Behind(q)) /\ Allotted(w, size, q) = Extent(t.split[q])
      /\ Cardinality(Nodes(w)) < Cardinality(Nodes(t))
  BY <1>4, <1>5 DEF Gone, Takes
<1>7. Extent(t.split[q]) \in SizeType
  BY <1>1, SizesAre DEF TreeOK
<1>8. TreeOK(u) /\ Nodes(u) = Nodes(w)
  BY <1>2, <1>6, <1>7, ApplySizeIs, ShapeIs
<1>9. Nearly(u, size, Behind(q) \cup {q})
  <2>1. \A d \in Bit : Append(q, d) \notin Behind(q)
    BY <1>1, BehindIs
  <2> QED BY <1>2, <1>6, <2>1, ApplySizeTiles
<1>10. k + Cardinality(Nodes(u)) * Cardinality(Nodes(u)) <= Visits + Rank(Nodes(u), q)
  <2> DEFINE l == Cardinality(Nodes(t))
             m == Cardinality(Nodes(w))
             x == Rank(Nodes(t), p)
             y == Rank(Nodes(u), q)
  <2>1. l \in Nat /\ m \in Nat /\ m < l
    BY <1>6, TreeIs, FS_CardinalityType
  <2>2. x \in Nat /\ x < l /\ y \in Nat
    BY <1>1, <1>8, TreeIs, RankIs
  <2>3. k + l * l <= Visits + x
    BY <1>3
  <2>4. Cardinality(Nodes(u)) = m
    BY <1>8
  <2> HIDE DEF l, m, x, y
  <2>5. l * l \in Nat /\ m * m \in Nat /\ m * m + l < l * l + 1
    BY <2>1, Squares
  <2>6. k + m * m <= Visits + y
    BY <2>1, <2>2, <2>3, <2>5
  <2> QED BY <2>4, <2>6 DEF y
<1>11. Tiling(u, After(u, q), k + 1)
  BY <1>6, <1>8, <1>9, <1>10, Onward
<1> QED BY <1>11, <1>q

LEMMA VisitTiles ==
  ASSUME TreeOK(tree), size \in SizeType, Tiled(tree, size), Visits \in Nat, NEW S, NEW k \in Nat, NEW r,
         Passed(r, S, k), Tiling(r.t, r.at, k), NEW v, v = Visit(r, S)
  PROVE  Tiling(v.t, v.at, k + 1)
<1>0. TreeOK(r.t) /\ r.at \subseteq Nodes(r.t)
  BY DEF Passed
<1>1. CASE r.at = {}
  <2>1. v = r
    BY <1>1 DEF Visit
  <2> QED BY <1>1, <2>1 DEF Tiling
<1>2. CASE r.at # {}
  <2>1. PICK p \in Nodes(r.t) :
          /\ r.at = {p} /\ Nearly(r.t, size, Behind(p))
          /\ k + Cardinality(Nodes(r.t)) * Cardinality(Nodes(r.t)) <= Visits + Rank(Nodes(r.t), p)
    BY <1>2 DEF Tiling
  <2>2. (CHOOSE q \in r.at : TRUE) = p
    BY <2>1
  <2>3. CASE p \in DOMAIN r.t.split
    <3> DEFINE t == IF r.gone = {} THEN r.t ELSE ApplySize(r.t, p, Allotted(r.t, size, p))
    <3>1. v.t = t /\ v.at = After(t, p)
      BY <1>2, <2>2, <2>3 DEF Visit
    <3>2. t = IF r.gone = {} THEN r.t ELSE ApplySize(r.t, p, Allotted(r.t, size, p))
      OBVIOUS
    <3> HIDE DEF t
    <3>3. Tiling(t, After(t, p), k + 1)
      BY <2>1, <2>3, <3>2, VisitTilesSplit
    <3> QED BY <3>1, <3>3
  <2>4. CASE p \notin DOMAIN r.t.split /\ r.t.leaf[p] \notin S
    <3>1. v.t = r.t /\ v.at = After(r.t, p)
      BY <1>2, <2>2, <2>4 DEF Visit
    <3>2. Nearly(r.t, size, Behind(p) \cup {p})
      <4>1. (Behind(p) \cup {p}) \cap DOMAIN r.t.split \subseteq Behind(p)
        BY <2>4
      <4> QED BY <1>0, <2>1, <4>1, NearlyTiled
    <3>3. Tiling(r.t, After(r.t, p), k + 1)
      BY <1>0, <2>1, <3>2, Onward
    <3> QED BY <3>1, <3>3
  <2>5. CASE p \notin DOMAIN r.t.split /\ r.t.leaf[p] \in S
    <3> DEFINE u == Without(r.t, p)
    <3>1. v.t = u /\ v.at = IF p = <<>> THEN {} ELSE After(u, Front(p))
      BY <1>2, <2>2, <2>5 DEF Visit
    <3>2. p \in DOMAIN r.t.leaf
      BY <2>1, <2>5 DEF Nodes
    <3>3. CASE p = <<>>
      <4>1. u = NoTree
        BY <3>3 DEF Without
      <4>2. Tiled(NoTree, size)
        BY DEF Tiled, NoTree
      <4> QED BY <3>1, <3>3, <4>1, <4>2 DEF Tiling
    <3>4. CASE p # <<>>
      <4>1. u = Without(r.t, p)
        OBVIOUS
      <4> HIDE DEF u
      <4>2. Tiling(r.t, {p}, k)
        BY <2>1
      <4>3. Tiling(u, After(u, Front(p)), k + 1)
        BY <1>0, <3>2, <3>4, <4>1, <4>2, VisitTilesGone
      <4> QED BY <3>1, <3>4, <4>3
    <3> QED BY <3>3, <3>4
  <2> QED BY <2>3, <2>4, <2>5
<1> QED BY <1>1, <1>2

LEMMA RemovalTiles ==
  ASSUME TreeOK(tree), Nodes(tree) # {}, size \in SizeType, Tiled(tree, size), NEW S
  PROVE  Tiled(Removal(S).t, size)
<1> DEFINE N == Visits
           n == Cardinality(Nodes(tree))
<1>1. N \in Nat /\ n \in Nat /\ N = n * n
  BY VisitsAre DEF Visits
<1>2. PICK f : PassRuns(S, f)
  BY RemovalRuns
<1> DEFINE T == {k \in 0..N : Tiling(f[k].t, f[k].at, k)}
<1> HIDE DEF n
<1>3. 0 \in T
  <2>1. f[0].t = tree /\ f[0].at = {<<>>}
    BY <1>2 DEF PassRuns
  <2>2. <<>> \in Nodes(tree) /\ Nodes(tree) \subseteq Pos
    BY RootIsNode, TreeIs
  <2>3. Rank(Nodes(tree), <<>>) = 0
    BY <2>2, FirstRank
  <2>4. Nearly(tree, size, Behind(<<>>))
    BY NearlyTiled
  <2>5. 0 + Cardinality(Nodes(tree)) * Cardinality(Nodes(tree)) <= Visits + Rank(Nodes(tree), <<>>)
    <3>1. \A a \in Nat : 0 + a <= a + 0
      OBVIOUS
    <3> QED BY <1>1, <2>3, <3>1 DEF Visits
  <2>6. Tiling(tree, {<<>>}, 0)
    BY <2>2, <2>4, <2>5 DEF Tiling
  <2>7. Tiling(f[0].t, f[0].at, 0)
    BY <2>1, <2>6
  <2>8. 0 \in 0..N
    BY <1>1
  <2> HIDE DEF N
  <2> QED BY <2>7, <2>8
<1>4. ASSUME NEW k \in 1..N, k - 1 \in T PROVE k \in T
  <2> DEFINE r == f[k - 1]
             v == f[k]
  <2>1. k - 1 \in Nat /\ (k - 1) + 1 = k /\ k \in 0..N /\ k - 1 \in 0..N
    BY <1>1
  <2>2. Tiling(r.t, r.at, k - 1)
    BY <1>4
  <2>3. Passed(r, S, k - 1) /\ v = Visit(r, S)
    BY <1>2, <2>1 DEF PassRuns
  <2>4. N = Visits
    OBVIOUS
  <2> HIDE DEF r, v, N
  <2>5. Tiling(v.t, v.at, (k - 1) + 1)
    BY <1>1, <2>1, <2>2, <2>3, <2>4, VisitTiles
  <2> QED BY <2>1, <2>5 DEF v
<1> HIDE DEF T
<1>5. N \in T
  <2>1. 0..N \subseteq T
    <3> HIDE DEF N
    <3> QED BY <1>1, <1>3, <1>4, LoopInduction
  <2> HIDE DEF N
  <2> QED BY <1>1, <2>1
<1>6. Tiling(f[N].t, f[N].at, N) /\ Removal(S) = f[N] /\ Passed(f[N], S, N)
  BY <1>1, <1>2, <1>5 DEF T, PassRuns
<1> DEFINE t == f[N].t
<1>7. TreeOK(t)
  BY <1>6 DEF Passed
<1>8. ~\E p \in Nodes(t) : N + Cardinality(Nodes(t)) * Cardinality(Nodes(t)) <= Visits + Rank(Nodes(t), p)
  <2> SUFFICES ASSUME NEW p \in Nodes(t),
                      N + Cardinality(Nodes(t)) * Cardinality(Nodes(t)) <= Visits + Rank(Nodes(t), p)
               PROVE  FALSE
    OBVIOUS
  <2> DEFINE l == Cardinality(Nodes(t))
             x == Rank(Nodes(t), p)
  <2>1. l \in Nat /\ x \in Nat /\ x < l
    BY <1>7, TreeIs, RankIs, FS_CardinalityType
  <2>2. N + l * l <= N + x
    OBVIOUS
  <2> HIDE DEF l, x, N
  <2>3. \A a \in Nat : a # 0 => a * a \in Nat /\ a * a >= a
    OBVIOUS
  <2> QED BY <1>1, <2>1, <2>2, <2>3
<1>9. Tiled(t, size)
  <2> HIDE DEF t
  <2>1. Tiling(t, f[N].at, N)
    BY <1>6 DEF t
  <2> QED BY <1>8, <2>1 DEF Tiling
<1> QED BY <1>6, <1>9

LEMMA RemoveIfTiles ==
  ASSUME TypeOK, Tiled(tree, size), NEW S, RemoveIf(S)
  PROVE  Tiled(tree', size')
<1>1. TreeOK(tree) /\ size \in SizeType /\ Nodes(tree) # {}
  BY UsableIs DEF RemoveIf
<1>2. tree' = Removal(S).t /\ size' = size
  BY DEF RemoveIf
<1>3. Tiled(Removal(S).t, size)
  BY <1>1, RemovalTiles
<1> QED BY <1>2, <1>3

(* What is at p and below it is tiled; how large p is is left open. *)
Firm(u, p) ==
  \A q \in DOMAIN u.split : IsPrefix(p, q) =>
    Solid(u.split[q]) /\ (q # p => Extent(u.split[q]) = Side(u.split[Front(q)], Last(q)))

(* The child b of p is tiled, and as large as p has it. *)
Filled(u, p, b) ==
  /\ Firm(u, Append(p, b))
  /\ Append(p, b) \in DOMAIN u.split => Extent(u.split[Append(p, b)]) = Side(u.split[p], b)

LEMMA BelowIs ==
  ASSUME NEW p \in Pos, NEW b \in Bit
  PROVE  /\ Append(p, b) # p /\ ~IsPrefix(Append(p, b), p)
         /\ \A q \in Pos : IsPrefix(Append(p, b), q) => IsPrefix(p, q) /\ q # p
         /\ \A q \in Pos : IsPrefix(Append(p, b), q) => ~IsPrefix(Append(p, 1 - b), q)
         /\ \A q \in Pos : IsPrefix(Append(p, b), q) /\ q # Append(p, b) =>
              Front(q) \in Pos /\ IsPrefix(Append(p, b), Front(q))
         /\ \A q \in Pos : IsPrefix(p, q) /\ q # p => \E c \in Bit : IsPrefix(Append(p, c), q)
<1> DEFINE n == Append(p, b)
           m == Append(p, 1 - b)
<1>0. 1 - b \in Bit /\ 1 - b # b
  BY DEF Bit
<1>1. n \in Pos /\ m \in Pos /\ Len(n) = Len(p) + 1 /\ Len(m) = Len(p) + 1 /\ Len(p) \in Nat /\ n # m
  BY <1>0, ChildIs, ChildrenDiffer
<1>2. IsPrefix(p, n)
  BY PrefixOfChild
<1>3. \A q \in Pos : IsPrefix(n, q) /\ q # n => Front(q) \in Pos /\ IsPrefix(n, Front(q))
  <2> SUFFICES ASSUME NEW q \in Pos, IsPrefix(n, q), q # n PROVE Front(q) \in Pos /\ IsPrefix(n, Front(q))
    OBVIOUS
  <2>1. q # <<>>
    BY <1>1, PrefixOrder
  <2>2. Front(q) \in Pos /\ Last(q) \in Bit /\ q = Append(Front(q), Last(q))
    BY <2>1, ParentIs
  <2> HIDE DEF n
  <2>3. IsPrefix(n, Append(Front(q), Last(q))) => n = Append(Front(q), Last(q)) \/ IsPrefix(n, Front(q))
    BY <1>1, <2>2, PrefixOfChild
  <2> QED BY <2>2, <2>3
<1>4. ASSUME NEW q \in Pos, IsPrefix(p, q), q # p PROVE \E c \in Bit : IsPrefix(Append(p, c), q)
  <2>1. Len(p) <= Len(q) /\ \A i \in 1..Len(p) : p[i] = q[i]
    BY <1>4, PrefixIs
  <2>2. Len(q) \in Nat
    BY DEF Pos
  <2>3. Len(p) # Len(q)
    BY <1>4, <2>1, SamePosition
  <2>4. Len(p) + 1 \in 1..Len(q)
    BY <1>1, <2>1, <2>2, <2>3
  <2> DEFINE c == q[Len(p) + 1]
             r == Append(p, c)
  <2>5. c \in Bit
    BY <2>4 DEF Pos
  <2>6. r \in Pos /\ Len(r) = Len(p) + 1 /\ (\A i \in 1..Len(p) : r[i] = p[i]) /\ r[Len(p) + 1] = c
    BY <2>5, ChildIs
  <2> HIDE DEF r
  <2>7. \A i \in 1..Len(r) : r[i] = q[i]
    <3> SUFFICES ASSUME NEW i \in 1..Len(r) PROVE r[i] = q[i]
      OBVIOUS
    <3>1. i \in 1..Len(p) \/ i = Len(p) + 1
      BY <1>1, <2>6
    <3> QED BY <2>1, <2>6, <3>1
  <2>8. Len(r) <= Len(q)
    BY <1>1, <2>2, <2>4, <2>6
  <2>9. IsPrefix(r, q)
    BY <2>6, <2>7, <2>8, PrefixIs
  <2> QED BY <2>5, <2>9 DEF r
<1> HIDE DEF n, m
<1>5. n # p /\ ~IsPrefix(n, p)
  <2>1. IsPrefix(n, p) => Len(n) <= Len(p)
    BY <1>1, PrefixOrder
  <2> QED BY <1>1, <2>1
<1>6. \A q \in Pos : IsPrefix(n, q) => IsPrefix(p, q) /\ q # p
  BY <1>1, <1>2, <1>5, PrefixOrder
<1>7. \A q \in Pos : IsPrefix(n, q) => ~IsPrefix(m, q)
  <2> SUFFICES ASSUME NEW q \in Pos, IsPrefix(n, q), IsPrefix(m, q) PROVE FALSE
    OBVIOUS
  <2>1. IsPrefix(n, m) /\ IsPrefix(m, n)
    <3>1. Len(n) <= Len(m) /\ Len(m) <= Len(n)
      BY <1>1
    <3> QED BY <1>1, <3>1, PrefixOrder
  <2> QED BY <1>1, <2>1, PrefixOrder
<1> QED BY <1>3, <1>4, <1>5, <1>6, <1>7 DEF n, m

LEMMA FirmIs ==
  ASSUME NEW u, TreeOK(u)
  PROVE  /\ \A p \in DOMAIN u.leaf : Firm(u, p)
         /\ \A p \in DOMAIN u.split : Firm(u, p) <=> Solid(u.split[p]) /\ Filled(u, p, 0) /\ Filled(u, p, 1)
<1>0. (\A q \in DOMAIN u.split : q \in Pos /\ q \in Nodes(u))
      /\ (\A q \in DOMAIN u.leaf : q \in Pos /\ q \notin DOMAIN u.split)
      /\ 0 \in Bit /\ 1 \in Bit
  BY TreeIs DEF Bit
<1>1. ASSUME NEW p \in DOMAIN u.leaf PROVE Firm(u, p)
  <2> SUFFICES ASSUME NEW q \in DOMAIN u.split, IsPrefix(p, q) PROVE FALSE
    BY DEF Firm
  <2>1. p # q
    BY <1>0
  <2>2. p \in DOMAIN u.split
    BY <1>0, <2>1, AboveIsSplit
  <2> QED BY <1>0, <2>2
<1>2. ASSUME NEW p \in DOMAIN u.split, Firm(u, p) PROVE Solid(u.split[p]) /\ \A b \in Bit : Filled(u, p, b)
  <2>0. p \in Pos /\ IsPrefix(p, p)
    BY <1>0, PrefixOrder
  <2>1. Solid(u.split[p])
    BY <1>2, <2>0 DEF Firm
  <2>2. ASSUME NEW b \in Bit PROVE Filled(u, p, b)
    <3> DEFINE n == Append(p, b)
    <3>1. n \in Pos /\ Front(n) = p /\ Last(n) = b /\ n # p /\ IsPrefix(p, n)
      BY <2>0, BelowIs, ChildIs, PrefixOfChild
    <3>2. \A q \in Pos : IsPrefix(n, q) => IsPrefix(p, q) /\ q # p
      BY <2>0, BelowIs
    <3>n. n = Append(p, b)
      OBVIOUS
    <3> HIDE DEF n
    <3>3. Firm(u, n)
      BY <1>0, <1>2, <3>2 DEF Firm
    <3>4. n \in DOMAIN u.split => Extent(u.split[n]) = Side(u.split[p], b)
      BY <1>2, <3>1 DEF Firm
    <3> QED BY <3>3, <3>4, <3>n DEF Filled
  <2> QED BY <2>1, <2>2
<1>3. ASSUME NEW p \in DOMAIN u.split, Solid(u.split[p]), \A b \in Bit : Filled(u, p, b) PROVE Firm(u, p)
  <2>0. p \in Pos
    BY <1>0
  <2> SUFFICES ASSUME NEW q \in DOMAIN u.split, IsPrefix(p, q), q # p
               PROVE  Solid(u.split[q]) /\ Extent(u.split[q]) = Side(u.split[Front(q)], Last(q))
    BY <1>3 DEF Firm
  <2>1. PICK c \in Bit : IsPrefix(Append(p, c), q)
    BY <1>0, <2>0, BelowIs
  <2> DEFINE n == Append(p, c)
  <2>2. Front(n) = p /\ Last(n) = c
    BY <2>0, ChildIs
  <2>3. Firm(u, n) /\ (n \in DOMAIN u.split => Extent(u.split[n]) = Side(u.split[p], c))
    BY <1>3 DEF Filled
  <2> HIDE DEF n
  <2>4. Solid(u.split[q]) /\ (q # n => Extent(u.split[q]) = Side(u.split[Front(q)], Last(q)))
    BY <2>1, <2>3 DEF Firm, n
  <2> QED BY <2>2, <2>3, <2>4
<1> QED BY <1>0, <1>1, <1>2, <1>3 DEF Bit

(* u and v are alike at p and below. *)
Alike(u, v, p) == \A q \in DOMAIN u.split : IsPrefix(p, q) => v.split[q] = u.split[q]

LEMMA AlikeIsFirm ==
  ASSUME NEW u, TreeOK(u), NEW v, DOMAIN v.split = DOMAIN u.split, NEW p \in Pos, NEW b \in Bit,
         Alike(u, v, Append(p, b)), Firm(u, Append(p, b))
  PROVE  Firm(v, Append(p, b))
<1> DEFINE n == Append(p, b)
<1>0. \A q \in DOMAIN u.split : q \in Pos /\ q \in Nodes(u)
  BY TreeIs
<1>1. \A q \in Pos : IsPrefix(n, q) /\ q # n => Front(q) \in Pos /\ IsPrefix(n, Front(q))
  BY BelowIs
<1>2. n # <<>> /\ n \in Pos
  BY ChildIs
<1>3. Alike(u, v, n) /\ Firm(u, n)
  OBVIOUS
<1> HIDE DEF n
<1>4. ASSUME NEW q \in DOMAIN v.split, IsPrefix(n, q)
      PROVE  Solid(v.split[q]) /\ (q # n => Extent(v.split[q]) = Side(v.split[Front(q)], Last(q)))
  <2>1. v.split[q] = u.split[q] /\ q \in DOMAIN u.split
    BY <1>3, <1>4 DEF Alike
  <2>2. Solid(u.split[q]) /\ (q # n => Extent(u.split[q]) = Side(u.split[Front(q)], Last(q)))
    BY <1>3, <1>4, <2>1 DEF Firm
  <2>3. ASSUME q # n PROVE v.split[Front(q)] = u.split[Front(q)]
    <3>1. q # <<>>
      BY <1>0, <1>2, <1>4, <2>1, PrefixOrder
    <3>2. Front(q) \in DOMAIN u.split
      BY <1>0, <2>1, <3>1, TreeIs
    <3>3. IsPrefix(n, Front(q))
      BY <1>0, <1>1, <1>4, <2>1, <2>3
    <3> QED BY <1>3, <3>2, <3>3 DEF Alike
  <2> QED BY <2>1, <2>2, <2>3
<1>5. Firm(v, n)
  BY <1>4 DEF Firm
<1> QED BY <1>5 DEF n

Plus(s, x, n) == [y \in Axes |-> IF y = x THEN s[y] + n ELSE s[y]]

LEMMA PlusIs ==
  ASSUME NEW s \in SizeType, NEW x \in Axes
  PROVE  /\ Plus(s, x, 0) = s
         /\ \A n \in Nat : Plus(s, x, n) \in SizeType /\ Plus(Plus(s, x, n), x, 1) = Plus(s, x, n + 1)
                           /\ \A y \in Axes : Plus(s, x, n)[y] = IF y = x THEN s[y] + n ELSE s[y]
<1>1. s = [y \in Axes |-> s[y]] /\ \A y \in Axes : s[y] \in Nat
  BY DEF SizeType
<1>2. Plus(s, x, 0) = s
  <2>1. \A y \in Axes : (IF y = x THEN s[y] + 0 ELSE s[y]) = s[y]
    BY <1>1
  <2> QED BY <1>1, <2>1 DEF Plus
<1>3. ASSUME NEW n \in Nat
      PROVE  /\ Plus(s, x, n) \in SizeType /\ Plus(Plus(s, x, n), x, 1) = Plus(s, x, n + 1)
             /\ \A y \in Axes : Plus(s, x, n)[y] = IF y = x THEN s[y] + n ELSE s[y]
  <2> DEFINE r == Plus(s, x, n)
  <2>1. \A y \in Axes : r[y] = IF y = x THEN s[y] + n ELSE s[y]
    BY DEF Plus
  <2>2. r \in SizeType
    BY <1>1 DEF Plus, SizeType
  <2> HIDE DEF r
  <2>3. \A y \in Axes : (IF y = x THEN r[y] + 1 ELSE r[y]) = (IF y = x THEN s[y] + (n + 1) ELSE s[y])
    BY <1>1, <2>1
  <2>4. Plus(r, x, 1) = Plus(s, x, n + 1)
    BY <2>3 DEF Plus
  <2> QED BY <2>1, <2>2, <2>4 DEF r
<1> QED BY <1>2, <1>3

SameAxes(t, u) == u \in Shape(t) /\ \A q \in DOMAIN t.split : u.split[q].axis = t.split[q].axis

(* What u is when what is at p is made larger by n. *)
Grown(t, u, v, p, x, n) ==
  /\ SameAxes(t, v)
  /\ \A q \in DOMAIN t.split : ~IsPrefix(p, q) => v.split[q] = u.split[q]
  /\ Firm(v, p)
  /\ p \in DOMAIN t.split => Extent(v.split[p]) = Plus(Extent(u.split[p]), x, n)

LEMMA AxesAre ==
  ASSUME NEW t, TreeOK(t), NEW u, SameAxes(t, u)
  PROVE  /\ TreeOK(u) /\ u \in Shape(t) /\ DOMAIN u.split = DOMAIN t.split /\ u.leaf = t.leaf /\ Nodes(u) = Nodes(t)
         /\ \A q \in DOMAIN t.split : u.split[q] \in SplitType /\ u.split[q].axis = t.split[q].axis
         /\ Nodes(t) # {} => u # NoTree
<1>1. TreeOK(u) /\ u \in Shape(t) /\ DOMAIN u.split = DOMAIN t.split /\ u.leaf = t.leaf /\ Nodes(u) = Nodes(t)
  BY ShapeIs DEF SameAxes
<1>2. \A q \in DOMAIN t.split : u.split[q] \in SplitType /\ u.split[q].axis = t.split[q].axis
  BY <1>1 DEF SameAxes, TreeOK
<1>3. Nodes(t) # {} => u # NoTree
  BY <1>1, NoTreeOK
<1> QED BY <1>1, <1>2, <1>3

LEMMA ChildStays ==
  ASSUME NEW t, TreeOK(t), NEW u, SameAxes(t, u), NEW v, SameAxes(t, v), NEW p \in DOMAIN t.split, NEW b \in Bit,
         Filled(u, p, b), Alike(u, v, Append(p, b)), Side(v.split[p], b) = Side(u.split[p], b)
  PROVE  Filled(v, p, b)
<1> DEFINE n == Append(p, b)
<1>1. TreeOK(u) /\ DOMAIN u.split = DOMAIN t.split /\ DOMAIN v.split = DOMAIN t.split
  BY AxesAre
<1>2. p \in Pos /\ n \in Pos /\ IsPrefix(n, n)
  BY TreeIs, ChildIs, PrefixOrder
<1>3. Firm(v, n)
  BY <1>1, <1>2, AlikeIsFirm DEF Filled
<1>4. n \in DOMAIN v.split => Extent(v.split[n]) = Side(v.split[p], b)
  <2> HIDE DEF n
  <2>1. Filled(u, p, b) /\ Alike(u, v, n)
    BY DEF n
  <2> SUFFICES ASSUME n \in DOMAIN v.split PROVE Extent(v.split[n]) = Side(v.split[p], b)
    OBVIOUS
  <2>2. v.split[n] = u.split[n]
    BY <1>1, <1>2, <2>1 DEF Alike
  <2>3. Extent(u.split[n]) = Side(u.split[p], b)
    BY <1>1, <2>1 DEF Filled, n
  <2> QED BY <2>2, <2>3
<1> QED BY <1>3, <1>4 DEF Filled

LEMMA ChildGrows ==
  ASSUME NEW t, TreeOK(t), NEW u, SameAxes(t, u), NEW v, SameAxes(t, v), NEW p \in DOMAIN t.split, NEW b \in Bit,
         NEW x \in Axes, NEW n \in Nat, NEW w, Grown(t, u, w, Append(p, b), x, n),
         Filled(u, p, b), Alike(w, v, Append(p, b)), Side(v.split[p], b) = Plus(Side(u.split[p], b), x, n)
  PROVE  Filled(v, p, b)
<1> DEFINE c == Append(p, b)
<1>1. SameAxes(t, w) /\ Firm(w, c)
      /\ (c \in DOMAIN t.split => Extent(w.split[c]) = Plus(Extent(u.split[c]), x, n))
  BY DEF Grown
<1>2. TreeOK(w) /\ DOMAIN u.split = DOMAIN t.split /\ DOMAIN v.split = DOMAIN t.split
      /\ DOMAIN w.split = DOMAIN t.split
  BY <1>1, AxesAre
<1>3. p \in Pos /\ c \in Pos /\ IsPrefix(c, c)
  BY TreeIs, ChildIs, PrefixOrder
<1>4. Firm(v, c)
  BY <1>1, <1>2, <1>3, AlikeIsFirm
<1>5. c \in DOMAIN v.split => Extent(v.split[c]) = Side(v.split[p], b)
  <2>1. Alike(w, v, c) /\ (c \in DOMAIN u.split => Extent(u.split[c]) = Side(u.split[p], b))
    BY DEF Filled
  <2> HIDE DEF c
  <2> SUFFICES ASSUME c \in DOMAIN v.split PROVE Extent(v.split[c]) = Side(v.split[p], b)
    OBVIOUS
  <2>2. v.split[c] = w.split[c]
    BY <1>2, <1>3, <2>1 DEF Alike
  <2> QED BY <1>1, <1>2, <2>1, <2>2
<1> QED BY <1>4, <1>5 DEF Filled

(* A tiled tree has at least its least size. *)
LEMMA LeastFits ==
  ASSUME NEW t, TreeOK(t), NEW x \in Axes, NEW u, SameAxes(t, u), NEW p \in DOMAIN t.split, Firm(u, p)
  PROVE  MinSize(t, x)[p] <= Extent(u.split[p])[x]
<1> DEFINE least == MinSize(t, x)
           S == {q \in Nodes(t) : q \in DOMAIN t.split /\ Firm(u, q) => least[q] <= Extent(u.split[q])[x]}
<1>1. /\ \A q \in Nodes(t) : least[q] \in Nat
      /\ \A q \in DOMAIN t.leaf : q \in Nodes(t) /\ q \notin DOMAIN t.split /\ least[q] = 1
      /\ \A q \in DOMAIN t.split :
           /\ Append(q, 0) \in Nodes(t) /\ Append(q, 1) \in Nodes(t) /\ q \in Nodes(t)
           /\ least[q] = IF t.split[q].axis = x THEN least[Append(q, 0)] + least[Append(q, 1)] + Gutter[x]
                         ELSE Max({least[Append(q, 0)], least[Append(q, 1)]})
  <2>a. /\ least \in [Nodes(t) -> Nat \ {0}]
        /\ least = [q \in Nodes(t) |->
             IF q \in DOMAIN t.leaf THEN 1
             ELSE LET a == least[Append(q, 0)]
                      b == least[Append(q, 1)]
                  IN IF t.split[q].axis = x THEN a + b + Gutter[x] ELSE Max({a, b})]
    BY MinSizeIs
  <2> HIDE DEF least
  <2>1. \A q \in Nodes(t) : least[q] \in Nat
    BY <2>a
  <2>2. \A q \in Nodes(t) : least[q] =
             IF q \in DOMAIN t.leaf THEN 1
             ELSE IF t.split[q].axis = x THEN least[Append(q, 0)] + least[Append(q, 1)] + Gutter[x]
             ELSE Max({least[Append(q, 0)], least[Append(q, 1)]})
    BY <2>a
  <2>3. \A q \in DOMAIN t.leaf : q \in Nodes(t) /\ q \notin DOMAIN t.split /\ least[q] = 1
    BY <2>2, NodesAre
  <2>4. \A q \in DOMAIN t.split :
           /\ Append(q, 0) \in Nodes(t) /\ Append(q, 1) \in Nodes(t) /\ q \in Nodes(t) /\ q \notin DOMAIN t.leaf
    BY NodesAre
  <2> QED BY <2>1, <2>2, <2>3, <2>4
<1>l. least = MinSize(t, x)
  OBVIOUS
<1> HIDE DEF least
<1>2. DOMAIN t.leaf \subseteq S
  BY <1>1
<1>3. ASSUME NEW q \in DOMAIN t.split, Append(q, 0) \in S, Append(q, 1) \in S PROVE q \in S
  <2> SUFFICES ASSUME Firm(u, q) PROVE least[q] <= Extent(u.split[q])[x]
    BY <1>1
  <2> DEFINE s == u.split[q]
  <2>0. TreeOK(u) /\ DOMAIN u.split = DOMAIN t.split /\ s \in SplitType /\ s.axis = t.split[q].axis
    BY AxesAre
  <2>1. Solid(s) /\ Filled(u, q, 0) /\ Filled(u, q, 1)
    BY <2>0, FirmIs
  <2>2. s.axis \in Axes /\ s.first \in SizeType /\ s.second \in SizeType
        /\ Gutter[x] \in Nat /\ Cross(s.axis) \in Axes
        /\ Cross(s.axis) # s.axis /\ (x = s.axis \/ x = Cross(s.axis))
    <3>1. \A r \in SplitType : r.axis \in Axes /\ r.first \in SizeType /\ r.second \in SizeType
      BY SizesAre
    <3> HIDE DEF s
    <3>2. s.axis \in Axes /\ s.first \in SizeType /\ s.second \in SizeType
      BY <2>0, <3>1
    <3> QED BY <3>2, SizesAre
  <2>3. s.first[x] \in Nat /\ s.second[x] \in Nat /\ s.first[x] > 0 /\ s.second[x] > 0
        /\ s.second[Cross(s.axis)] = s.first[Cross(s.axis)]
    BY <2>1, <2>2 DEF SizeType, Solid
  <2>4. ASSUME NEW b \in Bit PROVE least[Append(q, b)] <= Side(s, b)[x]
    <3> DEFINE c == Append(q, b)
    <3>1. c \in Nodes(t) /\ c \in S
      BY <1>1, <1>3 DEF Bit
    <3>2. Filled(u, q, b)
      BY <2>1 DEF Bit
    <3>3. Firm(u, c) /\ (c \in DOMAIN u.split => Extent(u.split[c]) = Side(s, b))
      BY <3>2 DEF Filled
    <3>a. c \in DOMAIN t.split /\ Firm(u, c) => least[c] <= Extent(u.split[c])[x]
      BY <3>1
    <3>b. Side(s, b) = s.first \/ Side(s, b) = s.second
      BY DEF Side
    <3> HIDE DEF c, s, S
    <3>4. CASE c \in DOMAIN t.split
      <4>1. Extent(u.split[c]) = Side(s, b)
        BY <2>0, <3>3, <3>4
      <4>2. least[c] <= Side(s, b)[x]
        BY <3>3, <3>4, <3>a, <4>1
      <4> QED BY <4>2 DEF c
    <3>5. CASE c \in DOMAIN t.leaf
      <4>1. least[c] = 1 /\ Side(s, b)[x] \in Nat /\ Side(s, b)[x] > 0
        BY <1>1, <2>3, <3>5, <3>b
      <4>2. least[c] <= Side(s, b)[x]
        BY <4>1
      <4> QED BY <4>2 DEF c
    <3>6. c \in DOMAIN t.split \/ c \in DOMAIN t.leaf
      BY <3>1, NodesAre
    <3> QED BY <3>4, <3>5, <3>6 DEF c
  <2> HIDE DEF s, S
  <2>5. least[Append(q, 0)] <= s.first[x] /\ least[Append(q, 1)] <= s.second[x]
        /\ least[Append(q, 0)] \in Nat /\ least[Append(q, 1)] \in Nat
    <3>1. 0 \in Bit /\ 1 \in Bit /\ Side(s, 0) = s.first /\ Side(s, 1) = s.second
      BY DEF Bit, Side
    <3> QED BY <1>1, <2>4, <3>1
  <2>6. Extent(s)[x] = IF x = s.axis THEN s.first[x] + s.second[x] + Gutter[x] ELSE s.first[x]
    BY DEF Extent
  <2>7. CASE x = s.axis
    <3>1. least[q] = least[Append(q, 0)] + least[Append(q, 1)] + Gutter[x]
      BY <1>1, <2>0, <2>7
    <3> QED BY <2>2, <2>3, <2>5, <2>6, <2>7, <3>1 DEF s
  <2>8. CASE x # s.axis
    <3>1. least[q] = Max({least[Append(q, 0)], least[Append(q, 1)]})
      BY <1>1, <2>0, <2>8
    <3>2. s.second[x] = s.first[x]
      BY <2>2, <2>3, <2>8
    <3>3. Max({least[Append(q, 0)], least[Append(q, 1)]}) <= s.first[x]
      <4> DEFINE a == least[Append(q, 0)]
                 b == least[Append(q, 1)]
      <4>1. a \in Int /\ b \in Int /\ a <= s.first[x] /\ b <= s.first[x]
        BY <2>5, <3>2
      <4> HIDE DEF a, b
      <4>2. Max({a, b}) = IF a > b THEN a ELSE b
        BY <4>1, MaxIs
      <4>3. Max({a, b}) <= s.first[x]
        BY <4>1, <4>2
      <4> QED BY <4>3 DEF a, b
    <3> QED BY <2>6, <2>8, <3>1, <3>3 DEF s
  <2> QED BY <2>7, <2>8
<1>4. p \in Nodes(t)
  BY <1>1
<1>5. Nodes(t) \subseteq S
  <2> HIDE DEF S
  <2> QED BY <1>2, <1>3, TreeInduction
<1>6. p \in S
  BY <1>4, <1>5
<1> QED BY <1>6, <1>l

LEMMA WiderSplit ==
  ASSUME NEW r \in SplitType, NEW s \in SplitType, s.axis = r.axis, Solid(r), NEW x \in Axes, NEW n \in Nat,
         NEW k \in [Bit -> Nat],
         \A c \in Bit : Side(s, c) = Plus(Side(r, c), x, k[c]),
         r.axis = x => k[0] + k[1] = n, r.axis # x => k[0] = n /\ k[1] = n
  PROVE  Solid(s) /\ Extent(s) = Plus(Extent(r), x, n)
<1>1. /\ r.first \in SizeType /\ r.second \in SizeType /\ r.axis \in Axes /\ Extent(r) \in SizeType
      /\ s.first \in SizeType /\ s.second \in SizeType /\ s.axis \in Axes
  BY SizesAre
<1>2. s.first = Plus(r.first, x, k[0]) /\ s.second = Plus(r.second, x, k[1]) /\ k[0] \in Nat /\ k[1] \in Nat
  BY DEF Side, Bit
<1>3. \A y \in Axes : /\ s.first[y] = IF y = x THEN r.first[y] + k[0] ELSE r.first[y]
                      /\ s.second[y] = IF y = x THEN r.second[y] + k[1] ELSE r.second[y]
                      /\ r.first[y] \in Nat /\ r.second[y] \in Nat /\ Gutter[y] \in Nat
  BY <1>1, <1>2, SizesAre DEF Plus, SizeType
<1>4. Cross(r.axis) \in Axes /\ Cross(r.axis) # r.axis /\ \A y \in Axes : y = r.axis \/ y = Cross(r.axis)
  BY <1>1, SizesAre
<1>5. \A y \in Axes : r.first[y] > 0 /\ r.second[y] > 0
  BY DEF Solid
<1>6. r.second[Cross(r.axis)] = r.first[Cross(r.axis)]
  BY DEF Solid
<1>7. Solid(s)
  <2>1. \A y \in Axes : s.first[y] > 0 /\ s.second[y] > 0
    BY <1>2, <1>3, <1>5
  <2>2. s.second[Cross(r.axis)] = s.first[Cross(r.axis)]
    <3>1. CASE Cross(r.axis) = x
      BY <1>3, <1>4, <1>6, <3>1
    <3>2. CASE Cross(r.axis) # x
      BY <1>3, <1>4, <1>6, <3>2
    <3> QED BY <3>1, <3>2
  <2> QED BY <2>1, <2>2 DEF Solid
<1>8. ASSUME NEW y \in Axes PROVE Extent(s)[y] = IF y = x THEN Extent(r)[y] + n ELSE Extent(r)[y]
  <2>1. /\ Extent(s)[y] = IF y = r.axis THEN s.first[y] + s.second[y] + Gutter[y] ELSE s.first[y]
        /\ Extent(r)[y] = IF y = r.axis THEN r.first[y] + r.second[y] + Gutter[y] ELSE r.first[y]
    BY DEF Extent
  <2>2. CASE y = x /\ r.axis = x
    BY <1>2, <1>3, <2>1, <2>2
  <2>3. CASE y = x /\ r.axis # x
    BY <1>3, <2>1, <2>3
  <2>4. CASE y # x
    BY <1>3, <2>1, <2>4
  <2> QED BY <2>2, <2>3, <2>4
<1>9. Extent(s) = [y \in Axes |-> Extent(s)[y]]
  BY DEF Extent
<1>10. Extent(s) = Plus(Extent(r), x, n)
  BY <1>8, <1>9 DEF Plus
<1> QED BY <1>7, <1>10

(* v is w with the child b of p at n cells of x. *)
SizedTo(t, w, v, p, b, x, n) ==
  /\ SameAxes(t, v) /\ \A q \in DOMAIN t.split : q # p => v.split[q] = w.split[q]
  /\ Side(v.split[p], b) = [y \in Axes |-> IF y = x THEN n ELSE Side(w.split[p], b)[y]]
  /\ Side(v.split[p], 1 - b) = Side(w.split[p], 1 - b)

LEMMA SizedSplit ==
  ASSUME NEW t, TreeOK(t), NEW w, SameAxes(t, w), NEW p \in DOMAIN t.split, NEW b \in Bit, NEW x \in Axes,
         NEW n \in Nat, NEW v, v = Sized(w, p, b, x, n)
  PROVE  SizedTo(t, w, v, p, b, x, n)
<1> DEFINE r == w.split[p]
           f == [r.first EXCEPT ![x] = n]
           g == [r.second EXCEPT ![x] = n]
           s == IF b = 0 THEN [r EXCEPT !.first[x] = n] ELSE [r EXCEPT !.second[x] = n]
<1>1. /\ TreeOK(w) /\ w \in Shape(t) /\ DOMAIN w.split = DOMAIN t.split /\ r \in SplitType
      /\ r.axis = t.split[p].axis /\ w # NoTree
  <2>1. Nodes(t) # {}
    BY DEF Nodes
  <2> QED BY <2>1, AxesAre
<1>2. v = [w EXCEPT !.split[p] = s]
  <2>2. CASE b = 0
    BY <1>1, <2>2 DEF Sized
  <2>3. CASE b = 1
    BY <1>1, <2>3 DEF Sized
  <2> QED BY <2>2, <2>3 DEF Bit
<1>3. r = [axis |-> r.axis, first |-> r.first, second |-> r.second] /\ r.first \in SizeType /\ r.second \in SizeType
  BY <1>1 DEF SplitType
<1>4. s.axis = r.axis /\ s.first = (IF b = 0 THEN f ELSE r.first) /\ s.second = (IF b = 0 THEN r.second ELSE g)
  BY <1>3
<1>5. s \in SplitType
  BY <1>1, NewSideIsSplit
<1>6. f = [y \in Axes |-> IF y = x THEN n ELSE r.first[y]] /\ g = [y \in Axes |-> IF y = x THEN n ELSE r.second[y]]
  BY <1>3 DEF SizeType
<1>r. r = w.split[p]
  OBVIOUS
<1> HIDE DEF s, f, g, r
<1>7. v.split = [w.split EXCEPT ![p] = s]
  <2>1. w = [split |-> w.split, leaf |-> w.leaf]
    BY <1>1 DEF TreeOK
  <2> QED BY <1>2, <2>1
<1>8. v.split[p] = s /\ \A q \in DOMAIN t.split : q # p => v.split[q] = w.split[q]
  BY <1>1, <1>7
<1>9. v \in Shape(t)
  <2>1. v \in Shape(w)
    BY <1>1, <1>2, <1>5, NewSplitInShape
  <2> QED BY <1>1, <2>1, ShapeIs
<1>10. SameAxes(t, v)
  <2>1. \A q \in DOMAIN t.split : v.split[q].axis = t.split[q].axis
    <3> SUFFICES ASSUME NEW q \in DOMAIN t.split PROVE v.split[q].axis = t.split[q].axis
      OBVIOUS
    <3>1. CASE q = p
      BY <1>1, <1>4, <1>8, <3>1
    <3>2. CASE q # p
      BY <1>8, <3>2 DEF SameAxes
    <3> QED BY <3>1, <3>2
  <2> QED BY <1>9, <2>1 DEF SameAxes
<1>11. Side(s, b) = [y \in Axes |-> IF y = x THEN n ELSE Side(r, b)[y]] /\ Side(s, 1 - b) = Side(r, 1 - b)
  <2>1. CASE b = 0
    BY <1>4, <1>6, <2>1 DEF Side
  <2>2. CASE b = 1
    BY <1>4, <1>6, <2>2 DEF Side
  <2> QED BY <2>1, <2>2 DEF Bit
<1> QED BY <1>8, <1>10, <1>11, <1>r DEF SizedTo

(* g makes what is at p larger, whatever tiled tree it is given. *)
GrowsAt(t, x, p, g) ==
  \A u \in Shape(t), n \in Nat : SameAxes(t, u) /\ Firm(u, p) => Grown(t, u, g[u][n], p, x, n)

LEMMA SplitGrown ==
  ASSUME NEW t, TreeOK(t), NEW p \in DOMAIN t.split, NEW x \in Axes, NEW n \in Nat, NEW u, NEW v, SameAxes(t, v),
         \A q \in DOMAIN t.split : ~IsPrefix(p, q) => v.split[q] = u.split[q],
         Solid(v.split[p]), \A b \in Bit : Filled(v, p, b), Extent(v.split[p]) = Plus(Extent(u.split[p]), x, n)
  PROVE  Grown(t, u, v, p, x, n)
<1>1. TreeOK(v) /\ DOMAIN v.split = DOMAIN t.split
  BY AxesAre
<1>2. Firm(v, p)
  BY <1>1, FirmIs DEF Bit
<1> QED BY <1>2 DEF Grown

LEMMA CellGrows ==
  ASSUME NEW t, TreeOK(t), NEW p \in DOMAIN t.split, NEW x \in Axes, t.split[p].axis = x, NEW below,
         \A b \in Bit : GrowsAt(t, x, Append(p, b), below[b]),
         NEW u, SameAxes(t, u), NEW k \in Nat, NEW l, l.turn \in Bit, Grown(t, u, l.t, p, x, k),
         NEW v, v = Cell(l, p, x, 1, below)
  PROVE  Grown(t, u, v.t, p, x, k + 1)
<1> DEFINE m == l.t
           b == l.turn
           c == Append(p, b)
           d == Append(p, 1 - b)
           w == below[b][m][1]
           h == Side(m.split[p], b)[x]
           y == v.t
<1>1. Nodes(t) # {} /\ p \in Pos /\ (\A q \in DOMAIN t.split : q \in Pos) /\ IsPrefix(p, p)
      /\ b \in Bit /\ 1 - b \in Bit /\ 1 - (1 - b) = b
  <2>1. p \in Pos /\ (\A q \in DOMAIN t.split : q \in Pos) /\ Nodes(t) # {}
    BY TreeIs
  <2>2. IsPrefix(p, p)
    BY <2>1, PrefixOrder
  <2>3. b \in Bit /\ 1 - b \in Bit /\ 1 - (1 - b) = b
    BY DEF Bit
  <2> QED BY <2>1, <2>2, <2>3
<1>2. SameAxes(t, m) /\ Firm(m, p) /\ (\A q \in DOMAIN t.split : ~IsPrefix(p, q) => m.split[q] = u.split[q])
      /\ Extent(m.split[p]) = Plus(Extent(u.split[p]), x, k)
  BY DEF Grown
<1>3. TreeOK(m) /\ m \in Shape(t) /\ m # NoTree /\ DOMAIN m.split = DOMAIN t.split /\ m.split[p] \in SplitType
      /\ m.split[p].axis = x
  BY <1>1, <1>2, AxesAre
<1>4. h \in Nat
  <2>1. m.split[p].first \in SizeType /\ m.split[p].second \in SizeType
    BY <1>3, SizesAre
  <2> QED BY <2>1 DEF Side, SizeType
<1>5. y = Sized(w, p, b, x, h + 1)
  <2>1. ~(1 < 0) /\ 1 > 0
    OBVIOUS
  <2>2. v = [t |-> Sized(w, p, b, x, h + 1), turn |-> 1 - b]
    BY <1>3, <2>1 DEF Cell
  <2> HIDE DEF w, h
  <2> QED BY <2>2
<1>6. Solid(m.split[p]) /\ Filled(m, p, b) /\ Filled(m, p, 1 - b)
  <2>1. Solid(m.split[p]) /\ Filled(m, p, 0) /\ Filled(m, p, 1)
    BY <1>2, <1>3, FirmIs
  <2> QED BY <1>1, <2>1 DEF Bit
<1>7. Grown(t, m, w, c, x, 1)
  <2>1. Firm(m, c)
    BY <1>6 DEF Filled
  <2>2. GrowsAt(t, x, c, below[b])
    BY <1>1
  <2> HIDE DEF c, m
  <2> QED BY <1>2, <1>3, <2>1, <2>2 DEF GrowsAt
<1>e. c = Append(p, b) /\ d = Append(p, 1 - b)
  OBVIOUS
<1> HIDE DEF m, b, w, h, y, c, d
<1>8. SameAxes(t, w) /\ (\A q \in DOMAIN t.split : ~IsPrefix(c, q) => w.split[q] = m.split[q])
  BY <1>7 DEF Grown
<1>9. /\ ~IsPrefix(c, p)
      /\ \A q \in Pos : IsPrefix(c, q) => q # p /\ IsPrefix(p, q)
      /\ \A q \in Pos : IsPrefix(d, q) => q # p /\ ~IsPrefix(c, q)
  <2>1. \A a \in Bit : /\ ~IsPrefix(Append(p, a), p)
                       /\ \A q \in Pos : IsPrefix(Append(p, a), q) =>
                            q # p /\ IsPrefix(p, q) /\ ~IsPrefix(Append(p, 1 - a), q)
    BY <1>1, BelowIs
  <2> QED BY <1>1, <1>e, <2>1
<1>10. w.split[p] = m.split[p]
  BY <1>8, <1>9
<1>11. /\ SameAxes(t, y) /\ \A q \in DOMAIN t.split : q # p => y.split[q] = w.split[q]
       /\ Side(y.split[p], b) = [a \in Axes |-> IF a = x THEN h + 1 ELSE Side(w.split[p], b)[a]]
       /\ Side(y.split[p], 1 - b) = Side(w.split[p], 1 - b)
  <2>1. h + 1 \in Nat
    BY <1>4
  <2>2. SizedTo(t, w, y, p, b, x, h + 1)
    BY <1>1, <1>5, <1>8, <2>1, SizedSplit
  <2> QED BY <2>2 DEF SizedTo
<1>12. Side(y.split[p], b) = Plus(Side(m.split[p], b), x, 1)
  <2>1. \A a \in Axes : (IF a = x THEN h + 1 ELSE Side(m.split[p], b)[a])
                        = (IF a = x THEN Side(m.split[p], b)[a] + 1 ELSE Side(m.split[p], b)[a])
    BY DEF h
  <2> QED BY <1>10, <1>11, <2>1 DEF Plus
<1>13. Filled(y, p, b)
  <2>1. Alike(w, y, c)
    <3>1. DOMAIN w.split = DOMAIN t.split
      BY <1>8, AxesAre
    <3> QED BY <1>1, <1>9, <1>11, <3>1 DEF Alike
  <2> QED BY <1>1, <1>2, <1>6, <1>7, <1>11, <1>12, <1>e, <2>1, ChildGrows
<1>14. Filled(y, p, 1 - b)
  <2>1. Alike(m, y, d)
    BY <1>1, <1>3, <1>8, <1>9, <1>11 DEF Alike
  <2>2. Side(y.split[p], 1 - b) = Side(m.split[p], 1 - b)
    BY <1>10, <1>11
  <2> QED BY <1>1, <1>2, <1>6, <1>11, <1>e, <2>1, <2>2, ChildStays
<1>15. Solid(y.split[p]) /\ Extent(y.split[p]) = Plus(Extent(m.split[p]), x, 1)
  <2> DEFINE r == m.split[p]
             s == y.split[p]
             g == [a \in Bit |-> IF a = b THEN 1 ELSE 0]
  <2>1. r \in SplitType /\ s \in SplitType /\ s.axis = r.axis /\ r.axis = x /\ Solid(r)
    BY <1>3, <1>6, <1>11, AxesAre
  <2>2. Side(s, b) = Plus(Side(r, b), x, 1) /\ Side(s, 1 - b) = Side(r, 1 - b)
    BY <1>10, <1>11, <1>12
  <2>3. g \in [Bit -> Nat] /\ g[b] = 1 /\ g[1 - b] = 0 /\ g[0] + g[1] = 1
    BY <1>1 DEF Bit
  <2> HIDE DEF r, s, g
  <2>4. Side(r, 1 - b) \in SizeType
    BY <2>1, SizesAre DEF Side
  <2>5. Side(r, 1 - b) = Plus(Side(r, 1 - b), x, 0)
    BY <2>4, PlusIs
  <2>6. \A a \in Bit : Side(s, a) = Plus(Side(r, a), x, g[a])
    <3>1. \A a \in Bit : a = b \/ a = 1 - b
      BY <1>1 DEF Bit
    <3> QED BY <2>2, <2>3, <2>5, <3>1
  <2>7. Solid(s) /\ Extent(s) = Plus(Extent(r), x, 1)
    BY <2>1, <2>3, <2>6, WiderSplit
  <2> QED BY <2>7 DEF r, s
<1>16. Extent(y.split[p]) = Plus(Extent(u.split[p]), x, k + 1)
  <2> DEFINE a == Extent(u.split[p])
  <2>1. a \in SizeType
    BY AxesAre, SizesAre
  <2>2. Extent(y.split[p]) = Plus(Plus(a, x, k), x, 1)
    BY <1>2, <1>15
  <2> HIDE DEF a
  <2>3. Plus(Plus(a, x, k), x, 1) = Plus(a, x, k + 1)
    BY <2>1, PlusIs
  <2> QED BY <2>2, <2>3 DEF a
<1>17. \A q \in DOMAIN t.split : ~IsPrefix(p, q) => y.split[q] = u.split[q]
  <2> SUFFICES ASSUME NEW q \in DOMAIN t.split, ~IsPrefix(p, q) PROVE y.split[q] = u.split[q]
    OBVIOUS
  <2>1. q # p /\ ~IsPrefix(c, q)
    BY <1>1, <1>9
  <2> QED BY <1>2, <1>8, <1>11, <2>1
<1>18. \A a \in Bit : Filled(y, p, a)
  <2>1. \A a \in Bit : a = b \/ a = 1 - b
    BY <1>1 DEF Bit
  <2> QED BY <1>13, <1>14, <2>1
<1>19. Grown(t, u, y, p, x, k + 1)
  BY <1>11, <1>15, <1>16, <1>17, <1>18, SplitGrown
<1> QED BY <1>19 DEF y

LEMMA StayGrown ==
  ASSUME NEW t, TreeOK(t), NEW p \in Nodes(t), NEW x \in Axes, NEW u, SameAxes(t, u), Firm(u, p)
  PROVE  Grown(t, u, u, p, x, 0)
<1>1. ASSUME p \in DOMAIN t.split PROVE Extent(u.split[p]) = Plus(Extent(u.split[p]), x, 0)
  <2>1. Extent(u.split[p]) \in SizeType
    BY <1>1, AxesAre, SizesAre
  <2> QED BY <2>1, PlusIs
<1> QED BY <1>1 DEF Grown

LEMMA AlongGrows ==
  ASSUME NEW t, TreeOK(t), NEW p \in DOMAIN t.split, NEW x \in Axes, t.split[p].axis = x,
         NEW below \in [Bit -> Growers(t)], \A b \in Bit : GrowsAt(t, x, Append(p, b), below[b]),
         NEW u, SameAxes(t, u), Firm(u, p), NEW n \in Nat, n # 0
  PROVE  Grown(t, u, Along(u, p, x, n, below), p, x, n)
<1>1. u \in Outcomes(t) /\ n \in Int
  BY AxesAre DEF Outcomes
<1>a. PICK d \in {1, -1} : \E f : Cells(t, u, p, x, n, below, d, f)
  BY <1>1, AlongIs
<1>b. PICK f : Cells(t, u, p, x, n, below, d, f)
  BY <1>a
<1>c. d = 1 /\ n * d = n
  <2>1. d = (IF n > 0 THEN 1 ELSE -1)
    BY <1>b DEF Cells
  <2> QED BY <2>1
<1>2. f[0] = [t |-> u, turn |-> 0] /\ (\A k \in 1..n : f[k] = Cell(f[k - 1], p, x, 1, below))
      /\ (\A k \in 0..n : f[k] \in [t : Outcomes(t), turn : Bit]) /\ Along(u, p, x, n, below) = f[n].t
  BY <1>b, <1>c DEF Cells
<1> DEFINE T == {k \in 0..n : Grown(t, u, f[k].t, p, x, k)}
<1>3. 0 \in T
  <2>1. f[0].t = u
    BY <1>2
  <2>2. Grown(t, u, f[0].t, p, x, 0)
    BY <2>1, NodesAre, StayGrown
  <2> QED BY <2>2
<1>4. ASSUME NEW k \in 1..n, k - 1 \in T PROVE k \in T
  <2> DEFINE l == f[k - 1]
             v == f[k]
             m == k - 1
  <2>1. k - 1 \in 0..n /\ k \in 0..n /\ m \in Nat /\ m + 1 = k
    OBVIOUS
  <2>2. v = Cell(l, p, x, 1, below) /\ l.turn \in Bit /\ Grown(t, u, l.t, p, x, m)
    BY <1>2, <1>4, <2>1
  <2> HIDE DEF l, v, m
  <2>3. Grown(t, u, v.t, p, x, m + 1)
    BY <2>1, <2>2, CellGrows
  <2> QED BY <2>1, <2>3 DEF v
<1> HIDE DEF T
<1>5. n \in T
  <2>1. 0..n \subseteq T
    BY <1>3, <1>4, LoopInduction
  <2> QED BY <2>1
<1> QED BY <1>2, <1>5 DEF T

LEMMA AcrossGrows ==
  ASSUME NEW t, TreeOK(t), NEW p \in DOMAIN t.split, NEW x \in Axes, t.split[p].axis # x, NEW below,
         \A b \in Bit : GrowsAt(t, x, Append(p, b), below[b]),
         NEW u, SameAxes(t, u), Firm(u, p), NEW n \in Nat, n # 0
  PROVE  Grown(t, u, Across(u, p, x, n, MinSize(t, x)[p], below), p, x, n)
<1> DEFINE first == u.split[p].first[x]
           c == Append(p, 0)
           d == Append(p, 1)
           w == below[0][u][n]
           z == below[1][w][n]
           y == Sized(z, p, 0, x, first + n)
           v == Sized(y, p, 1, x, first + n)
           r == u.split[p]
<1>0. Nodes(t) # {} /\ p \in Pos /\ (\A q \in DOMAIN t.split : q \in Pos) /\ IsPrefix(p, p) /\ p \in Nodes(t)
      /\ 0 \in Bit /\ 1 \in Bit
  <2>1. p \in Pos /\ (\A q \in DOMAIN t.split : q \in Pos) /\ Nodes(t) # {} /\ p \in Nodes(t)
    BY TreeIs
  <2>2. IsPrefix(p, p)
    BY <2>1, PrefixOrder
  <2> QED BY <2>1, <2>2 DEF Bit
<1>1. TreeOK(u) /\ u \in Shape(t) /\ DOMAIN u.split = DOMAIN t.split /\ r \in SplitType /\ r.axis # x
  BY AxesAre
<1>2. Solid(r) /\ Filled(u, p, 0) /\ Filled(u, p, 1)
  BY <1>1, FirmIs
<1>3. r.first \in SizeType /\ r.second \in SizeType /\ r.axis \in Axes /\ x = Cross(r.axis)
  <2>1. r.first \in SizeType /\ r.second \in SizeType /\ r.axis \in Axes
    BY <1>1, SizesAre
  <2> QED BY <1>1, <2>1, SizesAre
<1>4. first \in Nat /\ first + n \in Nat /\ r.first[x] = first /\ r.second[x] = first
  BY <1>2, <1>3 DEF SizeType, Solid
<1>5. MinSize(t, x)[p] \in Nat /\ MinSize(t, x)[p] <= first
  <2>1. MinSize(t, x)[p] <= Extent(r)[x]
    BY LeastFits
  <2>2. Extent(r)[x] = first
    BY <1>1, <1>3 DEF Extent
  <2>3. MinSize(t, x)[p] \in Nat
    <3>1. MinSize(t, x) \in [Nodes(t) -> Nat \ {0}]
      BY MinSizeIs
    <3> QED BY <1>0, <3>1
  <2> QED BY <2>1, <2>2, <2>3
<1>r. r = u.split[p]
  OBVIOUS
<1>6. Across(u, p, x, n, MinSize(t, x)[p], below) = v
  <2> DEFINE least == MinSize(t, x)[p]
  <2>1. least \in Nat /\ least <= first
    BY <1>5
  <2> HIDE DEF least, first
  <2>2. Max({first + n, least}) = first + n /\ (first + n) - first = n
    BY <1>4, <2>1, MaxIs
  <2> HIDE DEF w, z, y, v
  <2>3. Across(u, p, x, n, least, below) =
          Sized(Sized(below[1][below[0][u][n]][n], p, 0, x, first + n), p, 1, x, first + n)
    BY <2>2 DEF Across, first
  <2> QED BY <2>3 DEF w, z, y, v, least
<1> HIDE DEF first, r
<1>7. /\ ~IsPrefix(c, p) /\ ~IsPrefix(d, p)
      /\ \A q \in Pos : IsPrefix(c, q) => q # p /\ IsPrefix(p, q) /\ ~IsPrefix(d, q)
      /\ \A q \in Pos : IsPrefix(d, q) => q # p /\ IsPrefix(p, q) /\ ~IsPrefix(c, q)
  <2>1. \A a \in Bit : /\ ~IsPrefix(Append(p, a), p)
                       /\ \A q \in Pos : IsPrefix(Append(p, a), q) =>
                            q # p /\ IsPrefix(p, q) /\ ~IsPrefix(Append(p, 1 - a), q)
    BY <1>0, BelowIs
  <2>2. 1 - 0 = 1 /\ 1 - 1 = 0
    OBVIOUS
  <2>3. /\ ~IsPrefix(c, p)
        /\ \A q \in Pos : IsPrefix(c, q) => q # p /\ IsPrefix(p, q) /\ ~IsPrefix(Append(p, 1 - 0), q)
    BY <1>0, <2>1
  <2>4. /\ ~IsPrefix(d, p)
        /\ \A q \in Pos : IsPrefix(d, q) => q # p /\ IsPrefix(p, q) /\ ~IsPrefix(Append(p, 1 - 1), q)
    BY <1>0, <2>1
  <2> QED BY <2>2, <2>3, <2>4
<1>e. c = Append(p, 0) /\ d = Append(p, 1) /\ w = below[0][u][n] /\ z = below[1][w][n]
      /\ y = Sized(z, p, 0, x, first + n) /\ v = Sized(y, p, 1, x, first + n)
  OBVIOUS
<1> HIDE DEF c, d, w, z, y, v
<1>8. Grown(t, u, w, c, x, n)
  <2>1. Firm(u, c) /\ GrowsAt(t, x, c, below[0])
    BY <1>0, <1>2, <1>e DEF Filled
  <2> QED BY <1>1, <1>e, <2>1 DEF GrowsAt
<1>9. SameAxes(t, w) /\ (\A q \in DOMAIN t.split : ~IsPrefix(c, q) => w.split[q] = u.split[q])
  BY <1>8 DEF Grown
<1>10. DOMAIN w.split = DOMAIN t.split /\ w \in Shape(t) /\ w.split[p] = r
  BY <1>7, <1>9, <1>r, AxesAre
<1>11. Filled(w, p, 1)
  <2>1. Alike(u, w, d)
    BY <1>0, <1>1, <1>7, <1>9 DEF Alike
  <2>2. Alike(u, w, Append(p, 1)) /\ Side(w.split[p], 1) = Side(u.split[p], 1)
    BY <1>10, <1>e, <1>r, <2>1
  <2> QED BY <1>0, <1>2, <1>9, <2>2, ChildStays
<1>12. Grown(t, w, z, d, x, n)
  <2>1. Firm(w, d) /\ GrowsAt(t, x, d, below[1])
    BY <1>0, <1>11, <1>e DEF Filled
  <2> QED BY <1>9, <1>10, <1>e, <2>1 DEF GrowsAt
<1>13. SameAxes(t, z) /\ (\A q \in DOMAIN t.split : ~IsPrefix(d, q) => z.split[q] = w.split[q])
  BY <1>12 DEF Grown
<1>14. SizedTo(t, z, y, p, 0, x, first + n)
  BY <1>0, <1>4, <1>13, <1>e, SizedSplit
<1>15. SameAxes(t, y) /\ (\A q \in DOMAIN t.split : q # p => y.split[q] = z.split[q])
       /\ Side(y.split[p], 0) = [a \in Axes |-> IF a = x THEN first + n ELSE Side(z.split[p], 0)[a]]
       /\ Side(y.split[p], 1) = Side(z.split[p], 1)
  <2>1. 1 - 0 = 1
    OBVIOUS
  <2> QED BY <1>14, <2>1 DEF SizedTo
<1>16. SizedTo(t, y, v, p, 1, x, first + n)
  BY <1>0, <1>4, <1>15, <1>e, SizedSplit
<1>17. SameAxes(t, v) /\ (\A q \in DOMAIN t.split : q # p => v.split[q] = y.split[q])
       /\ Side(v.split[p], 1) = [a \in Axes |-> IF a = x THEN first + n ELSE Side(y.split[p], 1)[a]]
       /\ Side(v.split[p], 0) = Side(y.split[p], 0)
  <2>1. 1 - 1 = 0
    OBVIOUS
  <2> QED BY <1>16, <2>1 DEF SizedTo
<1>18. z.split[p] = r
  BY <1>7, <1>10, <1>13
<1>19. Side(v.split[p], 0) = Plus(Side(r, 0), x, n) /\ Side(v.split[p], 1) = Plus(Side(r, 1), x, n)
  <2>1. \A a \in Axes : (IF a = x THEN first + n ELSE Side(r, 0)[a])
                        = (IF a = x THEN Side(r, 0)[a] + n ELSE Side(r, 0)[a])
    BY <1>4 DEF Side
  <2>2. \A a \in Axes : (IF a = x THEN first + n ELSE Side(r, 1)[a])
                        = (IF a = x THEN Side(r, 1)[a] + n ELSE Side(r, 1)[a])
    BY <1>4 DEF Side
  <2>3. Side(v.split[p], 0) = Plus(Side(r, 0), x, n)
    BY <1>15, <1>17, <1>18, <2>1 DEF Plus
  <2>4. Side(v.split[p], 1) = Plus(Side(r, 1), x, n)
    BY <1>15, <1>17, <1>18, <2>2 DEF Plus
  <2> QED BY <2>3, <2>4
<1>20. Filled(v, p, 0)
  <2>1. Alike(w, v, c)
    BY <1>0, <1>7, <1>10, <1>13, <1>15, <1>17 DEF Alike
  <2>2. Grown(t, u, w, Append(p, 0), x, n) /\ Alike(w, v, Append(p, 0))
    BY <1>8, <1>e, <2>1
  <2>3. Side(v.split[p], 0) = Plus(Side(u.split[p], 0), x, n)
    BY <1>19, <1>r
  <2> QED BY <1>0, <1>2, <1>17, <2>2, <2>3, ChildGrows
<1>21. Filled(v, p, 1)
  <2>1. Alike(z, v, d)
    <3>1. DOMAIN z.split = DOMAIN t.split
      BY <1>13, AxesAre
    <3> QED BY <1>0, <1>7, <1>15, <1>17, <3>1 DEF Alike
  <2>2. Grown(t, w, z, Append(p, 1), x, n) /\ Alike(z, v, Append(p, 1))
    BY <1>12, <1>e, <2>1
  <2>3. Side(v.split[p], 1) = Plus(Side(w.split[p], 1), x, n)
    BY <1>10, <1>19
  <2> QED BY <1>0, <1>9, <1>11, <1>17, <2>2, <2>3, ChildGrows
<1>22. Solid(v.split[p]) /\ Extent(v.split[p]) = Plus(Extent(r), x, n)
  <2> DEFINE s == v.split[p]
             g == [a \in Bit |-> n]
  <2>1. s \in SplitType /\ s.axis = r.axis
    BY <1>1, <1>17, <1>r, AxesAre
  <2>2. g \in [Bit -> Nat] /\ g[0] = n /\ g[1] = n
    BY <1>0
  <2>3. Side(s, 0) = Plus(Side(r, 0), x, g[0]) /\ Side(s, 1) = Plus(Side(r, 1), x, g[1])
    BY <1>19, <2>2
  <2> HIDE DEF s, g
  <2>4. \A a \in Bit : Side(s, a) = Plus(Side(r, a), x, g[a])
    BY <2>3 DEF Bit
  <2>5. Solid(s) /\ Extent(s) = Plus(Extent(r), x, n)
    BY <1>1, <1>2, <2>1, <2>2, <2>4, WiderSplit
  <2> QED BY <2>5 DEF s
<1>23. \A q \in DOMAIN t.split : ~IsPrefix(p, q) => v.split[q] = u.split[q]
  <2> SUFFICES ASSUME NEW q \in DOMAIN t.split, ~IsPrefix(p, q) PROVE v.split[q] = u.split[q]
    OBVIOUS
  <2>1. q # p /\ ~IsPrefix(c, q) /\ ~IsPrefix(d, q)
    BY <1>0, <1>7
  <2> QED BY <1>9, <1>13, <1>15, <1>17, <2>1
<1>24. \A a \in Bit : Filled(v, p, a)
  BY <1>20, <1>21 DEF Bit
<1>25. Grown(t, u, v, p, x, n)
  BY <1>17, <1>22, <1>23, <1>24, <1>r, SplitGrown
<1> QED BY <1>6, <1>25

LEMMA GrowingGrows ==
  ASSUME NEW t, TreeOK(t), NEW p \in Nodes(t), NEW x \in Axes, NEW below,
         p \in DOMAIN t.split => /\ below \in [Bit -> Growers(t)]
                                 /\ \A b \in Bit : GrowsAt(t, x, Append(p, b), below[b]),
         NEW g, g = Growing(t, p, x, MinSize(t, x)[p], below)
  PROVE  GrowsAt(t, x, p, g)
<1> SUFFICES ASSUME NEW u \in Shape(t), NEW n \in Nat, SameAxes(t, u), Firm(u, p)
             PROVE  Grown(t, u, g[u][n], p, x, n)
  BY DEF GrowsAt
<1> DEFINE least == MinSize(t, x)[p]
<1>1. least \in Nat
  <2>1. MinSize(t, x) \in [Nodes(t) -> Nat \ {0}]
    BY MinSizeIs
  <2> QED BY <2>1
<1>l. least = MinSize(t, x)[p]
  OBVIOUS
<1> HIDE DEF least
<1>2. u # NoTree /\ u \in Outcomes(t) /\ n \in Int
  <2>1. Nodes(t) # {}
    OBVIOUS
  <2> QED BY <2>1, AxesAre DEF Outcomes
<1>3. g[u][n] = IF u = NoTree \/ n = 0 \/ p \in DOMAIN t.leaf THEN u
                ELSE IF t.split[p].axis = x THEN Along(u, p, x, n, below)
                ELSE Across(u, p, x, n, least, below)
  BY <1>1, <1>2, <1>l, GrowingIs
<1>4. CASE n = 0
  <2>1. g[u][n] = u
    BY <1>3, <1>4
  <2> QED BY <1>4, <2>1, StayGrown
<1>5. CASE n # 0 /\ p \in DOMAIN t.leaf
  <2>1. g[u][n] = u /\ p \notin DOMAIN t.split
    BY <1>3, <1>5, NodesAre
  <2> QED BY <2>1 DEF Grown
<1>6. CASE n # 0 /\ p \in DOMAIN t.split /\ t.split[p].axis = x
  <2>1. p \notin DOMAIN t.leaf
    BY <1>6, NodesAre
  <2>2. g[u][n] = Along(u, p, x, n, below)
    BY <1>2, <1>3, <1>6, <2>1
  <2> QED BY <1>6, <2>2, AlongGrows
<1>7. CASE n # 0 /\ p \in DOMAIN t.split /\ t.split[p].axis # x
  <2>1. p \notin DOMAIN t.leaf
    BY <1>7, NodesAre
  <2>2. g[u][n] = Across(u, p, x, n, least, below)
    BY <1>2, <1>3, <1>7, <2>1
  <2> QED BY <1>7, <1>l, <2>2, AcrossGrows
<1> QED BY <1>4, <1>5, <1>6, <1>7, NodesAre

(* A tiled tree made larger fills the larger size. *)
LEMMA TiledIsFirm ==
  ASSUME NEW t, TreeOK(t), NEW s
  PROVE  Tiled(t, s) <=> Firm(t, <<>>) /\ (<<>> \in DOMAIN t.split => Extent(t.split[<<>>]) = s)
<1>1. \A q \in DOMAIN t.split : IsPrefix(<<>>, q)
  BY TreeIs, PrefixOrder
<1>2. \A q \in DOMAIN t.split : Allotted(t, s, q) = IF q = <<>> THEN s ELSE Side(t.split[Front(q)], Last(q))
  BY DEF Allotted
<1>3. ASSUME Tiled(t, s) PROVE Firm(t, <<>>) /\ (<<>> \in DOMAIN t.split => Extent(t.split[<<>>]) = s)
  <2>1. \A q \in DOMAIN t.split : Extent(t.split[q]) = Allotted(t, s, q) /\ Solid(t.split[q])
    BY <1>3, TiledIs
  <2> QED BY <1>2, <2>1 DEF Firm
<1>4. ASSUME Firm(t, <<>>), <<>> \in DOMAIN t.split => Extent(t.split[<<>>]) = s PROVE Tiled(t, s)
  <2>1. \A q \in DOMAIN t.split :
          Solid(t.split[q]) /\ (q # <<>> => Extent(t.split[q]) = Side(t.split[Front(q)], Last(q)))
    BY <1>1, <1>4 DEF Firm
  <2>2. \A q \in DOMAIN t.split : Extent(t.split[q]) = Allotted(t, s, q) /\ Solid(t.split[q])
    BY <1>2, <1>4, <2>1
  <2> QED BY <2>2, TiledIs
<1> QED BY <1>3, <1>4

LEMMA AdjustTiles ==
  ASSUME NEW t, TreeOK(t), Nodes(t) # {}, NEW x \in Axes, NEW n \in Nat, NEW s, Tiled(t, s),
         NEW v, v = Adjust(t, x, n)
  PROVE  SameAxes(t, v) /\ Tiled(v, Plus(s, x, n))
<1>1. PICK f : /\ f \in [Nodes(t) -> Growers(t)]
               /\ \A p \in Nodes(t) :
                    f[p] = Growing(t, p, x, MinSize(t, x)[p], [b \in Bit |-> f[Append(p, b)]])
               /\ \A m \in Int : Adjust(t, x, m) = IF t = NoTree THEN NoTree ELSE f[<<>>][t][m]
  BY AdjustIs
<1>2. SameAxes(t, t) /\ t \in Shape(t)
  BY ShapeIs DEF SameAxes
<1> DEFINE S == {p \in Nodes(t) : GrowsAt(t, x, p, f[p])}
<1>3. ASSUME NEW p \in DOMAIN t.leaf PROVE p \in S
  <2> DEFINE below == [b \in Bit |-> f[Append(p, b)]]
  <2>1. p \in Nodes(t) /\ p \notin DOMAIN t.split
    BY NodesAre
  <2>2. f[p] = Growing(t, p, x, MinSize(t, x)[p], below)
    BY <1>1, <2>1
  <2> HIDE DEF below
  <2>3. GrowsAt(t, x, p, f[p])
    BY <2>1, <2>2, GrowingGrows
  <2> QED BY <2>1, <2>3
<1>4. ASSUME NEW p \in DOMAIN t.split, Append(p, 0) \in S, Append(p, 1) \in S PROVE p \in S
  <2> DEFINE below == [b \in Bit |-> f[Append(p, b)]]
  <2>1. p \in Nodes(t) /\ Append(p, 0) \in Nodes(t) /\ Append(p, 1) \in Nodes(t)
    BY NodesAre
  <2>2. f[p] = Growing(t, p, x, MinSize(t, x)[p], below)
    BY <1>1, <2>1
  <2>3. below \in [Bit -> Growers(t)]
    <3>1. \A b \in Bit : f[Append(p, b)] \in Growers(t)
      BY <1>1, <2>1 DEF Bit
    <3> QED BY <3>1
  <2>4. \A b \in Bit : GrowsAt(t, x, Append(p, b), below[b])
    BY <1>4 DEF Bit
  <2> HIDE DEF below
  <2>5. GrowsAt(t, x, p, f[p])
    BY <2>1, <2>2, <2>3, <2>4, GrowingGrows
  <2> QED BY <2>1, <2>5
<1>5. <<>> \in Nodes(t)
  BY RootIsNode
<1>6. GrowsAt(t, x, <<>>, f[<<>>])
  <2> HIDE DEF S
  <2>1. DOMAIN t.leaf \subseteq S
    BY <1>3
  <2>2. Nodes(t) \subseteq S
    BY <1>4, <2>1, TreeInduction
  <2>3. <<>> \in S
    BY <1>5, <2>2
  <2> QED BY <2>3 DEF S
<1>7. Firm(t, <<>>) /\ (<<>> \in DOMAIN t.split => Extent(t.split[<<>>]) = s)
  BY TiledIsFirm
<1>8. v = f[<<>>][t][n]
  <2>1. t # NoTree /\ n \in Int
    BY NoTreeOK
  <2> QED BY <1>1, <2>1
<1>9. Grown(t, t, v, <<>>, x, n)
  BY <1>2, <1>6, <1>7, <1>8 DEF GrowsAt
<1>10. SameAxes(t, v) /\ Firm(v, <<>>)
       /\ (<<>> \in DOMAIN t.split => Extent(v.split[<<>>]) = Plus(Extent(t.split[<<>>]), x, n))
  BY <1>9 DEF Grown
<1>11. TreeOK(v) /\ DOMAIN v.split = DOMAIN t.split
  BY <1>10, AxesAre
<1>12. Tiled(v, Plus(s, x, n))
  BY <1>7, <1>10, <1>11, TiledIsFirm
<1> QED BY <1>10, <1>12

LEMMA ResizedTiles ==
  ASSUME NEW t, TreeOK(t), Nodes(t) # {}, NEW from \in SizeType, NEW s \in SizeType, Tiled(t, from),
         NEW new, new = AtLeast(t, s), Larger(new, from)
  PROVE  Tiled(Resized(t, from, s), new)
<1> DEFINE c == new["cols"] - from["cols"]
           r == new["rows"] - from["rows"]
           v == Adjust(t, "cols", c)
           w == Adjust(v, "rows", r)
           f == Plus(from, "cols", c)
           g == Plus(f, "rows", r)
<1>1. new \in SizeType /\ "cols" \in Axes /\ "rows" \in Axes
  BY AtLeastIs DEF Axes
<1>2. \A y \in Axes : new[y] \in Nat /\ from[y] \in Nat /\ new[y] >= from[y]
  BY <1>1 DEF SizeType, Larger
<1>3. c \in Nat /\ r \in Nat
  BY <1>1, <1>2
<1>4. Resized(t, from, s) = w
  BY DEF Resized
<1>5. g = new
  <2>1. g = [y \in Axes |-> IF y = "rows" THEN f[y] + r ELSE f[y]]
    BY DEF Plus
  <2>2. \A y \in Axes : f[y] = IF y = "cols" THEN from[y] + c ELSE from[y]
    BY DEF Plus
  <2>3. \A y \in Axes : (IF y = "rows" THEN f[y] + r ELSE f[y]) = new[y]
    <3> SUFFICES ASSUME NEW y \in Axes PROVE (IF y = "rows" THEN f[y] + r ELSE f[y]) = new[y]
      OBVIOUS
    <3> HIDE DEF f
    <3>1. CASE y = "cols"
      BY <1>2, <2>2, <3>1
    <3>2. CASE y = "rows"
      BY <1>2, <2>2, <3>2
    <3> QED BY <3>1, <3>2 DEF Axes
  <2>4. new = [y \in Axes |-> new[y]]
    BY <1>1 DEF SizeType
  <2> HIDE DEF g, f
  <2> QED BY <2>1, <2>3, <2>4
<1>e. v = Adjust(t, "cols", c) /\ w = Adjust(v, "rows", r) /\ f = Plus(from, "cols", c) /\ g = Plus(f, "rows", r)
  OBVIOUS
<1> HIDE DEF c, r, v, w, f, g
<1>6. SameAxes(t, v) /\ Tiled(v, f)
  BY <1>1, <1>3, <1>e, AdjustTiles
<1>7. TreeOK(v) /\ Nodes(v) # {}
  BY <1>6, AxesAre
<1>8. Tiled(w, g)
  BY <1>1, <1>3, <1>6, <1>7, <1>e, AdjustTiles
<1> QED BY <1>4, <1>5, <1>8

LEMMA ResizeTiles ==
  ASSUME TypeOK, Tiled(tree, size), zoomed = None, NEW s \in Sizes, Resize(s), Larger(size', size)
  PROVE  Tiled(tree', size')
<1>1. TreeOK(tree) /\ size \in SizeType /\ Nodes(tree) # {}
  BY UsableIs DEF Resize
<1>2. s \in SizeType
  BY SplitAssumption DEF SizeType
<1>3. Becomes(Resized(tree, size, s), AtLeast(tree, s))
  BY DEF Resize
<1>4. CASE Resized(tree, size, s) = NoTree
  BY <1>3, <1>4 DEF Becomes
<1>5. CASE Resized(tree, size, s) # NoTree
  <2>1. tree' = Resized(tree, size, s) /\ size' = AtLeast(tree, s)
    BY <1>3, <1>5 DEF Becomes
  <2>2. Tiled(Resized(tree, size, s), AtLeast(tree, s))
    BY <1>1, <1>2, <2>1, ResizedTiles
  <2> QED BY <2>1, <2>2
<1> QED BY <1>4, <1>5

LEMMA SplitsStay ==
  ASSUME tree'.split = tree.split, size' = size, Tiled(tree, size)
  PROVE  Tiled(tree', size')
BY DEF Tiled, Allotted

LEMMA OthersTile ==
  ASSUME TypeOK, Tiled(tree, size), zoomed = None,
         \/ ToggleZoom
         \/ \E clockwise \in BOOLEAN : Rotate(clockwise)
         \/ \E i \in Indices : ActivateIndex(i) \/ \E keepFocus \in BOOLEAN : Swap(i, keepFocus)
         \/ \E pane \in PaneSet(tree) : Activate(pane)
  PROVE  Tiled(tree', size')
<1>0. tree = [split |-> tree.split, leaf |-> tree.leaf]
  BY DEF TypeOK, TreeOK
<1>1. CASE ToggleZoom
  BY <1>1, SplitsStay DEF ToggleZoom
<1>2. ASSUME NEW clockwise \in BOOLEAN, Rotate(clockwise) PROVE Tiled(tree', size')
  <2>1. \A g : [tree EXCEPT !.leaf = g].split = tree.split
    BY <1>0
  <2>2. tree'.split = tree.split /\ size' = size
    BY <1>2, <2>1 DEF Rotate
  <2> QED BY <2>2, SplitsStay
<1>3. ASSUME NEW i \in Indices, NEW keepFocus \in BOOLEAN, Swap(i, keepFocus) PROVE Tiled(tree', size')
  <2> DEFINE a == LeafAt(tree, active)
             b == LeafAt(tree, i)
             x == tree.leaf[b]
             y == tree.leaf[a]
  <2>1. tree' = [tree EXCEPT !.leaf[a] = x, !.leaf[b] = y] /\ size' = size
    BY <1>3 DEF Swap
  <2> HIDE DEF a, b, x, y
  <2>2. [tree EXCEPT !.leaf[a] = x, !.leaf[b] = y].split = tree.split
    BY <1>0
  <2> QED BY <2>1, <2>2, SplitsStay
<1>4. ASSUME NEW i \in Indices, ActivateIndex(i) PROVE Tiled(tree', size')
  BY <1>4, SplitsStay DEF ActivateIndex
<1>5. ASSUME NEW pane \in PaneSet(tree), Activate(pane) PROVE Tiled(tree', size')
  BY <1>5, SplitsStay DEF Activate
<1> QED BY <1>1, <1>2, <1>3, <1>4, <1>5

LEMMA StepTiles ==
  ASSUME TypeOK, Next, zoomed = None, Tiled(tree, size), ~Rough
  PROVE  Tiled(tree', size')
<1>0. Larger(size', size)
  BY DEF Rough
<1>1. ASSUME NEW s \in Sizes, Resize(s) PROVE Tiled(tree', size')
  BY <1>0, <1>1, ResizeTiles
<1>2. CASE ToggleDirection
  BY <1>2 DEF Rough
<1>3. ASSUME NEW pane \in Panes \ PaneSet(tree), NEW x \in Axes, NEW b \in {0, 1}, NEW ask \in Requests,
             SplitTop(pane, x, b, ask)
      PROVE  Tiled(tree', size')
  BY <1>3 DEF Rough
<1>4. ASSUME NEW pane \in Panes \ PaneSet(tree), NEW x \in Axes, NEW b \in {0, 1}, NEW ask \in Requests,
             NEW i \in Indices, Split(pane, i, x, b, ask)
      PROVE  Tiled(tree', size')
  BY <1>4, SplitTiles
<1>5. ASSUME NEW S \in SUBSET Panes, RemoveIf(S) PROVE Tiled(tree', size')
  BY <1>5, RemoveIfTiles
<1>6. ASSUME NEW p \in DOMAIN tree.split, NEW d \in Deltas, MoveSplit(p, d) PROVE Tiled(tree', size')
  BY <1>6 DEF Rough
<1>7. ASSUME \/ ToggleZoom
             \/ \E clockwise \in BOOLEAN : Rotate(clockwise)
             \/ \E i \in Indices : ActivateIndex(i) \/ \E keepFocus \in BOOLEAN : Swap(i, keepFocus)
             \/ \E pane \in PaneSet(tree) : Activate(pane)
      PROVE  Tiled(tree', size')
  BY <1>7, OthersTile
<1>8. ASSUME NEW i \in Indices, NEW x \in Axes, NEW b \in {0, 1}, NEW ask \in Requests, SplitBreaks(i, x, b, ask)
      PROVE  Tiled(tree', size')
  BY <1>8 DEF SplitBreaks
<1> QED BY <1>1, <1>2, <1>3, <1>4, <1>5, <1>6, <1>7, <1>8 DEF Next

(* Only what is known to be rough can leave a tab that was tiled untiled. *)
THEOREM TilingAlwaysStays == Spec => TilingStays
<1>1. TypeOK /\ [Next]_vars =>
        [zoomed = None /\ zoomed' = None /\ Tiled(tree, size) /\ ~Tiled(tree', size') => Rough]_vars
  BY StepTiles
<1> QED BY <1>1, InitType, NextType, PTL DEF Spec, TilingStays
=============================================================================
