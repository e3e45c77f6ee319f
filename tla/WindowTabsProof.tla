-------------------------- MODULE WindowTabsProof --------------------------
(***************************************************************************)
(* Proofs about module WindowTabs, for any set of tabs: the selection is   *)
(* on a tab as long as there is one, only the user moves it, and the tabs  *)
(* keep their order.                                                       *)
(***************************************************************************)
EXTENDS WindowTabs, SequenceTheorems, TLAPS

(* RemoveAt takes one element out and moves up those behind it. *)
LEMMA RemoveAtElements ==
  ASSUME NEW S, NEW s \in Seq(S), NEW i \in 1..Len(s)
  PROVE  /\ RemoveAt(s, i) \in Seq(S)
         /\ Len(RemoveAt(s, i)) = Len(s) - 1
         /\ \A k \in 1..(Len(s) - 1) : RemoveAt(s, i)[k] = IF k < i THEN s[k] ELSE s[k + 1]
<1> DEFINE a == SubSeq(s, 1, i - 1)
           b == SubSeq(s, i + 1, Len(s))
<1>1. a \in Seq(S) /\ Len(a) = i - 1 /\ \A k \in 1..(i - 1) : a[k] = s[k]
  BY SubSeqProperties
<1>2. b \in Seq(S) /\ Len(b) = Len(s) - i /\ \A k \in 1..(Len(s) - i) : b[k] = s[i + k]
  BY SubSeqProperties
<1>3. /\ a \o b \in Seq(S)
      /\ Len(a \o b) = Len(a) + Len(b)
      /\ \A k \in 1..(Len(a) + Len(b)) : (a \o b)[k] = IF k <= Len(a) THEN a[k] ELSE b[k - Len(a)]
  <2> HIDE DEF a, b
  <2> QED BY <1>1, <1>2, ConcatProperties
<1>4. RemoveAt(s, i) = a \o b
  BY DEF RemoveAt
<1>5. Len(s) \in Nat
  OBVIOUS
<1> HIDE DEF a, b
<1>6. Len(a \o b) = Len(s) - 1 /\ Len(a) + Len(b) = Len(s) - 1
  BY <1>1, <1>2, <1>3, <1>5
<1>7. ASSUME NEW k \in 1..(Len(s) - 1)
      PROVE  (a \o b)[k] = IF k < i THEN s[k] ELSE s[k + 1]
  <2>0. (a \o b)[k] = IF k <= i - 1 THEN a[k] ELSE b[k - (i - 1)]
    BY <1>1, <1>3, <1>6
  <2>1. CASE k < i
    <3>1. k \in 1..(i - 1) /\ k <= i - 1
      BY <1>5, <2>1
    <3> QED BY <1>1, <2>0, <2>1, <3>1
  <2>2. CASE ~(k < i)
    <3>1. k - (i - 1) \in 1..(Len(s) - i) /\ i + (k - (i - 1)) = k + 1 /\ ~(k <= i - 1)
      BY <1>5, <2>2
    <3>2. b[k - (i - 1)] = s[k + 1]
      BY <1>2, <3>1
    <3> QED BY <2>0, <2>2, <3>1, <3>2
  <2> QED BY <2>1, <2>2
<1>8. a \o b \in Seq(S)
  BY <1>3
<1> QED
  BY <1>4, <1>6, <1>7, <1>8

(* InsertAt moves down the elements from the position on. *)
LEMMA InsertAtElements ==
  ASSUME NEW S, NEW s \in Seq(S), NEW e \in S, NEW i \in 1..(Len(s) + 1)
  PROVE  /\ InsertAt(s, i, e) \in Seq(S)
         /\ Len(InsertAt(s, i, e)) = Len(s) + 1
         /\ \A k \in 1..(Len(s) + 1) :
              InsertAt(s, i, e)[k] = IF k < i THEN s[k] ELSE IF k = i THEN e ELSE s[k - 1]
<1> DEFINE a == SubSeq(s, 1, i - 1)
           b == SubSeq(s, i, Len(s))
<1>1. a \in Seq(S) /\ Len(a) = i - 1 /\ \A k \in 1..(i - 1) : a[k] = s[k]
  BY SubSeqProperties
<1>2. b \in Seq(S) /\ Len(b) = Len(s) + 1 - i /\ \A k \in 1..(Len(s) + 1 - i) : b[k] = s[i + k - 1]
  BY SubSeqProperties
<1>3. /\ a \o <<e>> \in Seq(S)
      /\ Len(a \o <<e>>) = i
      /\ \A k \in 1..i : (a \o <<e>>)[k] = IF k < i THEN s[k] ELSE e
  <2>1. <<e>> \in Seq(S) /\ Len(<<e>>) = 1 /\ <<e>>[1] = e
    OBVIOUS
  <2> HIDE DEF a, b
  <2>2. a \o <<e>> \in Seq(S) /\ Len(a \o <<e>>) = Len(a) + 1
        /\ \A k \in 1..(Len(a) + 1) : (a \o <<e>>)[k] = IF k <= Len(a) THEN a[k] ELSE <<e>>[k - Len(a)]
    BY <1>1, <2>1, ConcatProperties
  <2> QED BY <1>1, <2>1, <2>2
<1>4. /\ (a \o <<e>>) \o b \in Seq(S)
      /\ Len((a \o <<e>>) \o b) = Len(s) + 1
      /\ \A k \in 1..(Len(s) + 1) :
           ((a \o <<e>>) \o b)[k] = IF k <= i THEN (a \o <<e>>)[k] ELSE b[k - i]
  <2> DEFINE c == a \o <<e>>
  <2>1. c \in Seq(S) /\ Len(c) = i
    BY <1>3
  <2> HIDE DEF a, b, c
  <2>2. c \o b \in Seq(S) /\ Len(c \o b) = Len(c) + Len(b)
        /\ \A k \in 1..(Len(c) + Len(b)) : (c \o b)[k] = IF k <= Len(c) THEN c[k] ELSE b[k - Len(c)]
    BY <1>2, <2>1, ConcatProperties
  <2>3. c \o b \in Seq(S) /\ Len(c \o b) = Len(s) + 1
        /\ \A k \in 1..(Len(s) + 1) : (c \o b)[k] = IF k <= i THEN c[k] ELSE b[k - i]
    BY <1>2, <2>1, <2>2
  <2> QED BY <2>3 DEF c
<1>5. InsertAt(s, i, e) = (a \o <<e>>) \o b
  BY DEF InsertAt
<1> HIDE DEF a, b
<1> QED
  BY <1>1, <1>2, <1>3, <1>4, <1>5
-----------------------------------------------------------------------------
(* What Removed and its callers rely on: no tab is twice in the window.    *)
Distinct(s) == \A i, j \in 1..Len(s) : s[i] = s[j] => i = j

(* A window between two operations. *)
GoodWindow(w) ==
  /\ w \in [tabs : Seq(Tabs), active : Nat, last : Tabs \cup {None}]
  /\ w.active \in 1..(IF w.tabs = <<>> THEN 1 ELSE Len(w.tabs))
  /\ Distinct(w.tabs)

(* idx_by_id finds the tab. *)
LEMMA PosOfTab ==
  ASSUME NEW s \in Seq(Tabs), NEW t \in ToSet(s)
  PROVE  PosOf(s, t) \in 1..Len(s) /\ s[PosOf(s, t)] = t
BY DEF PosOf, ToSet

(* Removing a tab leaves the others, in a good window. *)
LEMMA RemovedIsGood ==
  ASSUME NEW w, GoodWindow(w), NEW t \in ToSet(w.tabs), NEW switch \in BOOLEAN
  PROVE  /\ GoodWindow(Removed(w, t, switch))
         /\ ToSet(Removed(w, t, switch).tabs) = ToSet(w.tabs) \ {t}
         /\ Removed(w, t, switch).tabs = RemoveAt(w.tabs, PosOf(w.tabs, t))
         /\ Active(w) # t => Active(Removed(w, t, switch)) = Active(w)
<1> DEFINE s == w.tabs
           p == PosOf(s, t)
           r == RemoveAt(s, p)
           back == switch /\ Active(w) = t /\ w.last \in ToSet(w.tabs)
           w1 == IF back THEN SetActive(w, PosOf(w.tabs, w.last)) ELSE w
           w2 == [w1 EXCEPT !.tabs = r]
<1>1. /\ w \in [tabs : Seq(Tabs), active : Nat, last : Tabs \cup {None}]
      /\ s \in Seq(Tabs) /\ Distinct(s) /\ Len(s) \in Nat
      /\ p \in 1..Len(s) /\ s[p] = t /\ w.active \in 1..Len(s)
  <2>1. s \in Seq(Tabs)
    BY DEF GoodWindow
  <2>2. p \in 1..Len(s) /\ s[p] = t
    BY <2>1, PosOfTab
  <2> QED BY <2>1, <2>2 DEF GoodWindow
<1>2. /\ r \in Seq(Tabs) /\ Len(r) = Len(s) - 1
      /\ \A k \in 1..(Len(s) - 1) : r[k] = IF k < p THEN s[k] ELSE s[k + 1]
  <2> HIDE DEF p, s
  <2> QED BY <1>1, RemoveAtElements
<1>3. Distinct(r)
  <2> HIDE DEF p, s, r
  <2> SUFFICES ASSUME NEW i \in 1..Len(r), NEW j \in 1..Len(r), r[i] = r[j]
               PROVE  i = j
    BY DEF Distinct
  <2> DEFINE at(k) == IF k < p THEN k ELSE k + 1
  <2>1. at(i) \in 1..Len(s) /\ at(j) \in 1..Len(s) /\ r[i] = s[at(i)] /\ r[j] = s[at(j)]
    BY <1>1, <1>2
  <2>2. at(i) = at(j)
    <3> HIDE DEF at
    <3> QED BY <1>1, <2>1 DEF Distinct
  <2> QED BY <1>1, <1>2, <2>2
<1>4. ToSet(r) = ToSet(s) \ {t}
  <2> HIDE DEF p, s, r
  <2>0. ToSet(s) = {s[k] : k \in 1..Len(s)} /\ ToSet(r) = {r[k] : k \in 1..Len(r)}
    BY <1>1, <1>2 DEF ToSet
  <2>1. ASSUME NEW k \in 1..Len(r)
        PROVE  r[k] \in ToSet(s) \ {t}
    <3> DEFINE j == IF k < p THEN k ELSE k + 1
    <3>1. j \in 1..Len(s) /\ j # p /\ r[k] = s[j]
      BY <1>1, <1>2
    <3> HIDE DEF j
    <3>2. s[j] # t
      BY <1>1, <3>1 DEF Distinct
    <3> QED BY <2>0, <3>1, <3>2
  <2>2. ASSUME NEW k \in 1..Len(s), s[k] # t
        PROVE  s[k] \in ToSet(r)
    <3>1. CASE k < p
      <4>1. k \in 1..Len(r) /\ r[k] = s[k]
        BY <1>1, <1>2, <3>1
      <4> QED BY <2>0, <4>1
    <3>2. CASE k > p
      <4>1. k - 1 \in 1..Len(r) /\ r[k - 1] = s[k]
        BY <1>1, <1>2, <3>2
      <4> QED BY <2>0, <4>1
    <3> QED BY <1>1, <2>2, <3>1, <3>2
  <2>3. ToSet(r) \subseteq ToSet(s) \ {t}
    BY <2>0, <2>1
  <2>4. ToSet(s) \ {t} \subseteq ToSet(r)
    BY <2>0, <2>2
  <2> QED BY <2>3, <2>4
<1>5. w1 \in [tabs : Seq(Tabs), active : 1..Len(s), last : Tabs \cup {None}] /\ w1.tabs = s
  <2>1. w.last \in ToSet(s) => PosOf(s, w.last) \in 1..Len(s)
    BY <1>1, PosOfTab
  <2> QED BY <1>1, <2>1 DEF SetActive
<1>6. w2 \in [tabs : Seq(Tabs), active : 1..Len(s), last : Tabs \cup {None}] /\ w2.tabs = r
  BY <1>2, <1>5
<1>7. Removed(w, t, switch) = Fixup(w2, Active(w))
  BY <1>5 DEF Removed
<1>8. Active(w) = s[w.active] /\ Active(w) \in ToSet(s)
  BY <1>1 DEF Active, ToSet
<1> HIDE DEF w1, w2, r, p, s
<1>9. CASE Active(w) \in ToSet(r)
  <2> DEFINE q == PosOf(r, Active(w))
  <2>1. q \in 1..Len(r) /\ r[q] = Active(w)
    BY <1>2, <1>9, PosOfTab
  <2>2. Removed(w, t, switch) = [w2 EXCEPT !.active = q]
    BY <1>6, <1>7, <1>9 DEF Fixup, SetActive
  <2> HIDE DEF q
  <2>3. Removed(w, t, switch).tabs = r /\ Removed(w, t, switch).active = q
    BY <1>6, <2>2
  <2>4. GoodWindow(Removed(w, t, switch))
    <3>1. Removed(w, t, switch) \in [tabs : Seq(Tabs), active : Nat, last : Tabs \cup {None}]
      BY <1>1, <1>2, <1>6, <2>1, <2>2
    <3>2. r # <<>>
      BY <1>2, <2>1
    <3> QED BY <1>2, <1>3, <2>1, <2>3, <3>1, <3>2 DEF GoodWindow
  <2>5. Active(Removed(w, t, switch)) = Active(w)
    BY <1>2, <2>1, <2>3 DEF Active
  <2> QED BY <1>4, <2>3, <2>4, <2>5 DEF r, s, p
<1>10. CASE Active(w) \notin ToSet(r)
  <2>1. Active(w) = t
    BY <1>4, <1>8, <1>10
  <2>2. /\ Removed(w, t, switch).tabs = r
        /\ GoodWindow(Removed(w, t, switch))
    <3>1. CASE Len(r) > 0 /\ w2.active > Len(r)
      <4>1. Removed(w, t, switch) = [w2 EXCEPT !.active = Len(r)]
        BY <1>6, <1>7, <1>10, <3>1 DEF Fixup, SetActive
      <4>2. Removed(w, t, switch) \in [tabs : Seq(Tabs), active : Nat, last : Tabs \cup {None}]
            /\ Removed(w, t, switch).tabs = r /\ Removed(w, t, switch).active = Len(r)
        <5>1. Len(r) \in Nat
          BY <1>2
        <5> QED BY <1>6, <4>1, <5>1
      <4> QED BY <1>2, <1>3, <3>1, <4>2 DEF GoodWindow
    <3>2. CASE ~(Len(r) > 0 /\ w2.active > Len(r))
      <4>1. Removed(w, t, switch) = w2
        BY <1>6, <1>7, <1>10, <3>2 DEF Fixup
      <4>2. w2 \in [tabs : Seq(Tabs), active : Nat, last : Tabs \cup {None}]
            /\ w2.active \in 1..Len(s)
        BY <1>1, <1>6
      <4>3. w2.active \in 1..(IF r = <<>> THEN 1 ELSE Len(r))
        BY <1>1, <1>2, <3>2, <4>2, EmptySeq
      <4> QED BY <1>3, <1>6, <4>1, <4>2, <4>3 DEF GoodWindow
    <3> QED BY <3>1, <3>2
  <2> QED BY <1>4, <2>1, <2>2 DEF r, s, p
<1> QED BY <1>9, <1>10
-----------------------------------------------------------------------------
(* What prune_dead_tabs has still to remove is in the window.              *)
IInv ==
  /\ GoodWindow(win)
  /\ dead \subseteq ToSet(win.tabs) /\ unlisted \subseteq ToSet(win.tabs)
  /\ dead \cap unlisted = {}

LEMMA TabsAreTabs ==
  ASSUME NEW w, GoodWindow(w)
  PROVE  /\ w.tabs \in Seq(Tabs) /\ Len(w.tabs) \in Nat
         /\ ToSet(w.tabs) = {w.tabs[k] : k \in 1..Len(w.tabs)}
         /\ ToSet(w.tabs) \subseteq Tabs
         /\ DOMAIN w.tabs = 1..Len(w.tabs)
BY DEF GoodWindow, ToSet

(* A closed tab leaves a good window and a selection that stays. *)
LEMMA ClosingIsGood ==
  ASSUME IInv, NEW t \in Tabs, NEW switch \in BOOLEAN,
         RemoveTab(t, switch) \/ PruneDead(t, switch) \/ PruneUnlisted(t, switch)
  PROVE  IInv' /\ SelectionStays
<1>1. t \in ToSet(win.tabs) /\ win' = Removed(win, t, switch) /\ GoodWindow(win)
      /\ dead' \subseteq dead \ {t} /\ unlisted' \subseteq unlisted \ {t}
  <2>1. CASE RemoveTab(t, switch)
    BY <2>1 DEF IInv, RemoveTab, Unlocked
  <2>2. CASE PruneDead(t, switch)
    BY <2>2 DEF IInv, PruneDead, FirstOf
  <2>3. CASE PruneUnlisted(t, switch)
    BY <2>3 DEF IInv, PruneUnlisted, FirstOf
  <2> QED BY <2>1, <2>2, <2>3
<1>2. /\ GoodWindow(win') /\ ToSet(win'.tabs) = ToSet(win.tabs) \ {t}
      /\ Active(win) # t => Active(win') = Active(win)
  BY <1>1, RemovedIsGood
<1>3. IInv'
  BY <1>1, <1>2 DEF IInv
<1> QED BY <1>2, <1>3 DEF SelectionStays

(* The dragged tab is put back into the list it was taken out of. *)
LEMMA MovingIsGood ==
  ASSUME IInv, NEW i \in DOMAIN win.tabs, NEW switch \in BOOLEAN, MoveTab(i, switch)
  PROVE  IInv' /\ SelectionStays
<1> DEFINE t == Active(win)
           w == Removed(win, t, switch)
           s == w.tabs
           m == InsertAt(s, i, t)
<1>1. /\ GoodWindow(win) /\ dead = {} /\ unlisted = {} /\ dead' = {} /\ unlisted' = {}
      /\ win' = [w EXCEPT !.tabs = m, !.active = i]
  BY DEF IInv, MoveTab, Unlocked
<1>2. win.tabs \in Seq(Tabs) /\ Len(win.tabs) \in Nat /\ i \in 1..Len(win.tabs)
  BY <1>1, TabsAreTabs
<1>3. t \in ToSet(win.tabs) /\ t \in Tabs
  <2>1. win.active \in 1..Len(win.tabs)
    BY <1>1, <1>2 DEF GoodWindow
  <2> QED BY <1>1, <2>1, TabsAreTabs DEF Active
<1>4. GoodWindow(w) /\ t \notin ToSet(s) /\ s = RemoveAt(win.tabs, PosOf(win.tabs, t))
  <2> HIDE DEF t
  <2> QED BY <1>1, <1>3, RemovedIsGood
<1>5. Len(s) = Len(win.tabs) - 1
  <2> HIDE DEF w, t
  <2>1. PosOf(win.tabs, t) \in 1..Len(win.tabs)
    BY <1>2, <1>3, PosOfTab
  <2> QED BY <1>2, <1>4, <2>1, RemoveAtElements
<1> HIDE DEF w, t
<1>6. /\ s \in Seq(Tabs) /\ Distinct(s) /\ ToSet(s) = {s[k] : k \in 1..Len(s)}
  BY <1>4, TabsAreTabs DEF GoodWindow
<1> HIDE DEF s
<1>7. /\ m \in Seq(Tabs) /\ Len(m) = Len(win.tabs)
      /\ \A k \in 1..Len(m) : m[k] = IF k < i THEN s[k] ELSE IF k = i THEN t ELSE s[k - 1]
  <2>1. i \in 1..(Len(s) + 1) /\ Len(s) + 1 = Len(win.tabs)
    BY <1>2, <1>5
  <2>2. /\ m \in Seq(Tabs) /\ Len(m) = Len(s) + 1
        /\ \A k \in 1..(Len(s) + 1) :
             m[k] = IF k < i THEN s[k] ELSE IF k = i THEN t ELSE s[k - 1]
    BY <1>3, <1>6, <2>1, InsertAtElements
  <2> QED BY <2>1, <2>2
<1> HIDE DEF m
<1>8. Distinct(m)
  <2> SUFFICES ASSUME NEW j \in 1..Len(m), NEW k \in 1..Len(m), m[j] = m[k]
               PROVE  j = k
    BY DEF Distinct
  <2> DEFINE at(n) == IF n < i THEN n ELSE n - 1
  <2>1. ASSUME NEW n \in 1..Len(m), n # i
        PROVE  at(n) \in 1..Len(s) /\ m[n] = s[at(n)] /\ m[n] # t
    <3>1. at(n) \in 1..Len(s) /\ m[n] = s[at(n)]
      BY <1>2, <1>5, <1>7, <2>1
    <3> HIDE DEF at
    <3> QED BY <1>4, <1>6, <3>1 DEF s
  <2>2. m[i] = t
    BY <1>2, <1>7
  <2>3. CASE j = i \/ k = i
    BY <2>1, <2>2, <2>3
  <2>4. CASE j # i /\ k # i
    <3>1. at(j) = at(k)
      <4> HIDE DEF at
      <4> QED BY <1>6, <2>1, <2>4 DEF Distinct
    <3> QED BY <1>2, <1>7, <2>4, <3>1
  <2> QED BY <2>3, <2>4
<1>9. /\ win' \in [tabs : Seq(Tabs), active : Nat, last : Tabs \cup {None}]
      /\ win'.tabs = m /\ win'.active = i
  <2>1. w \in [tabs : Seq(Tabs), active : Nat, last : Tabs \cup {None}] /\ i \in Nat
    BY <1>2, <1>4 DEF GoodWindow
  <2> QED BY <1>1, <1>7, <2>1
<1>10. GoodWindow(win') /\ Active(win') = t
  <2>1. win'.tabs # <<>> /\ DOMAIN m = 1..Len(m) /\ m[i] = t
    BY <1>2, <1>7, <1>9, EmptySeq
  <2> QED BY <1>2, <1>7, <1>8, <1>9, <2>1 DEF GoodWindow, Active
<1> QED BY <1>1, <1>10 DEF IInv, SelectionStays, t

(* A new tab is put behind the others. *)
LEMMA PushIsGood ==
  ASSUME IInv, NEW t \in Tabs, Push(t)
  PROVE  IInv' /\ SelectionStays
<1> DEFINE s == win.tabs
           m == Append(s, t)
<1>1. /\ GoodWindow(win) /\ t \notin ToSet(s) /\ dead' = {} /\ unlisted' = {}
      /\ win' = [win EXCEPT !.tabs = m]
  BY DEF IInv, Push, Unlocked
<1>2. /\ s \in Seq(Tabs) /\ Len(s) \in Nat /\ Distinct(s)
      /\ ToSet(s) = {s[k] : k \in 1..Len(s)}
  BY <1>1, TabsAreTabs DEF GoodWindow
<1>3. /\ win \in [tabs : Seq(Tabs), active : Nat, last : Tabs \cup {None}]
      /\ win.active \in 1..(IF s = <<>> THEN 1 ELSE Len(s))
  BY <1>1 DEF GoodWindow
<1> HIDE DEF s
<1>4. /\ m \in Seq(Tabs) /\ Len(m) = Len(s) + 1 /\ m # <<>>
      /\ \A k \in 1..Len(s) : m[k] = s[k]
      /\ m[Len(s) + 1] = t
  BY <1>2, AppendProperties
<1> HIDE DEF m
<1>5. Distinct(m)
  BY <1>1, <1>2, <1>4 DEF Distinct
<1>6. /\ win' \in [tabs : Seq(Tabs), active : Nat, last : Tabs \cup {None}]
      /\ win'.tabs = m /\ win'.active = win.active
  BY <1>1, <1>3, <1>4
<1>7. GoodWindow(win')
  BY <1>2, <1>3, <1>4, <1>5, <1>6, EmptySeq DEF GoodWindow
<1>8. Active(win) # None => Active(win') = Active(win)
  BY <1>2, <1>3, <1>4, <1>6 DEF Active, s
<1>9. Active(win) = None => Active(win) \notin ToSet(win'.tabs)
  BY <1>7, TabsAreTabs, TabsAssumption
<1> QED BY <1>1, <1>7, <1>8, <1>9 DEF IInv, SelectionStays

LEMMA SelectingIsGood ==
  ASSUME IInv, NEW i \in DOMAIN win.tabs, Activate(i) \/ ActivateWithoutSaving(i)
  PROVE  IInv'
<1>1. GoodWindow(win) /\ dead' = {} /\ unlisted' = {}
  BY DEF IInv, Activate, ActivateWithoutSaving, Unlocked
<1>2. win.tabs \in Seq(Tabs) /\ Len(win.tabs) \in Nat /\ i \in 1..Len(win.tabs)
  BY <1>1, TabsAreTabs
<1>3. win \in [tabs : Seq(Tabs), active : Nat, last : Tabs \cup {None}]
  BY <1>1 DEF GoodWindow
<1>4. Active(win) \in Tabs \cup {None}
  BY <1>1, TabsAreTabs DEF Active
<1>5. /\ win' \in [tabs : Seq(Tabs), active : Nat, last : Tabs \cup {None}]
      /\ win'.tabs = win.tabs /\ win'.active = i
  <2>1. CASE Activate(i)
    <3> DEFINE a == Active(win)
    <3>1. win' = [win EXCEPT !.active = i, !.last = a] /\ a \in Tabs \cup {None}
      BY <1>4, <2>1 DEF Activate
    <3> HIDE DEF a
    <3>2. win' = [tabs |-> win.tabs, active |-> i, last |-> a]
      BY <1>3, <3>1
    <3> QED BY <1>2, <3>1, <3>2
  <2>2. CASE ActivateWithoutSaving(i)
    <3>1. win' = [win EXCEPT !.active = i]
      BY <2>2 DEF ActivateWithoutSaving, SetActive
    <3> QED BY <1>2, <1>3, <3>1
  <2> QED BY <2>1, <2>2
<1>6. GoodWindow(win')
  BY <1>1, <1>2, <1>5, EmptySeq DEF GoodWindow
<1> QED BY <1>1, <1>6 DEF IInv

(* The inductive invariant of a window: its selection is in range and no   *)
(* tab is in it twice.                                                     *)
THEOREM WindowInvariant == Spec => []IInv
<1>1. Init => IInv
  <2>1. ASSUME Init PROVE GoodWindow(win)
    BY <2>1 DEF Init, GoodWindow, Distinct
  <2> QED BY <2>1 DEF Init, IInv
<1>2. IInv /\ [Next]_vars => IInv'
  <2> SUFFICES ASSUME IInv, [Next]_vars
               PROVE  IInv'
    OBVIOUS
  <2>1. CASE \E t \in Tabs : Push(t)
    BY <2>1, PushIsGood
  <2>2. CASE \E i \in DOMAIN win.tabs : Activate(i) \/ ActivateWithoutSaving(i)
    BY <2>2, SelectingIsGood
  <2>3. CASE Moving
    BY <2>3, MovingIsGood DEF Moving
  <2>4. CASE Closing
    BY <2>4, ClosingIsGood DEF Closing
  <2>5. CASE \E ds, us \in SUBSET Tabs : Prune(ds, us)
    BY <2>5 DEF Prune, IInv
  <2>6. CASE UNCHANGED vars
    BY <2>6 DEF vars, IInv
  <2> QED BY <2>1, <2>2, <2>3, <2>4, <2>5, <2>6 DEF Next
<1> QED BY <1>1, <1>2, PTL DEF Spec

(* Type correctness, with a selection that is always in range.             *)
THEOREM WindowTypeCorrect == Spec => []TypeOK
<1>1. IInv => TypeOK
  <2> SUFFICES ASSUME IInv
               PROVE  TypeOK
    OBVIOUS
  <2>1. ToSet(win.tabs) \subseteq Tabs
    BY TabsAreTabs DEF IInv
  <2> QED BY <2>1 DEF IInv, GoodWindow, TypeOK
<1> QED BY <1>1, WindowInvariant, PTL

(* Only the user takes the selection off a tab that is still there.        *)
THEOREM WindowKeepsSelection == Spec => SelectionSurvives
<1>1. IInv /\ [Next]_vars =>
        [(\E t \in Tabs : Push(t)) \/ Moving \/ Closing => SelectionStays]_vars
  <2> SUFFICES ASSUME IInv, (\E t \in Tabs : Push(t)) \/ Moving \/ Closing
               PROVE  SelectionStays
    OBVIOUS
  <2>1. CASE \E t \in Tabs : Push(t)
    BY <2>1, PushIsGood
  <2>2. CASE Moving
    BY <2>2, MovingIsGood DEF Moving
  <2>3. CASE Closing
    BY <2>3, ClosingIsGood DEF Closing
  <2> QED BY <2>1, <2>2, <2>3
<1> QED BY <1>1, WindowInvariant, PTL DEF Spec, SelectionSurvives
-----------------------------------------------------------------------------
(* The list r is what s keeps when some of its tabs are taken out.         *)
Embeds(f, r, s) ==
  /\ f \in [1..Len(r) -> 1..Len(s)]
  /\ \A j, k \in 1..Len(r) : j < k => f[j] < f[k]
  /\ \A k \in 1..Len(r) : r[k] = s[f[k]]

(* In a window without repetitions the position of a tab is the place it   *)
(* is at.                                                                  *)
LEMMA PosOfDistinct ==
  ASSUME NEW s \in Seq(Tabs), Distinct(s), NEW i \in 1..Len(s)
  PROVE  PosOf(s, s[i]) = i
<1>1. s[i] \in ToSet(s)
  BY DEF ToSet
<1>2. PosOf(s, s[i]) \in 1..Len(s) /\ s[PosOf(s, s[i])] = s[i]
  BY <1>1, PosOfTab
<1> QED BY <1>2 DEF Distinct

(* Two tabs of the shorter list stand in the same order in both.           *)
LEMMA EmbeddingKeepsOrder ==
  ASSUME NEW r \in Seq(Tabs), NEW s \in Seq(Tabs), Distinct(r), Distinct(s),
         NEW f, Embeds(f, r, s), NEW t \in ToSet(r), NEW u \in ToSet(r)
  PROVE  PosOf(s, t) < PosOf(s, u) <=> PosOf(r, t) < PosOf(r, u)
<1> DEFINE j == PosOf(r, t)
           k == PosOf(r, u)
<1>1. j \in 1..Len(r) /\ r[j] = t /\ k \in 1..Len(r) /\ r[k] = u
  BY PosOfTab
<1> HIDE DEF j, k
<1>2. f[j] \in 1..Len(s) /\ s[f[j]] = t /\ f[k] \in 1..Len(s) /\ s[f[k]] = u
  BY <1>1 DEF Embeds
<1>3. PosOf(s, t) = f[j] /\ PosOf(s, u) = f[k]
  BY <1>2, PosOfDistinct
<1>4. f[j] < f[k] <=> j < k
  <2>1. (j < k => f[j] < f[k]) /\ (k < j => f[k] < f[j])
    BY <1>1 DEF Embeds
  <2>2. j \in Int /\ k \in Int /\ f[j] \in Int /\ f[k] \in Int
    BY <1>1, <1>2
  <2> QED BY <2>1, <2>2
<1> QED BY <1>3, <1>4 DEF j, k

LEMMA RemovalEmbeds ==
  ASSUME NEW s \in Seq(Tabs), NEW p \in 1..Len(s)
  PROVE  \E f : Embeds(f, RemoveAt(s, p), s)
<1> DEFINE r == RemoveAt(s, p)
           f == [k \in 1..Len(r) |-> IF k < p THEN k ELSE k + 1]
<1>1. /\ Len(r) = Len(s) - 1 /\ Len(s) \in Nat
      /\ \A k \in 1..(Len(s) - 1) : r[k] = IF k < p THEN s[k] ELSE s[k + 1]
  BY RemoveAtElements
<1> HIDE DEF r
<1>2. Embeds(f, r, s)
  BY <1>1 DEF Embeds
<1> QED BY <1>2 DEF r

LEMMA InsertionEmbeds ==
  ASSUME NEW s \in Seq(Tabs), NEW t \in Tabs, NEW i \in 1..(Len(s) + 1)
  PROVE  \E f : Embeds(f, s, InsertAt(s, i, t))
<1> DEFINE m == InsertAt(s, i, t)
           f == [k \in 1..Len(s) |-> IF k < i THEN k ELSE k + 1]
<1>1. /\ Len(m) = Len(s) + 1 /\ Len(s) \in Nat
      /\ \A k \in 1..(Len(s) + 1) :
           m[k] = IF k < i THEN s[k] ELSE IF k = i THEN t ELSE s[k - 1]
  BY InsertAtElements
<1> HIDE DEF m
<1>2. Embeds(f, s, m)
  BY <1>1 DEF Embeds
<1> QED BY <1>2 DEF m

(* What OrderIsKept says of one step. *)
OrderStays ==
  \A t, u \in (ToSet(win.tabs) \cap ToSet(win'.tabs)) \ {Active(win)} :
    PosOf(win.tabs, t) < PosOf(win.tabs, u) => PosOf(win'.tabs, t) < PosOf(win'.tabs, u)

LEMMA ClosingKeepsOrder ==
  ASSUME IInv, NEW t \in Tabs, NEW switch \in BOOLEAN,
         RemoveTab(t, switch) \/ PruneDead(t, switch) \/ PruneUnlisted(t, switch)
  PROVE  OrderStays
<1>1. t \in ToSet(win.tabs) /\ win' = Removed(win, t, switch) /\ GoodWindow(win)
  BY DEF IInv, RemoveTab, PruneDead, PruneUnlisted, FirstOf, Unlocked
<1>2. GoodWindow(win') /\ win'.tabs = RemoveAt(win.tabs, PosOf(win.tabs, t))
  BY <1>1, RemovedIsGood
<1>3. /\ win.tabs \in Seq(Tabs) /\ Distinct(win.tabs)
      /\ win'.tabs \in Seq(Tabs) /\ Distinct(win'.tabs)
  BY <1>1, <1>2 DEF GoodWindow
<1>4. PosOf(win.tabs, t) \in 1..Len(win.tabs)
  BY <1>1, <1>3, PosOfTab
<1>5. PICK f : Embeds(f, win'.tabs, win.tabs)
  BY <1>2, <1>3, <1>4, RemovalEmbeds
<1> QED BY <1>3, <1>5, EmbeddingKeepsOrder DEF OrderStays

(* A move is a removal and an insertion of the tab that is dragged.        *)
LEMMA MovingKeepsOrder ==
  ASSUME IInv, NEW i \in DOMAIN win.tabs, NEW switch \in BOOLEAN, MoveTab(i, switch)
  PROVE  OrderStays
<1> DEFINE a == Active(win)
           w == Removed(win, a, switch)
           m == InsertAt(w.tabs, i, a)
<1>1. GoodWindow(win) /\ win' = [w EXCEPT !.tabs = m, !.active = i]
  BY DEF IInv, MoveTab
<1>2. win.tabs \in Seq(Tabs) /\ Len(win.tabs) \in Nat /\ i \in 1..Len(win.tabs) /\ Distinct(win.tabs)
  BY <1>1, TabsAreTabs DEF GoodWindow
<1>3. a \in ToSet(win.tabs) /\ a \in Tabs
  <2>1. win.active \in 1..Len(win.tabs)
    BY <1>1, <1>2 DEF GoodWindow
  <2> QED BY <1>1, <2>1, TabsAreTabs DEF Active
<1>4. PosOf(win.tabs, a) \in 1..Len(win.tabs)
  BY <1>2, <1>3, PosOfTab
<1>5. /\ GoodWindow(w) /\ w.tabs = RemoveAt(win.tabs, PosOf(win.tabs, a))
      /\ ToSet(w.tabs) = ToSet(win.tabs) \ {a}
  <2> HIDE DEF a
  <2> QED BY <1>1, <1>3, RemovedIsGood
<1>6. w.tabs \in Seq(Tabs) /\ Distinct(w.tabs) /\ Len(w.tabs) = Len(win.tabs) - 1
  <2> HIDE DEF w, a
  <2> QED BY <1>2, <1>4, <1>5, RemoveAtElements DEF GoodWindow
<1>7. GoodWindow(win')
  BY MovingIsGood DEF IInv
<1>8. win'.tabs = m
  <2>1. w \in [tabs : Seq(Tabs), active : Nat, last : Tabs \cup {None}]
    BY <1>5 DEF GoodWindow
  <2> QED BY <1>1, <2>1
<1> HIDE DEF w, a
<1>9. m \in Seq(Tabs) /\ Distinct(m)
  BY <1>7, <1>8 DEF GoodWindow
<1>10. PICK f : Embeds(f, w.tabs, win.tabs)
  BY <1>2, <1>4, <1>5, RemovalEmbeds
<1>11. PICK g : Embeds(g, w.tabs, m)
  BY <1>2, <1>3, <1>6, InsertionEmbeds
<1>12. ASSUME NEW t \in ToSet(w.tabs), NEW u \in ToSet(w.tabs),
              PosOf(win.tabs, t) < PosOf(win.tabs, u)
       PROVE  PosOf(m, t) < PosOf(m, u)
  <2> HIDE DEF m
  <2>1. PosOf(w.tabs, t) < PosOf(w.tabs, u)
    BY <1>2, <1>6, <1>10, <1>12, EmbeddingKeepsOrder
  <2> QED BY <1>6, <1>9, <1>11, <2>1, EmbeddingKeepsOrder
<1> HIDE DEF m
<1> QED BY <1>5, <1>8, <1>12 DEF OrderStays, a

LEMMA PushKeepsOrder ==
  ASSUME IInv, NEW t \in Tabs, Push(t)
  PROVE  OrderStays
<1> DEFINE s == win.tabs
           m == Append(s, t)
           f == [k \in 1..Len(s) |-> k]
<1>1. /\ GoodWindow(win) /\ win' = [win EXCEPT !.tabs = m]
      /\ win \in [tabs : Seq(Tabs), active : Nat, last : Tabs \cup {None}]
  BY DEF IInv, Push, GoodWindow
<1>2. win'.tabs = m
  BY <1>1
<1>3. GoodWindow(win')
  BY PushIsGood DEF IInv
<1>4. /\ s \in Seq(Tabs) /\ Distinct(s) /\ Len(s) \in Nat
      /\ m \in Seq(Tabs) /\ Distinct(m)
  BY <1>1, <1>2, <1>3 DEF GoodWindow
<1> HIDE DEF s
<1>5. Len(m) = Len(s) + 1 /\ \A k \in 1..Len(s) : m[k] = s[k]
  BY <1>4, AppendProperties
<1> HIDE DEF m
<1>6. Embeds(f, s, m)
  BY <1>4, <1>5 DEF Embeds
<1> HIDE DEF f
<1> QED BY <1>2, <1>4, <1>6, EmbeddingKeepsOrder DEF OrderStays, s

(* Tabs that nobody closes or drags keep their order.                      *)
THEOREM WindowKeepsOrder == Spec => OrderIsKept
<1>1. IInv /\ [Next]_vars => [OrderStays]_vars
  <2> SUFFICES ASSUME IInv, Next
               PROVE  OrderStays \/ UNCHANGED vars
    BY DEF vars
  <2>1. CASE \E t \in Tabs : Push(t)
    BY <2>1, PushKeepsOrder
  <2>2. CASE \E i \in DOMAIN win.tabs : Activate(i) \/ ActivateWithoutSaving(i)
    <3>1. win'.tabs = win.tabs
      <4>1. win \in [tabs : Seq(Tabs), active : Nat, last : Tabs \cup {None}]
        BY DEF IInv, GoodWindow
      <4> QED BY <2>2, <4>1 DEF Activate, ActivateWithoutSaving, SetActive
    <3> QED BY <3>1 DEF OrderStays
  <2>3. CASE Moving
    BY <2>3, MovingKeepsOrder DEF Moving
  <2>4. CASE Closing
    BY <2>4, ClosingKeepsOrder DEF Closing
  <2>5. CASE \E ds, us \in SUBSET Tabs : Prune(ds, us)
    BY <2>5 DEF Prune, OrderStays
  <2> QED BY <2>1, <2>2, <2>3, <2>4, <2>5 DEF Next
<1>2. [OrderStays]_vars =>
        [\A t, u \in (ToSet(win.tabs) \cap ToSet(win'.tabs)) \ {Active(win)} :
           PosOf(win.tabs, t) < PosOf(win.tabs, u) =>
             PosOf(win'.tabs, t) < PosOf(win'.tabs, u)]_vars
  BY DEF OrderStays
<1> QED BY <1>1, <1>2, WindowInvariant, PTL DEF Spec, OrderIsKept
=============================================================================
